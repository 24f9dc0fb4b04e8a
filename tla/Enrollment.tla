----------------------------- MODULE Enrollment -----------------------------
(***************************************************************************)
(* Enrollment and credentials of one agent id: the hosts that enroll with  *)
(* the bootstrap token and work with the key they are given, and the       *)
(* operators who approve, reject, reopen, requeue, revoke and reintegrate. *)
(*                                                                         *)
(* A handler loads a row, and each commit writes only the columns that     *)
(* differ from what it loaded.  Key 0 stands for no key or no row.         *)
(***************************************************************************)
EXTENDS Naturals

CONSTANTS
  Hosts,        \* hosts that present the agent id; more than one when cloned
  Operators,    \* threads serving operator requests
  Operations,   \* operations the operators use
  MaxOperations, \* bound: operations the operators start
  MaxFaults     \* bound: lost keys, lost responses and API restarts

ASSUME ConstantsOK ==
  /\ Operations \subseteq {"approve", "reject", "reopen", "requeue", "revoke",
                          "reintegrate"}
  /\ MaxOperations \in Nat /\ MaxFaults \in Nat

VARIABLES
  enrollment,   \* agent_enrollments row: status and issued_key
  credential,   \* agent_credentials row: hashed key and is_active
  issued,       \* number of keys generated, the last one being the newest
  started,      \* operations started so far
  connected,    \* the registry, in memory, lists the agent
  agent,        \* per host, its process and the key in its env file
  request,      \* per host, the enroll request the API is handling
  console,      \* per operator thread, the operation in progress
  decision,     \* history: last decision committed
  split,        \* history: the last issuing of a key overlapped with another
                \* or was cut between its two commits
  faults        \* faults so far

vars == <<enrollment, credential, issued, started, connected, agent, request,
          console, decision, split, faults>>

Statuses == {"none", "pending", "approved", "active", "rejected"}
Enrolled == [status : Statuses, key : Nat]
Credential == [key : Nat, active : BOOLEAN]
Idle == [pc |-> "idle"]

(* Commit of a row loaded as seen and changed to new.                      *)
Commit(row, seen, new) ==
  [c \in DOMAIN row |-> IF new[c] # seen[c] THEN new[c] ELSE row[c]]

Init ==
  /\ enrollment = [status |-> "none", key |-> 0]
  /\ credential = [key |-> 0, active |-> FALSE]
  /\ issued = 0
  /\ started = 0
  /\ connected = FALSE
  /\ agent = [h \in Hosts |-> [pc |-> "enroll", key |-> 0]]
  /\ request = [h \in Hosts |-> Idle]
  /\ console = [o \in Operators |-> Idle]
  /\ decision = "none"
  /\ split = FALSE
  /\ faults = 0

(* A key is issued in two commits, the credential's and the enrollment's.   *)
Renewing(h) == request[h].pc \in {"renew", "issue"}
Approving(o) == console[o].pc # "idle" /\ console[o].op = "approve"
Issuing == \/ \E h \in Hosts : Renewing(h)
           \/ \E o \in Operators : Approving(o)

-----------------------------------------------------------------------------
(* The enroll handler.                                                     *)

EnrollRead(h) ==
  /\ agent[h].pc = "enroll"
  /\ request[h] = Idle
  /\ request' = [request EXCEPT ![h] = [pc |-> "upsert", seen |-> enrollment]]
  /\ UNCHANGED <<enrollment, credential, issued, started, connected, agent,
                 console, decision, split, faults>>

ReopenedAsConnected(e) ==                      \* mutant: wrong status
  IF e.status = "none" THEN [e EXCEPT !.status = "pending"]
                       ELSE [e EXCEPT !.status = "connected"]
ReopenedNever(e) ==                            \* mutant: active is final
  IF e.status = "none" THEN [e EXCEPT !.status = "pending"] ELSE e
Reopened(e) ==     \* an active agent that enrolls again needs no approval
  CASE e.status = "none" -> [e EXCEPT !.status = "pending"]
    [] e.status = "active" -> [e EXCEPT !.status = "approved"]
    [] OTHER -> e

(* A row inserted meanwhile makes the insert fail.  The answer "rejected"  *)
(* stops the agent, "pending" makes it ask again.                          *)
EnrollUpsert(h) ==
  /\ request[h].pc = "upsert"
  /\ LET seen == request[h].seen
         row == Commit(enrollment, seen, Reopened(seen))
     IN  IF seen.status = "none" /\ enrollment.status # "none"
           THEN /\ request' = [request EXCEPT ![h] = Idle]
                /\ UNCHANGED <<enrollment, agent, split>>
           ELSE /\ enrollment' = row
                /\ request' = [request EXCEPT ![h] =
                     IF row.status # "approved" THEN Idle
                     ELSE IF row.key = 0
                       THEN [pc |-> "renew", cred |-> credential]
                     ELSE [pc |-> "activate", key |-> row.key, seen |-> row]]
                /\ agent' = [agent EXCEPT ![h].pc =
                     IF row.status = "rejected" THEN "stopped" ELSE @]
                /\ split' = IF row.status = "approved" /\ row.key = 0
                              THEN Issuing ELSE split
  /\ UNCHANGED <<credential, issued, started, connected, console, decision,
                 faults>>

EnrollRenew(h) ==
  /\ request[h].pc = "renew"
  /\ issued' = issued + 1
  /\ credential' = Commit(credential, request[h].cred,
                          [key |-> issued', active |-> TRUE])
  /\ request' = [request EXCEPT ![h] = [pc |-> "issue", key |-> issued']]
  /\ UNCHANGED <<enrollment, started, connected, agent, console, decision,
                 split, faults>>

EnrollIssue(h) ==
  /\ request[h].pc = "issue"
  /\ enrollment' = [enrollment EXCEPT !.key = request[h].key]
  /\ request' = [request EXCEPT ![h] = [pc |-> "activate", key |-> @.key,
                                        seen |-> enrollment']]
  /\ UNCHANGED <<credential, issued, started, connected, agent, console,
                 decision, split, faults>>

MarkActive(e) == [e EXCEPT !.status = "active"]

Activate(h) ==
  /\ request[h].pc = "activate"
  /\ enrollment' = Commit(enrollment, request[h].seen,
                          MarkActive(request[h].seen))
  /\ request' = [request EXCEPT ![h] = Idle]

EnrollActivate(h) ==
  /\ Activate(h)
  /\ agent' = [agent EXCEPT ![h] = [pc |-> "work", key |-> request[h].key]]
  /\ UNCHANGED <<credential, issued, started, connected, console, decision,
                 split, faults>>

ResponseLost(h) ==
  /\ faults < MaxFaults
  /\ Activate(h)
  /\ faults' = faults + 1
  /\ UNCHANGED <<credential, issued, started, connected, agent, console,
                 decision, split>>

-----------------------------------------------------------------------------
(* The agent.  Any authenticated call marks it connected; a 401 clears the *)
(* key and returns to enrollment.                                          *)

Authentic(h) == credential.active /\ agent[h].key = credential.key

Call(h) ==
  /\ agent[h].pc = "work"
  /\ IF Authentic(h)
       THEN connected' = TRUE /\ UNCHANGED agent
       ELSE /\ agent' = [agent EXCEPT ![h] = [pc |-> "enroll", key |-> 0]]
            /\ UNCHANGED connected
  /\ UNCHANGED <<enrollment, credential, issued, started, request, console,
                 decision, split, faults>>

LoseKey(h) ==       \* the service restarts with an empty key
  /\ faults < MaxFaults
  /\ agent[h].pc # "enroll"
  /\ agent' = [agent EXCEPT ![h] = [pc |-> "enroll", key |-> 0]]
  /\ faults' = faults + 1
  /\ UNCHANGED <<enrollment, credential, issued, started, connected, request,
                 console, decision, split>>

ApiRestart ==
  /\ faults < MaxFaults
  /\ faults' = faults + 1
  /\ connected' = FALSE
  /\ request' = [h \in Hosts |-> Idle]
  /\ console' = [o \in Operators |-> Idle]
  /\ split' = (split \/ Issuing)
  /\ UNCHANGED <<enrollment, credential, issued, started, agent, decision>>

-----------------------------------------------------------------------------
(* Operators.  Deleting a machine revokes its agent as revoke does.        *)

Allowed(op) ==
  CASE op = "approve" -> enrollment.status # "none"
    [] op = "reject" -> enrollment.status # "none"
    [] op = "reopen" -> enrollment.status = "rejected"
    [] op = "requeue" -> credential.key # 0 /\ ~credential.active
    [] op = "revoke" -> credential.key # 0
    [] op = "reintegrate" -> connected

OperatorRead(o) ==
  /\ console[o] = Idle
  /\ started < MaxOperations
  /\ started' = started + 1
  /\ \E op \in Operations :
       /\ Allowed(op)
       /\ console' = [console EXCEPT ![o] =
            [pc |-> IF op \in {"approve", "revoke", "reintegrate"}
                      THEN "credential" ELSE "enrollment",
             op |-> op, key |-> IF op = "approve" THEN issued + 1 ELSE 0,
             row |-> enrollment, cred |-> credential]]
       /\ issued' = IF op = "approve" THEN issued + 1 ELSE issued
       /\ split' = IF op = "approve" THEN Issuing ELSE split
  /\ UNCHANGED <<enrollment, credential, connected, agent, request, decision,
                 faults>>

CredentialAfterInactive(c) ==                  \* mutant: no reactivation
  IF c.op = "approve" THEN [c.cred EXCEPT !.key = c.key]
                      ELSE [c.cred EXCEPT !.active = FALSE]
CredentialAfter(c) ==
  IF c.op = "approve" THEN [key |-> c.key, active |-> TRUE]
                      ELSE [c.cred EXCEPT !.active = FALSE]

(* Reintegration loads the enrollment only after this commit.  A row        *)
(* inserted meanwhile makes the insert of an approval fail.                 *)
OperatorCredential(o) ==
  /\ console[o].pc = "credential"
  /\ LET c == console[o]
         taken == c.cred.key = 0 /\ credential.key # 0
     IN  /\ credential' = IF taken THEN credential
                          ELSE Commit(credential, c.cred, CredentialAfter(c))
         /\ connected' = IF c.op = "revoke" THEN FALSE ELSE connected
         /\ decision' = IF c.op = "approve" THEN decision ELSE c.op
         /\ console' = [console EXCEPT ![o] =
              IF taken \/ c.op = "revoke" THEN Idle
              ELSE [c EXCEPT !.pc = "enrollment",
                             !.row = IF c.op = "approve" THEN @
                                                         ELSE enrollment]]
  /\ UNCHANGED <<enrollment, issued, started, agent, request, split, faults>>

EnrollmentAfterOldKey(c) ==                    \* mutant: a key is kept
  CASE c.op = "approve" ->
         [status |-> "approved", key |-> IF c.row.key = 0 THEN c.key
                                                          ELSE c.row.key]
    [] c.op = "reject" -> [status |-> "rejected", key |-> 0]
    [] c.op = "reintegrate" -> Reopened(c.row)
    [] OTHER -> [status |-> "pending", key |-> 0]
EnrollmentAfter(c) ==
  CASE c.op = "approve" -> [status |-> "approved", key |-> c.key]
    [] c.op = "reject" -> [status |-> "rejected", key |-> 0]
    [] c.op = "reintegrate" -> Reopened(c.row)
    [] OTHER -> [status |-> "pending", key |-> 0]

OperatorEnrollment(o) ==
  /\ console[o].pc = "enrollment"
  /\ LET c == console[o]
     IN  /\ enrollment' = Commit(enrollment, c.row, EnrollmentAfter(c))
         /\ connected' = IF c.op = "reintegrate" THEN FALSE ELSE connected
         /\ decision' = c.op
  /\ console' = [console EXCEPT ![o] = Idle]
  /\ UNCHANGED <<credential, issued, started, agent, request, split, faults>>

-----------------------------------------------------------------------------
HostStep(h) == \/ EnrollRead(h) \/ EnrollUpsert(h) \/ EnrollRenew(h)
               \/ EnrollIssue(h) \/ EnrollActivate(h) \/ Call(h)
Finish(o) == OperatorCredential(o) \/ OperatorEnrollment(o)

Next ==
  \/ \E h \in Hosts : HostStep(h) \/ ResponseLost(h) \/ LoseKey(h)
  \/ \E o \in Operators : OperatorRead(o) \/ Finish(o)
  \/ ApiRestart

Spec == Init /\ [][Next]_vars

(* Agents enroll and call in loops; the API finishes operations it took.   *)
FairSpec == /\ Spec
            /\ \A h \in Hosts : WF_vars(HostStep(h))
            /\ \A o \in Operators : WF_vars(Finish(o))

-----------------------------------------------------------------------------
(* Every variable stays in its type.                                       *)
TypeOK ==
  /\ enrollment \in Enrolled
  /\ credential \in Credential
  /\ issued \in Nat
  /\ started \in 0..MaxOperations
  /\ connected \in BOOLEAN
  /\ agent \in [Hosts -> [pc : {"enroll", "work", "stopped"}, key : Nat]]
  /\ request \in [Hosts -> {Idle} \cup [pc : {"upsert"}, seen : Enrolled]
                    \cup [pc : {"renew"}, cred : Credential]
                    \cup [pc : {"issue"}, key : Nat]
                    \cup [pc : {"activate"}, key : Nat, seen : Enrolled]]
  /\ console \in [Operators -> {Idle} \cup
                    [pc : {"credential", "enrollment"}, op : Operations,
                     key : Nat, row : Enrolled, cred : Credential]]
  /\ decision \in {"none"} \cup Operations
  /\ split \in BOOLEAN
  /\ faults \in 0..MaxFaults

Quiet == /\ \A h \in Hosts : request[h] = Idle
         /\ \A o \in Operators : console[o] = Idle

(* When no request is in progress, the key the enrollment would hand out is *)
(* the one an active credential accepts, whatever requests overlapped, as   *)
(* long as the last key was not issued twice at a time or cut in two.       *)
HandedKeyWorks ==
  (/\ Quiet /\ ~split /\ credential.active
   /\ enrollment.status \in {"approved", "active"} /\ enrollment.key # 0)
    => enrollment.key = credential.key

(* Once operators stop acting, every host settles: it works with the valid  *)
(* key for good, or is stopped, or waits for an operator.  In particular    *)
(* clones that share an id do not take the key from one another for ever.   *)
Settled(h) ==
  \/ agent[h].pc = "work" /\ Authentic(h)
  \/ agent[h].pc = "stopped"
  \/ enrollment.status \in {"pending", "rejected"}
  \/ ~credential.active \/ split
HostsSettle == <>[](\A h \in Hosts : Settled(h))

(* Approval moves the host to the connected agents, unless an operator      *)
(* decides again or the host loses contact.                                 *)
ApprovalConnects ==
  (decision = "approve")
    ~> (connected \/ decision # "approve" \/ split
        \/ \A h \in Hosts : agent[h].pc = "stopped")

(* After its revocation a host returns to the pending list, unless an       *)
(* operator acts again.                                                     *)
Revoked == credential.key # 0 /\ ~credential.active
RevokedReturnsPending ==
  Revoked ~> (enrollment.status = "pending" \/ ~Revoked
              \/ \A h \in Hosts : agent[h].pc = "stopped")
=============================================================================
