-------------------------- MODULE EnrollmentProofs --------------------------
(***************************************************************************)
(* Proofs about Enrollment: every variable keeps its type, and the key an  *)
(* enrollment hands out is the one an active credential accepts, for any   *)
(* number of hosts, operators and faults, unless the last issuing of a key *)
(* overlapped with another or was cut.                                     *)
(***************************************************************************)
EXTENDS Enrollment, TLAPS

(* What a commit leaves in each column.                                    *)
LEMMA EnrollmentCommit ==
  ASSUME NEW row \in Enrolled, NEW seen \in Enrolled, NEW new \in Enrolled
  PROVE  /\ Commit(row, seen, new) \in Enrolled
         /\ Commit(row, seen, new).key =
              IF new.key # seen.key THEN new.key ELSE row.key
<1>1. DOMAIN row = {"status", "key"}
  BY DEF Enrolled
<1>2. Commit(row, seen, new) =
        [status |-> IF new.status # seen.status THEN new.status ELSE row.status,
         key |-> IF new.key # seen.key THEN new.key ELSE row.key]
  BY <1>1 DEF Commit
<1> QED
  BY <1>2 DEF Enrolled

(* The same for the credential row.                                        *)
LEMMA CredentialCommit ==
  ASSUME NEW row \in Credential, NEW seen \in Credential,
         NEW new \in Credential
  PROVE  /\ Commit(row, seen, new) \in Credential
         /\ Commit(row, seen, new).key =
              IF new.key # seen.key THEN new.key ELSE row.key
<1>1. DOMAIN row = {"key", "active"}
  BY DEF Credential
<1>2. Commit(row, seen, new) =
        [key |-> IF new.key # seen.key THEN new.key ELSE row.key,
         active |-> IF new.active # seen.active THEN new.active ELSE row.active]
  BY <1>1 DEF Commit
<1> QED
  BY <1>2 DEF Credential

(* Enrolling again and marking a row active change its status only.        *)
LEMMA StatusOnly ==
  ASSUME NEW row \in Enrolled, NEW seen \in Enrolled
  PROVE  /\ Reopened(seen) \in Enrolled /\ MarkActive(seen) \in Enrolled
         /\ Reopened(seen).key = seen.key /\ MarkActive(seen).key = seen.key
         /\ Commit(row, seen, Reopened(seen)) \in Enrolled
         /\ Commit(row, seen, Reopened(seen)).key = row.key
         /\ Commit(row, seen, MarkActive(seen)) \in Enrolled
         /\ Commit(row, seen, MarkActive(seen)).key = row.key
<1>1. Reopened(seen) \in Enrolled /\ Reopened(seen).key = seen.key
  BY DEF Reopened, Enrolled, Statuses
<1>2. MarkActive(seen) \in Enrolled /\ MarkActive(seen).key = seen.key
  BY DEF MarkActive, Enrolled, Statuses
<1> QED
  BY <1>1, <1>2, EnrollmentCommit

-----------------------------------------------------------------------------
(* What the handlers hold, by the point they are at.                       *)
RequestType == {Idle} \cup [pc : {"upsert"}, seen : Enrolled]
                 \cup [pc : {"renew"}, cred : Credential]
                 \cup [pc : {"issue"}, key : Nat]
                 \cup [pc : {"activate"}, key : Nat, seen : Enrolled]
OperationType == [pc : {"credential", "enrollment"}, op : Operations,
                  key : Nat, row : Enrolled, cred : Credential]
AgentType == [pc : {"enroll", "work", "stopped"}, key : Nat]

(* What an enroll request holds, by the point it is at.                    *)
LEMMA RequestTyped ==
  ASSUME TypeOK, NEW h \in Hosts
  PROVE  /\ request[h].pc \in {"idle", "upsert", "renew", "issue", "activate"}
         /\ request[h].pc = "upsert" => request[h].seen \in Enrolled
         /\ request[h].pc = "renew" => request[h].cred \in Credential
         /\ request[h].pc = "issue" => request[h].key \in Nat
         /\ request[h].pc = "activate" =>
              request[h].key \in Nat /\ request[h].seen \in Enrolled
<1> DEFINE r == request[h]
<1>1. r \in RequestType
  BY DEF TypeOK, RequestType
<1>2. CASE r = Idle
  BY <1>2 DEF Idle
<1>3. CASE r \in [pc : {"upsert"}, seen : Enrolled]
  BY <1>3
<1>4. CASE r \in [pc : {"renew"}, cred : Credential]
  BY <1>4
<1>5. CASE r \in [pc : {"issue"}, key : Nat]
  BY <1>5
<1>6. CASE r \in [pc : {"activate"}, key : Nat, seen : Enrolled]
  BY <1>6
<1> QED
  BY <1>1, <1>2, <1>3, <1>4, <1>5, <1>6 DEF RequestType

(* What an operation of the console holds.                                 *)
LEMMA ConsoleTyped ==
  ASSUME TypeOK, NEW o \in Operators
  PROVE  /\ console[o].pc \in {"idle", "credential", "enrollment"}
         /\ console[o].pc # "idle" => console[o] \in OperationType
<1>1. console[o] \in {Idle} \cup OperationType
  BY DEF TypeOK, OperationType
<1> QED
  BY <1>1 DEF Idle, OperationType

(* What an operation makes of the two rows.                                *)
LEMMA AfterTyped ==
  ASSUME NEW c \in OperationType
  PROVE  /\ EnrollmentAfter(c) \in Enrolled
         /\ CredentialAfter(c) \in Credential
         /\ EnrollmentAfter(c).key = CASE c.op = "approve" -> c.key
                                       [] c.op = "reintegrate" -> c.row.key
                                       [] OTHER -> 0
         /\ CredentialAfter(c).key = IF c.op = "approve" THEN c.key
                                                         ELSE c.cred.key
<1>1. /\ c.key \in Nat /\ c.row \in Enrolled /\ c.cred \in Credential
  BY DEF OperationType
<1>2. Reopened(c.row) \in Enrolled /\ Reopened(c.row).key = c.row.key
  BY <1>1, StatusOnly
<1>3. /\ EnrollmentAfter(c) \in Enrolled
      /\ EnrollmentAfter(c).key = CASE c.op = "approve" -> c.key
                                       [] c.op = "reintegrate" -> c.row.key
                                       [] OTHER -> 0
  BY <1>1, <1>2 DEF EnrollmentAfter, Enrolled, Statuses
<1>4. /\ CredentialAfter(c) \in Credential
      /\ CredentialAfter(c).key = IF c.op = "approve" THEN c.key
                                                      ELSE c.cred.key
  BY <1>1 DEF CredentialAfter, Credential
<1> QED
  BY <1>3, <1>4

-----------------------------------------------------------------------------
(* Types.                                                                  *)
LEMMA InitTyped == Init => TypeOK
<1> SUFFICES ASSUME Init PROVE TypeOK
  OBVIOUS
<1>1. enrollment \in Enrolled /\ credential \in Credential
  BY DEF Init, Enrolled, Credential, Statuses
<1>2. agent \in [Hosts -> [pc : {"enroll", "work", "stopped"}, key : Nat]]
  BY DEF Init
<1>3. /\ request \in [Hosts -> {Idle}]
      /\ console \in [Operators -> {Idle}]
  BY DEF Init
<1>4. started \in 0..MaxOperations /\ faults \in 0..MaxFaults
  BY ConstantsOK DEF Init
<1>5. /\ connected \in BOOLEAN /\ split \in BOOLEAN /\ issued \in Nat
      /\ decision \in {"none"} \cup Operations
  BY DEF Init
<1> QED
  BY <1>1, <1>2, <1>3, <1>4, <1>5 DEF TypeOK

(* The steps of a host keep the types.                                     *)
LEMMA HostTypes ==
  ASSUME TypeOK, NEW h \in Hosts,
         HostStep(h) \/ ResponseLost(h) \/ LoseKey(h)
  PROVE  TypeOK'
<1> USE DEF RequestType, AgentType
<1>0. /\ enrollment \in Enrolled /\ credential \in Credential
      /\ issued \in Nat /\ request \in [Hosts -> RequestType]
      /\ agent \in [Hosts -> AgentType]
      /\ faults \in 0..MaxFaults /\ MaxFaults \in Nat
  BY ConstantsOK DEF TypeOK
<1>1. Idle \in RequestType
  OBVIOUS
<1>2. CASE EnrollRead(h)
  <2>1. [pc |-> "upsert", seen |-> enrollment] \in RequestType
    BY <1>0
  <2> QED
    BY <1>0, <1>2, <2>1 DEF EnrollRead, TypeOK
<1>3. CASE EnrollUpsert(h)
  <2> DEFINE seen == request[h].seen
             row == Commit(enrollment, seen, Reopened(seen))
  <2>1. row \in Enrolled
    BY <1>0, <1>3, RequestTyped, StatusOnly DEF EnrollUpsert
  <2>2. /\ [pc |-> "renew", cred |-> credential] \in RequestType
        /\ [pc |-> "activate", key |-> row.key, seen |-> row] \in RequestType
    BY <1>0, <2>1 DEF Enrolled
  <2>3. /\ enrollment' \in {enrollment, row}
        /\ request' \in [Hosts -> RequestType]
    <3>1. CASE seen.status = "none" /\ enrollment.status # "none"
      BY <1>0, <1>1, <1>3, <3>1 DEF EnrollUpsert
    <3>2. CASE ~(seen.status = "none" /\ enrollment.status # "none")
      BY <1>0, <1>1, <1>3, <2>2, <3>2 DEF EnrollUpsert
    <3> QED
      BY <3>1, <3>2
  <2>4. agent' \in [Hosts -> AgentType]
    <3>1. \A s \in {"stopped", agent[h].pc} :
            [agent[h] EXCEPT !.pc = s] \in AgentType
      BY <1>0
    <3>2. \/ agent' = agent
          \/ \E s \in {"stopped", agent[h].pc} :
               agent' = [agent EXCEPT ![h] = [agent[h] EXCEPT !.pc = s]]
      BY <1>0, <1>3 DEF EnrollUpsert
    <3> HIDE DEF AgentType
    <3> QED
      BY <1>0, <3>1, <3>2
  <2>5. split' \in BOOLEAN
    BY <1>3 DEF EnrollUpsert, TypeOK, Issuing
  <2> HIDE DEF row, seen, RequestType, AgentType
  <2> QED
    BY <1>0, <1>3, <2>1, <2>3, <2>4, <2>5
       DEF EnrollUpsert, TypeOK, RequestType, AgentType
<1>4. CASE EnrollRenew(h)
  <2>1. issued' \in Nat /\ [key |-> issued', active |-> TRUE] \in Credential
    BY <1>0, <1>4 DEF EnrollRenew, Credential
  <2>2. credential' \in Credential
    BY <1>0, <1>4, <2>1, RequestTyped, CredentialCommit DEF EnrollRenew
  <2>3. [pc |-> "issue", key |-> issued'] \in RequestType
    BY <2>1
  <2> QED
    BY <1>0, <1>4, <2>1, <2>2, <2>3 DEF EnrollRenew, TypeOK
<1>5. CASE EnrollIssue(h)
  <2>1. request[h].key \in Nat
    BY <1>5, RequestTyped DEF EnrollIssue
  <2>2. enrollment' \in Enrolled
    BY <1>0, <1>5, <2>1 DEF EnrollIssue, Enrolled
  <2>3. [pc |-> "activate", key |-> request[h].key, seen |-> enrollment']
          \in RequestType
    BY <2>1, <2>2
  <2> QED
    BY <1>0, <1>5, <2>2, <2>3 DEF EnrollIssue, TypeOK
<1>6. ASSUME Activate(h)
      PROVE  enrollment' \in Enrolled /\ request' \in [Hosts -> RequestType]
  BY <1>0, <1>1, <1>6, RequestTyped, StatusOnly DEF Activate
<1>7. CASE EnrollActivate(h)
  <2>1. [pc |-> "work", key |-> request[h].key] \in AgentType
    BY <1>7, RequestTyped DEF EnrollActivate, Activate
  <2> QED
    BY <1>0, <1>6, <1>7, <2>1 DEF EnrollActivate, TypeOK
<1>8. CASE ResponseLost(h)
  <2>1. faults' \in 0..MaxFaults
    BY <1>0, <1>8 DEF ResponseLost
  <2> QED
    BY <1>0, <1>6, <1>8, <2>1 DEF ResponseLost, TypeOK
<1>9. CASE Call(h)
  <2>1. [pc |-> "enroll", key |-> 0] \in AgentType
    OBVIOUS
  <2>2. agent' \in [Hosts -> AgentType] /\ connected' \in BOOLEAN
    BY <1>0, <1>9, <2>1 DEF Call, TypeOK
  <2> QED
    BY <1>0, <1>9, <2>2 DEF Call, TypeOK
<1>10. CASE LoseKey(h)
  <2>1. [pc |-> "enroll", key |-> 0] \in AgentType
    OBVIOUS
  <2>2. agent' \in [Hosts -> AgentType] /\ faults' \in 0..MaxFaults
    BY <1>0, <1>10, <2>1 DEF LoseKey
  <2> QED
    BY <1>0, <1>10, <2>2 DEF LoseKey, TypeOK
<1> QED
  BY <1>2, <1>3, <1>4, <1>5, <1>7, <1>8, <1>9, <1>10 DEF HostStep

(* The operators' requests and a restart of the API keep the types.        *)
LEMMA OperatorTypes ==
  ASSUME TypeOK, NEW o \in Operators, OperatorRead(o) \/ Finish(o)
  PROVE  TypeOK'
<1> DEFINE ConsoleType == {Idle} \cup OperationType
<1>0. /\ enrollment \in Enrolled /\ credential \in Credential
      /\ issued \in Nat /\ console \in [Operators -> ConsoleType]
      /\ started \in 0..MaxOperations /\ MaxOperations \in Nat
      /\ connected \in BOOLEAN /\ split \in BOOLEAN
      /\ decision \in {"none"} \cup Operations
  BY ConstantsOK DEF TypeOK, OperationType
<1>1. /\ console[o].pc # "idle" => console[o] \in OperationType
      /\ Idle \in ConsoleType
  BY ConsoleTyped
<1>2. CASE OperatorRead(o)
  <2>1. PICK op \in Operations :
          /\ console' = [console EXCEPT ![o] =
               [pc |-> IF op \in {"approve", "revoke", "reintegrate"}
                         THEN "credential" ELSE "enrollment",
                op |-> op, key |-> IF op = "approve" THEN issued + 1 ELSE 0,
                row |-> enrollment, cred |-> credential]]
          /\ issued' = IF op = "approve" THEN issued + 1 ELSE issued
          /\ split' = IF op = "approve" THEN Issuing ELSE split
    BY <1>2 DEF OperatorRead
  <2>2. [pc |-> IF op \in {"approve", "revoke", "reintegrate"}
                  THEN "credential" ELSE "enrollment",
         op |-> op, key |-> IF op = "approve" THEN issued + 1 ELSE 0,
         row |-> enrollment, cred |-> credential] \in OperationType
    BY <1>0 DEF OperationType
  <2>3. console' \in [Operators -> ConsoleType]
    BY <1>0, <2>1, <2>2
  <2>4. issued' \in Nat /\ started' \in 0..MaxOperations
    BY <1>0, <1>2, <2>1 DEF OperatorRead
  <2>5. split' \in BOOLEAN
    BY <1>0, <2>1 DEF Issuing
  <2> QED
    BY <1>2, <2>3, <2>4, <2>5 DEF OperatorRead, TypeOK, OperationType
<1>3. CASE OperatorCredential(o)
  <2> DEFINE c == console[o]
  <2>1. c \in OperationType /\ CredentialAfter(c) \in Credential
    BY <1>1, <1>3, AfterTyped DEF OperatorCredential
  <2>2. /\ c.op \in Operations /\ c.row \in Enrolled /\ c.cred \in Credential
        /\ c.key \in Nat
        /\ \A row \in Enrolled :
             [c EXCEPT !.pc = "enrollment", !.row = row] \in OperationType
    BY <2>1 DEF OperationType
  <2>3. credential' \in Credential
    BY <1>0, <1>3, <2>1, <2>2, CredentialCommit DEF OperatorCredential
  <2>4. \/ console' = [console EXCEPT ![o] = Idle]
        \/ \E row \in Enrolled :
             console' = [console EXCEPT ![o] =
                           [c EXCEPT !.pc = "enrollment", !.row = row]]
    BY <1>0, <1>3, <2>2 DEF OperatorCredential
  <2>5. console' \in [Operators -> ConsoleType]
    BY <1>0, <1>1, <2>2, <2>4
  <2>6. /\ connected' \in BOOLEAN
        /\ decision' \in {"none"} \cup Operations
    BY <1>0, <1>3, <2>2 DEF OperatorCredential
  <2> QED
    BY <1>3, <2>3, <2>5, <2>6 DEF OperatorCredential, TypeOK, OperationType
<1>4. CASE OperatorEnrollment(o)
  <2> DEFINE c == console[o]
  <2>1. c \in OperationType /\ EnrollmentAfter(c) \in Enrolled
    BY <1>1, <1>4, AfterTyped DEF OperatorEnrollment
  <2>2. c.op \in Operations /\ c.row \in Enrolled
    BY <2>1 DEF OperationType
  <2>3. enrollment' \in Enrolled
    BY <1>0, <1>4, <2>1, <2>2, EnrollmentCommit DEF OperatorEnrollment
  <2>4. console' \in [Operators -> ConsoleType]
    BY <1>0, <1>1, <1>4 DEF OperatorEnrollment
  <2>5. /\ connected' \in BOOLEAN
        /\ decision' \in {"none"} \cup Operations
    BY <1>0, <1>4, <2>2 DEF OperatorEnrollment
  <2> QED
    BY <1>4, <2>3, <2>4, <2>5 DEF OperatorEnrollment, TypeOK, OperationType
<1> QED
  BY <1>2, <1>3, <1>4 DEF Finish

(* A restart of the API keeps the types.                                   *)
LEMMA RestartTypes == TypeOK /\ ApiRestart => TypeOK'
<1> SUFFICES ASSUME TypeOK, ApiRestart PROVE TypeOK'
  OBVIOUS
<1>1. /\ request' \in [Hosts -> {Idle}]
      /\ console' \in [Operators -> {Idle}]
  BY DEF ApiRestart
<1>2. faults' \in 0..MaxFaults
  BY ConstantsOK DEF ApiRestart, TypeOK
<1>3. split' \in BOOLEAN /\ connected' \in BOOLEAN
  BY DEF ApiRestart, Issuing
<1> QED
  BY <1>1, <1>2, <1>3 DEF ApiRestart, TypeOK

(* Every step keeps the types.                                             *)
LEMMA TypeStep == TypeOK /\ [Next]_vars => TypeOK'
<1> SUFFICES ASSUME TypeOK, [Next]_vars PROVE TypeOK'
  OBVIOUS
<1>1. CASE UNCHANGED vars
  BY <1>1 DEF TypeOK, vars
<1> QED
  BY <1>1, HostTypes, OperatorTypes, RestartTypes DEF Next

(* Every variable keeps its type over any interleaving of enroll requests, *)
(* operators and restarts.                                                 *)
THEOREM TypeCorrect == Spec => []TypeOK
BY InitTyped, TypeStep, PTL DEF Spec

-----------------------------------------------------------------------------
(* Keys.  A key is newer than every key seen before it was generated, so   *)
(* a commit that loaded its row earlier writes it all the same.            *)
Fresh ==
  /\ enrollment.key <= issued /\ credential.key <= issued
  /\ \A h \in Hosts :
       /\ request[h].pc = "renew" => request[h].cred.key <= issued
       /\ request[h].pc = "issue" => request[h].key <= issued
  /\ \A o \in Operators : Approving(o) =>
       /\ console[o].key <= issued
       /\ console[o].row.key < console[o].key
       /\ console[o].cred.key < console[o].key

(* Unless the last issuing of a key overlapped with another, nobody else   *)
(* issues one, and the two rows agree before it and between its commits.   *)
OneIssuer ==
  /\ \A g, h \in Hosts : Renewing(g) /\ Renewing(h) => g = h
  /\ \A o, p \in Operators : Approving(o) /\ Approving(p) => o = p
  /\ \A h \in Hosts, o \in Operators : ~(Renewing(h) /\ Approving(o))
InStep ==
  /\ ~Issuing => enrollment.key \in {0, credential.key}
  /\ \A h \in Hosts :
       request[h].pc = "issue" => credential.key = request[h].key
  /\ \A o \in Operators : Approving(o) =>
       credential.key = IF console[o].pc = "credential"
                          THEN console[o].cred.key ELSE console[o].key

KeyInv == TypeOK /\ Fresh /\ (~split => OneIssuer /\ InStep)

(* A step that issues nothing: it hands out the same key or none, and      *)
(* leaves those who issue keys where they are.                             *)
Plain ==
  /\ enrollment'.key \in {0, enrollment.key}
  /\ credential'.key = credential.key
  /\ issued' = issued /\ split' = split
  /\ \A h \in Hosts :
       /\ Renewing(h)' => Renewing(h)
       /\ Renewing(h) => request'[h] = request[h]
  /\ \A o \in Operators :
       /\ Approving(o)' => Approving(o)
       /\ Approving(o) => console'[o] = console[o]

(* A plain step keeps the invariant.                                       *)
LEMMA PlainKeeps ==
  ASSUME KeyInv, TypeOK', Plain PROVE KeyInv'
<1>1. Issuing' <=> Issuing
  BY DEF Plain, Issuing, Renewing, Approving
<1>2. Fresh'
  BY DEF KeyInv, Fresh, Plain, Renewing, Approving, TypeOK, Enrolled
<1>3. OneIssuer => OneIssuer'
  BY DEF OneIssuer, Plain
<1>4. InStep => InStep'
  BY <1>1 DEF InStep, Plain, Renewing, Approving
<1>5. split' = split
  BY DEF Plain
<1> QED
  BY <1>2, <1>3, <1>4, <1>5 DEF KeyInv

(* The steps of a host that issue nothing.                                 *)
LEMMA HostPlain ==
  ASSUME TypeOK, NEW h \in Hosts,
         \/ EnrollRead(h) \/ Activate(h) \/ Call(h) \/ LoseKey(h)
         \/ EnrollUpsert(h) /\ request'[h].pc # "renew",
         UNCHANGED <<credential, issued, console, split>>
  PROVE  Plain
<1>0. enrollment \in Enrolled /\ DOMAIN request = Hosts
  BY DEF TypeOK
<1> USE DEF Plain, Renewing, Approving, Idle
<1>1. CASE EnrollRead(h)
  BY <1>0, <1>1 DEF EnrollRead
<1>2. CASE Activate(h)
  BY <1>0, <1>2, RequestTyped, StatusOnly DEF Activate
<1>3. CASE Call(h) \/ LoseKey(h)
  BY <1>3 DEF Call, LoseKey
<1>4. CASE EnrollUpsert(h) /\ request'[h].pc # "renew"
  <2>1. enrollment'.key = enrollment.key
    BY <1>0, <1>4, RequestTyped, StatusOnly DEF EnrollUpsert
  <2>2. /\ request[h].pc = "upsert" /\ request'[h].pc \notin {"renew", "issue"}
        /\ \A g \in Hosts : g # h => request'[g] = request[g]
    BY <1>0, <1>4 DEF EnrollUpsert
  <2> QED
    BY <1>0, <2>1, <2>2
<1> QED
  BY <1>1, <1>2, <1>3, <1>4

(* The steps of an operator that issue nothing.                            *)
LEMMA OperatorPlain ==
  ASSUME TypeOK, NEW o \in Operators,
         \/ OperatorRead(o) /\ ~Approving(o)'
         \/ OperatorCredential(o) /\ ~Approving(o)
         \/ OperatorEnrollment(o) /\ ~Approving(o)
  PROVE  Plain
<1>0. /\ enrollment \in Enrolled /\ credential \in Credential
      /\ DOMAIN console = Operators
  BY DEF TypeOK
<1>1. console[o].pc # "idle" => console[o] \in OperationType
  BY ConsoleTyped
<1> USE DEF Plain, Renewing, Approving
<1>2. CASE OperatorRead(o) /\ ~Approving(o)'
  BY <1>0, <1>2 DEF OperatorRead, Idle
<1>3. CASE OperatorCredential(o) /\ ~Approving(o)
  <2> DEFINE c == console[o]
  <2>1. c \in OperationType /\ c.op # "approve"
    BY <1>1, <1>3 DEF OperatorCredential
  <2>2. c.cred \in Credential
    BY <2>1 DEF OperationType
  <2>3. /\ CredentialAfter(c) \in Credential
        /\ CredentialAfter(c).key = c.cred.key
    BY <2>1, AfterTyped
  <2>4. credential'.key = credential.key
    BY <1>0, <1>3, <2>2, <2>3, CredentialCommit DEF OperatorCredential
  <2>5. ~Approving(o)' /\ \A p \in Operators : p # o => console'[p] = console[p]
    BY <1>0, <1>3, <2>1 DEF OperatorCredential, OperationType, Idle
  <2> QED
    BY <1>3, <2>4, <2>5 DEF OperatorCredential
<1>4. CASE OperatorEnrollment(o) /\ ~Approving(o)
  <2> DEFINE c == console[o]
  <2>1. c \in OperationType /\ c.op # "approve"
    BY <1>1, <1>4 DEF OperatorEnrollment
  <2>2. c.row \in Enrolled
    BY <2>1 DEF OperationType
  <2>3. /\ EnrollmentAfter(c) \in Enrolled
        /\ EnrollmentAfter(c).key \in {0, c.row.key}
    BY <2>1, AfterTyped
  <2>4. enrollment'.key \in {0, enrollment.key}
    BY <1>0, <1>4, <2>2, <2>3, EnrollmentCommit DEF OperatorEnrollment
  <2>5. ~Approving(o)' /\ \A p \in Operators : p # o => console'[p] = console[p]
    BY <1>0, <1>4 DEF OperatorEnrollment, Idle
  <2> QED
    BY <1>4, <2>4, <2>5 DEF OperatorEnrollment
<1> QED
  BY <1>2, <1>3, <1>4

(* A host starts to renew the key, alone or as one of several.             *)
LEMMA StartRenewKeeps ==
  ASSUME KeyInv, TypeOK', NEW h \in Hosts,
         EnrollUpsert(h), request'[h].pc = "renew"
  PROVE  KeyInv'
<1>1. /\ TypeOK /\ DOMAIN request = Hosts /\ request[h].pc = "upsert"
      /\ enrollment \in Enrolled
  BY DEF KeyInv, TypeOK, EnrollUpsert
<1>2. /\ enrollment'.key = enrollment.key /\ split' = Issuing
      /\ request' = [request EXCEPT ![h] =
                       [pc |-> "renew", cred |-> credential]]
  BY <1>1, RequestTyped, StatusOnly DEF EnrollUpsert, Idle
<1>3. UNCHANGED <<credential, issued, console>>
  BY DEF EnrollUpsert
<1>4. Fresh'
  BY <1>1, <1>2, <1>3 DEF KeyInv, Fresh, Approving
<1>5. ~Issuing => OneIssuer' /\ InStep'
  BY <1>1, <1>2, <1>3 DEF OneIssuer, InStep, Issuing, Renewing, Approving
<1> QED
  BY <1>2, <1>4, <1>5 DEF KeyInv

(* The first commit of a renewal.                                          *)
LEMMA RenewKeeps ==
  ASSUME KeyInv, TypeOK', NEW h \in Hosts, EnrollRenew(h)
  PROVE  KeyInv'
<1>1. /\ TypeOK /\ DOMAIN request = Hosts /\ request[h].pc = "renew"
      /\ issued \in Nat /\ issued' = issued + 1
      /\ credential \in Credential /\ enrollment \in Enrolled
      /\ request[h].cred \in Credential
  BY RequestTyped DEF KeyInv, TypeOK, EnrollRenew
<1>2. request[h].cred.key <= issued
  BY <1>1 DEF KeyInv, Fresh
<1>3. credential'.key = issued'
  <2>1. /\ [key |-> issued', active |-> TRUE] \in Credential
        /\ request[h].cred.key # issued'
    BY <1>1, <1>2 DEF Credential
  <2> QED
    BY <1>1, <2>1, CredentialCommit DEF EnrollRenew
<1>4. /\ request' = [request EXCEPT ![h] = [pc |-> "issue", key |-> issued']]
      /\ UNCHANGED <<enrollment, console, split>>
  BY DEF EnrollRenew
<1>5. Fresh'
  <2>1. /\ enrollment'.key <= issued' /\ credential'.key <= issued'
    BY <1>1, <1>3, <1>4 DEF KeyInv, Fresh, Enrolled
  <2>2. ASSUME NEW g \in Hosts
        PROVE  /\ request'[g].pc = "renew" => request'[g].cred.key <= issued'
               /\ request'[g].pc = "issue" => request'[g].key <= issued'
    <3>1. CASE g = h
      BY <1>1, <1>4, <3>1
    <3>2. CASE g # h
      <4>1. request'[g] = request[g]
        BY <1>4, <3>2
      <4>2. /\ request[g].pc = "renew" =>
                 request[g].cred.key \in Nat /\ request[g].cred.key <= issued
            /\ request[g].pc = "issue" =>
                 request[g].key \in Nat /\ request[g].key <= issued
        BY <1>1, RequestTyped DEF KeyInv, Fresh, Credential
      <4> QED
        BY <1>1, <4>1, <4>2
    <3> QED
      BY <3>1, <3>2
  <2>3. ASSUME NEW o \in Operators, Approving(o)'
        PROVE  /\ console'[o].key <= issued'
               /\ console'[o].row.key < console'[o].key
               /\ console'[o].cred.key < console'[o].key
    <3>1. Approving(o) /\ console'[o] = console[o]
      BY <1>4, <2>3 DEF Approving
    <3>2. console[o].key \in Nat
      BY <1>1, <3>1, ConsoleTyped DEF Approving, OperationType
    <3> QED
      BY <1>1, <3>1, <3>2 DEF KeyInv, Fresh
  <2> QED
    BY <2>1, <2>2, <2>3 DEF Fresh
<1>6. ASSUME ~split PROVE OneIssuer' /\ InStep'
  <2>1. /\ \A g \in Hosts : Renewing(g) => g = h
        /\ \A o \in Operators : ~Approving(o)
    BY <1>1, <1>6 DEF KeyInv, OneIssuer, Renewing
  <2>2. /\ request'[h] = [pc |-> "issue", key |-> issued']
        /\ \A g \in Hosts : g # h => request'[g] = request[g]
        /\ console' = console
    BY <1>1, <1>4
  <2>3. /\ \A g \in Hosts : Renewing(g)' <=> g = h
        /\ \A o \in Operators : ~Approving(o)'
    BY <2>1, <2>2 DEF Renewing, Approving
  <2>4. Issuing'
    BY <2>3 DEF Issuing
  <2>5. InStep'
    BY <1>3, <2>2, <2>3, <2>4 DEF InStep, Renewing
  <2> QED
    BY <2>3, <2>5 DEF OneIssuer
<1> QED
  BY <1>4, <1>5, <1>6 DEF KeyInv

(* The second commit of a renewal.                                         *)
LEMMA IssueKeeps ==
  ASSUME KeyInv, TypeOK', NEW h \in Hosts, EnrollIssue(h)
  PROVE  KeyInv'
<1>1. /\ TypeOK /\ DOMAIN request = Hosts /\ request[h].pc = "issue"
      /\ enrollment \in Enrolled
  BY DEF KeyInv, TypeOK, EnrollIssue
<1>2. /\ enrollment'.key = request[h].key
      /\ request'[h].pc = "activate"
      /\ \A g \in Hosts : g # h => request'[g] = request[g]
      /\ UNCHANGED <<credential, issued, console, split>>
  BY <1>1 DEF EnrollIssue, Enrolled
<1>3. Fresh'
  BY <1>1, <1>2 DEF KeyInv, Fresh, Approving
<1>4. ASSUME ~split PROVE OneIssuer' /\ InStep'
  <2>1. /\ credential.key = request[h].key
        /\ \A g \in Hosts : Renewing(g) => g = h
        /\ \A o \in Operators : ~Approving(o)
    BY <1>1, <1>4 DEF KeyInv, OneIssuer, InStep, Renewing
  <2>2. /\ \A g \in Hosts : ~Renewing(g)'
        /\ \A o \in Operators : ~Approving(o)'
    BY <1>2, <2>1 DEF Renewing, Approving
  <2> QED
    BY <1>2, <2>1, <2>2 DEF OneIssuer, InStep, Renewing
<1> QED
  BY <1>2, <1>3, <1>4 DEF KeyInv

(* An approval starts, alone or as one of several.                         *)
LEMMA StartApprovalKeeps ==
  ASSUME KeyInv, TypeOK', NEW o \in Operators, OperatorRead(o), Approving(o)'
  PROVE  KeyInv'
<1>1. /\ TypeOK /\ DOMAIN console = Operators /\ console[o] = Idle
      /\ enrollment \in Enrolled /\ credential \in Credential /\ issued \in Nat
      /\ UNCHANGED <<enrollment, credential, request>>
  BY DEF KeyInv, TypeOK, OperatorRead
<1>2. /\ console' = [console EXCEPT ![o] =
             [pc |-> "credential", op |-> "approve", key |-> issued + 1,
              row |-> enrollment, cred |-> credential]]
      /\ issued' = issued + 1 /\ split' = Issuing
  BY <1>1 DEF OperatorRead, Approving
<1>3. Fresh'
  <2>1. /\ enrollment.key \in Nat /\ credential.key \in Nat
        /\ enrollment.key <= issued /\ credential.key <= issued
    BY <1>1 DEF KeyInv, Fresh, Enrolled, Credential
  <2>2. ASSUME NEW g \in Hosts
        PROVE  /\ request[g].pc = "renew" => request[g].cred.key <= issued + 1
               /\ request[g].pc = "issue" => request[g].key <= issued + 1
    <3>1. /\ request[g].pc = "renew" =>
               request[g].cred.key \in Nat /\ request[g].cred.key <= issued
          /\ request[g].pc = "issue" =>
               request[g].key \in Nat /\ request[g].key <= issued
      BY <1>1, RequestTyped DEF KeyInv, Fresh, Credential
    <3> QED
      BY <1>1, <3>1
  <2>3. ASSUME NEW p \in Operators, Approving(p)'
        PROVE  /\ console'[p].key <= issued'
               /\ console'[p].row.key < console'[p].key
               /\ console'[p].cred.key < console'[p].key
    <3>1. CASE p = o
      BY <1>1, <1>2, <2>1, <3>1
    <3>2. CASE p # o
      <4>1. Approving(p) /\ console'[p] = console[p]
        BY <1>1, <1>2, <2>3, <3>2 DEF Approving
      <4>2. console[p].key \in Nat
        BY <1>1, <4>1, ConsoleTyped DEF Approving, OperationType
      <4> QED
        BY <1>1, <1>2, <4>1, <4>2 DEF KeyInv, Fresh
    <3> QED
      BY <3>1, <3>2
  <2> QED
    BY <1>1, <1>2, <2>1, <2>2, <2>3 DEF Fresh
<1>4. ASSUME ~Issuing PROVE OneIssuer' /\ InStep'
  <2>1. /\ \A h \in Hosts : ~Renewing(h)'
        /\ \A p \in Operators : Approving(p)' <=> p = o
        /\ console'[o].pc = "credential" /\ console'[o].cred.key = credential.key
    BY <1>1, <1>2, <1>4 DEF Issuing, Renewing, Approving
  <2> QED
    BY <1>1, <2>1 DEF OneIssuer, InStep, Issuing, Renewing
<1> QED
  BY <1>2, <1>3, <1>4 DEF KeyInv

(* The two commits of an approval.                                         *)
LEMMA ApprovalKeeps ==
  ASSUME KeyInv, TypeOK', NEW o \in Operators, Approving(o), Finish(o)
  PROVE  KeyInv'
<1> DEFINE c == console[o]
<1>1. /\ TypeOK /\ DOMAIN console = Operators /\ c \in OperationType
      /\ enrollment \in Enrolled /\ credential \in Credential
      /\ issued \in Nat /\ c.op = "approve"
      /\ c.row \in Enrolled /\ c.cred \in Credential /\ c.key \in Nat
      /\ c.key <= issued /\ c.row.key < c.key /\ c.cred.key < c.key
  BY ConsoleTyped DEF KeyInv, TypeOK, Approving, Fresh, OperationType
<1>2. /\ EnrollmentAfter(c) \in Enrolled /\ EnrollmentAfter(c).key = c.key
      /\ CredentialAfter(c) \in Credential /\ CredentialAfter(c).key = c.key
  BY <1>1, AfterTyped
<1>3. /\ c.row.key \in Nat /\ c.cred.key \in Nat
      /\ c.row.key # c.key /\ c.cred.key # c.key
  BY <1>1 DEF Enrolled, Credential
<1>4. ASSUME ~split
      PROVE  /\ \A h \in Hosts : ~Renewing(h)
             /\ \A p \in Operators : Approving(p) => p = o
             /\ credential.key = IF c.pc = "credential" THEN c.cred.key
                                                        ELSE c.key
  BY <1>4 DEF KeyInv, OneIssuer, InStep
<1>5. CASE OperatorCredential(o)
  <2> DEFINE taken == c.cred.key = 0 /\ credential.key # 0
  <2>1. /\ c.pc = "credential"
        /\ credential'.key = IF taken THEN credential.key ELSE c.key
        /\ UNCHANGED <<enrollment, issued, request, split>>
    BY <1>1, <1>2, <1>3, <1>5, CredentialCommit DEF OperatorCredential
  <2>2. /\ \A p \in Operators : p # o => console'[p] = console[p]
        /\ console'[o] = IF taken THEN Idle
                         ELSE [c EXCEPT !.pc = "enrollment", !.row = c.row]
    BY <1>1, <1>5 DEF OperatorCredential
  <2>3. Approving(o)' =>
          /\ ~taken /\ console'[o].pc = "enrollment"
          /\ console'[o].key = c.key /\ console'[o].row = c.row
          /\ console'[o].cred = c.cred
    BY <1>1, <2>2 DEF Approving, Idle, OperationType
  <2>4. Fresh'
    <3>1. ASSUME NEW p \in Operators, Approving(p)'
          PROVE  /\ console'[p].key <= issued
                 /\ console'[p].row.key < console'[p].key
                 /\ console'[p].cred.key < console'[p].key
      <4>1. CASE p = o
        BY <1>1, <2>3, <3>1, <4>1
      <4>2. CASE p # o
        BY <2>2, <3>1, <4>2 DEF KeyInv, Fresh, Approving
      <4> QED
        BY <4>1, <4>2
    <3> QED
      BY <1>1, <2>1, <3>1 DEF KeyInv, Fresh
  <2>5. ASSUME ~split PROVE OneIssuer' /\ InStep'
    <3>1. ~taken
      BY <1>4, <2>1, <2>5
    <3>2. /\ \A h \in Hosts : ~Renewing(h)'
          /\ \A p \in Operators : Approving(p)' => p = o
      BY <1>4, <2>1, <2>2, <2>5 DEF Renewing, Approving
    <3>3. Approving(o)'
      BY <1>1, <2>2, <3>1 DEF Approving, OperationType
    <3> QED
      BY <2>1, <2>3, <3>1, <3>2, <3>3 DEF OneIssuer, InStep, Issuing, Renewing
  <2> QED
    BY <2>1, <2>4, <2>5 DEF KeyInv
<1>6. CASE OperatorEnrollment(o)
  <2>1. /\ c.pc = "enrollment"
        /\ enrollment'.key = c.key
        /\ UNCHANGED <<credential, issued, request, split>>
    BY <1>1, <1>2, <1>3, <1>6, EnrollmentCommit DEF OperatorEnrollment
  <2>2. /\ \A p \in Operators : p # o => console'[p] = console[p]
        /\ ~Approving(o)'
    BY <1>1, <1>6 DEF OperatorEnrollment, Approving, Idle
  <2>3. Fresh'
    BY <1>1, <2>1, <2>2 DEF KeyInv, Fresh, Approving
  <2>4. ASSUME ~split PROVE OneIssuer' /\ InStep'
    <3>1. /\ \A h \in Hosts : ~Renewing(h)'
          /\ \A p \in Operators : ~Approving(p)'
      BY <1>4, <2>1, <2>2, <2>4 DEF Renewing, Approving
    <3>2. enrollment'.key = credential'.key
      BY <1>4, <2>1, <2>4
    <3> QED
      BY <3>1, <3>2 DEF OneIssuer, InStep, Renewing
  <2> QED
    BY <2>1, <2>3, <2>4 DEF KeyInv
<1> QED
  BY <1>5, <1>6 DEF Finish

(* A restart of the API cuts every issuing, and then counts as one.        *)
LEMMA RestartKeeps ==
  ASSUME KeyInv, TypeOK', ApiRestart PROVE KeyInv'
<1>1. /\ \A h \in Hosts : request'[h] = Idle
      /\ \A o \in Operators : console'[o] = Idle
      /\ UNCHANGED <<enrollment, credential, issued>>
      /\ split' <=> split \/ Issuing
  BY DEF ApiRestart
<1>2. /\ \A h \in Hosts : ~Renewing(h)'
      /\ \A o \in Operators : ~Approving(o)'
  BY <1>1 DEF Renewing, Approving, Idle
<1>3. Fresh'
  BY <1>1, <1>2 DEF KeyInv, Fresh, Idle
<1>4. ~split /\ ~Issuing => OneIssuer' /\ InStep'
  BY <1>1, <1>2 DEF KeyInv, OneIssuer, InStep, Renewing
<1> QED
  BY <1>1, <1>3, <1>4 DEF KeyInv

(* The invariant holds before any host enrolls.                            *)
LEMMA KeyInit == Init => KeyInv
<1> SUFFICES ASSUME Init PROVE KeyInv
  OBVIOUS
<1>1. /\ \A h \in Hosts : request[h] = Idle
      /\ \A o \in Operators : console[o] = Idle
      /\ enrollment.key = 0 /\ credential.key = 0 /\ issued = 0 /\ ~split
  BY DEF Init
<1>2. /\ \A h \in Hosts : ~Renewing(h)
      /\ \A o \in Operators : ~Approving(o)
  BY <1>1 DEF Renewing, Approving, Idle
<1>3. Fresh
  BY <1>1, <1>2 DEF Fresh, Idle
<1>4. OneIssuer /\ InStep
  BY <1>1, <1>2 DEF OneIssuer, InStep, Renewing
<1> QED
  BY <1>3, <1>4, InitTyped DEF KeyInv

(* Every step keeps the invariant.                                         *)
LEMMA KeyStep == KeyInv /\ [Next]_vars => KeyInv'
<1> SUFFICES ASSUME KeyInv, [Next]_vars PROVE KeyInv'
  OBVIOUS
<1>1. TypeOK /\ TypeOK'
  BY TypeStep DEF KeyInv
<1>2. CASE UNCHANGED vars
  <2>1. Plain
    BY <1>2 DEF Plain, vars, Renewing, Approving
  <2> QED
    BY <1>1, <2>1, PlainKeeps
<1>3. ASSUME NEW h \in Hosts, HostStep(h) \/ ResponseLost(h) \/ LoseKey(h)
      PROVE  KeyInv'
  <2>1. CASE \/ EnrollRead(h) \/ EnrollActivate(h) \/ ResponseLost(h)
             \/ Call(h) \/ LoseKey(h)
    <3>1. /\ \/ EnrollRead(h) \/ Activate(h) \/ Call(h) \/ LoseKey(h)
          /\ UNCHANGED <<credential, issued, console, split>>
      BY <2>1 DEF EnrollRead, EnrollActivate, ResponseLost, Call, LoseKey
    <3> QED
      BY <1>1, <3>1, HostPlain, PlainKeeps
  <2>2. CASE EnrollUpsert(h) /\ request'[h].pc # "renew"
    <3>1. UNCHANGED <<credential, issued, console, split>>
      <4>1. DOMAIN request = Hosts
        BY <1>1 DEF TypeOK
      <4> QED
        BY <2>2, <4>1 DEF EnrollUpsert
    <3> QED
      BY <1>1, <2>2, <3>1, HostPlain, PlainKeeps
  <2>3. CASE EnrollUpsert(h) /\ request'[h].pc = "renew"
    BY <1>1, <2>3, StartRenewKeeps
  <2> QED
    BY <1>1, <1>3, <2>1, <2>2, <2>3, RenewKeeps, IssueKeeps DEF HostStep
<1>4. ASSUME NEW o \in Operators, OperatorRead(o) \/ Finish(o)
      PROVE  KeyInv'
  <2>1. CASE OperatorRead(o) /\ Approving(o)'
    BY <1>1, <2>1, StartApprovalKeeps
  <2>2. CASE Finish(o) /\ Approving(o)
    BY <1>1, <2>2, ApprovalKeeps
  <2>3. CASE \/ OperatorRead(o) /\ ~Approving(o)'
             \/ Finish(o) /\ ~Approving(o)
    <3>1. Plain
      BY <1>1, <2>3, OperatorPlain DEF Finish
    <3> QED
      BY <1>1, <3>1, PlainKeeps
  <2> QED
    BY <1>4, <2>1, <2>2, <2>3
<1> QED
  BY <1>1, <1>2, <1>3, <1>4, RestartKeeps DEF Next

(* Keys are generated once and, unless two issuings overlapped or one was  *)
(* cut, both rows name the last one.                                       *)
THEOREM KeyInvariant == Spec => []KeyInv
BY KeyInit, KeyStep, PTL DEF Spec

(* With any number of hosts and operator threads, the key an enrollment    *)
(* hands out is the one its active credential accepts.                     *)
THEOREM HandedKeyHolds == Spec => []HandedKeyWorks
<1>1. KeyInv => HandedKeyWorks
  <2> SUFFICES ASSUME KeyInv, Quiet, ~split, enrollment.key # 0
               PROVE  enrollment.key = credential.key
    BY DEF HandedKeyWorks
  <2>1. ~Issuing
    BY DEF Quiet, Issuing, Renewing, Approving, Idle
  <2> QED
    BY <2>1 DEF KeyInv, InStep
<1> QED
  BY KeyInvariant, <1>1, PTL
=============================================================================
