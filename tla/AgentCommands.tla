---------------------------- MODULE AgentCommands ----------------------------
(***************************************************************************)
(* The command queue of one agent id, which cloned hosts may share: the    *)
(* operator requests and the reboot pass that fill it, the hosts that      *)
(* claim from it, execute and report, the result handler, the expiry of    *)
(* force_reidentify claims, and the post-patch state of the id.            *)
(*                                                                         *)
(* A command is its index in the order of insertion.  created_at is the    *)
(* start of the inserting transaction, so claims follow another order: a   *)
(* command carries how many commands its transaction found, and of two     *)
(* that found as many either may be the older.  A handler is one step per  *)
(* commit.                                                                 *)
(***************************************************************************)
EXTENDS Naturals, Sequences, FiniteSets

CONSTANTS
  Hosts,         \* hosts that present the shared agent id
  Operators,     \* threads serving force-reidentify requests
  Passes,        \* threads that may run a reboot pass
  Requests,      \* kinds of command operators request
  JobStates,     \* post-patch states the results of patch jobs leave
  Policy,        \* normalised reboot policy of the one schedule
  MaxPeriod,     \* bound: last period whose reboot window opens
  MaxCommands,   \* bound: no request or pass starts beyond these commands
  MaxFaults      \* bound: crashes and lost messages of a behaviour

ASSUME ConstantsOK ==
  /\ Requests \subseteq {"force_reidentify", "upgrade_agent", "reboot_now"}
  /\ JobStates \subseteq {"apply-completed", "apply-failed", "reboot-required",
                         "reboot-scheduled"}
  /\ Policy \in {"never", "always", "if-needed"}
  /\ MaxPeriod \in Nat \ {0}
  /\ MaxCommands \in Nat
  /\ MaxFaults \in Nat

VARIABLES
  queue,       \* agent_commands of the id, in order of their inserting commits
  snapshot,    \* post_patch_state of the id's inventory snapshot
  clearing,    \* an inventory is about to clear the reboot state it read
  period,      \* period of the reboot window that is open
  pass,        \* reboot passes in progress
  request,     \* force-reidentify requests in progress
  host,        \* the agent process of each host
  installing,  \* per host, the command whose installer it scheduled, or 0
  identity,    \* per host, 0 or the command whose reserved id it took
  results,     \* command results the API is handling
  rebooted,    \* history: reboots hosts accepted per period, from the first
               \* acceptance that its executor saw on
  faults       \* crashes and losses so far

vars == <<queue, snapshot, clearing, period, pass, request, host, installing,
          identity, results, rebooted, faults>>

Command == [kind : {"force_reidentify", "upgrade_agent", "reboot_now",
                    "scheduled_reboot"},
            period : Nat,
            found : Nat,             \* commands there when created_at was set
            status : {"pending", "running", "completed", "failed"},
            claimed : BOOLEAN,       \* claimed_at is set
            stale : BOOLEAN]         \* claimed_at is older than 15 minutes
PostPatch == {"idle", "apply-completed", "apply-failed", "reboot-required",
              "reboot-scheduled", "reboot-failed", "reboot-cleared"}
Idle == [pc |-> "idle"]
Ids == Nat \ {0}

NewCommand(kind, p, n) == [kind |-> kind, period |-> p, found |-> n,
                           status |-> "pending", claimed |-> FALSE,
                           stale |-> FALSE]
Room == Len(queue) < MaxCommands
(* The transaction of an insert began at a query of the session after its   *)
(* last commit, when the queue held since commands, or later.               *)
Add(kind, p, since) ==
  \E n \in since..Len(queue) : queue' = Append(queue, NewCommand(kind, p, n))
SetStatus(c, s) == queue' = [queue EXCEPT ![c].status = s]

StatusOfPending(c) ==        \* mutant: claims skip commands claimed before
  queue[c].status = "pending" /\ ~queue[c].claimed
StatusOfUnfinished(c) ==     \* mutant: a claim redelivers unfinished commands
  queue[c].status \in {"pending", "running"}
StatusPending(c) == queue[c].status = "pending"
Pending == {c \in DOMAIN queue : StatusPending(c)}
ActiveRunning ==             \* mutant: only a running command is active
  {c \in DOMAIN queue : queue[c].kind = "force_reidentify"
                        /\ queue[c].status = "running"}
Active == {c \in DOMAIN queue : queue[c].kind = "force_reidentify"
                                /\ queue[c].status \in {"pending", "running"}}

Init ==
  /\ queue = <<>>
  /\ snapshot = "idle"
  /\ clearing = FALSE
  /\ period = 1
  /\ pass = [e \in Passes |-> Idle]
  /\ request = [o \in Operators |-> Idle]
  /\ host = [h \in Hosts |-> Idle]
  /\ installing = [h \in Hosts |-> 0]
  /\ identity = [h \in Hosts |-> 0]
  /\ results = {}
  /\ rebooted = [p \in 1..MaxPeriod |-> 0]
  /\ faults = 0

-----------------------------------------------------------------------------
(* Operators.  Reboot and upgrade requests insert at once; a               *)
(* force-reidentify request first expires one stale claim, then checks,    *)
(* then inserts under the partial unique index on active commands.         *)

Request(kind) ==
  /\ kind \in Requests \ {"force_reidentify"}
  /\ Room
  /\ Add(kind, 0, 0)
  /\ UNCHANGED <<snapshot, clearing, period, pass, request, host, installing,
                 identity, results, rebooted, faults>>

StaleClaims == {c \in DOMAIN queue : queue[c].kind = "force_reidentify"
                                     /\ queue[c].status = "running"
                                     /\ queue[c].stale}

ReidentifyFind(o) ==
  /\ "force_reidentify" \in Requests
  /\ Room
  /\ request[o] = Idle
  /\ request' = [request EXCEPT ![o] =
       IF StaleClaims = {} THEN [pc |-> "check", since |-> 0]
       ELSE [pc |-> "expire", cmd |-> CHOOSE c \in StaleClaims : TRUE]]
  /\ UNCHANGED <<queue, snapshot, clearing, period, pass, host, installing,
                 identity, results, rebooted, faults>>

RequeueExpired(o) ==         \* mutant: an expired claim is queued again
  /\ request[o].pc = "expire"
  /\ SetStatus(request[o].cmd, "pending")
  /\ request' = [request EXCEPT ![o] = [pc |-> "check", since |-> Len(queue)]]
  /\ UNCHANGED <<snapshot, clearing, period, pass, host, installing, identity,
                 results, rebooted, faults>>
ReidentifyExpire(o) ==
  /\ request[o].pc = "expire"
  /\ SetStatus(request[o].cmd, "failed")
  /\ request' = [request EXCEPT ![o] = [pc |-> "check", since |-> Len(queue)]]
  /\ UNCHANGED <<snapshot, clearing, period, pass, host, installing, identity,
                 results, rebooted, faults>>

ReidentifyCheck(o) ==
  /\ request[o].pc = "check"
  /\ request' = [request EXCEPT ![o] =
       IF Active = {} /\ Pending = {} THEN [@ EXCEPT !.pc = "insert"]
                                      ELSE Idle]
  /\ UNCHANGED <<queue, snapshot, clearing, period, pass, host, installing,
                 identity, results, rebooted, faults>>

ReidentifyInsert(o) ==
  /\ request[o].pc = "insert"
  /\ IF Active = {} THEN Add("force_reidentify", 0, request[o].since)
                    ELSE UNCHANGED queue
  /\ request' = [request EXCEPT ![o] = Idle]
  /\ UNCHANGED <<snapshot, clearing, period, pass, host, installing, identity,
                 results, rebooted, faults>>

-----------------------------------------------------------------------------
(* The reboot pass of the scheduler.  A scheduled reboot has one command   *)
(* per period, its id derived from schedule, agent and period; a failed    *)
(* one is queued again.                                                    *)

CompletedCycle == snapshot # "idle"
NeedsReboot == snapshot \in {"reboot-required", "reboot-scheduled",
                             "reboot-failed"}
RebootOf(p) == {c \in DOMAIN queue : queue[c].kind = "scheduled_reboot"
                                     /\ queue[c].period = p}
MayResetUnfinished(c) ==     \* mutant: an unanswered reboot is queued again
  queue[c].status \in {"failed", "running"}
MayResetFinished(c) ==       \* mutant: a reboot that was accepted is repeated
  queue[c].status \in {"failed", "completed"}
MayReset(c) == queue[c].status = "failed"

PassStart(e) ==
  /\ Policy # "never" /\ period <= MaxPeriod
  /\ pass[e] = Idle
  /\ CompletedCycle
  /\ Policy = "if-needed" => NeedsReboot
  /\ \/ /\ RebootOf(period) = {} /\ Room
        /\ pass' = [pass EXCEPT ![e] = [pc |-> "announce", period |-> period,
                                        add |-> TRUE]]
     \/ \E c \in RebootOf(period) :
          /\ MayReset(c)
          /\ pass' = [pass EXCEPT ![e] = [pc |-> "reset", cmd |-> c]]
  /\ UNCHANGED <<queue, snapshot, clearing, period, request, host, installing,
                 identity, results, rebooted, faults>>

PassReset(e) ==
  /\ pass[e].pc = "reset"
  /\ SetStatus(pass[e].cmd, "pending")
  /\ pass' = [pass EXCEPT ![e] = [pc |-> "announce",
                                  period |-> queue[pass[e].cmd].period,
                                  add |-> FALSE]]
  /\ UNCHANGED <<snapshot, clearing, period, request, host, installing,
                 identity, results, rebooted, faults>>

PassAnnounce(e) ==
  /\ pass[e].pc = "announce"
  /\ snapshot' = "reboot-scheduled"
  /\ pass' = [pass EXCEPT ![e] = IF pass[e].add
                                 THEN [pc |-> "add", period |-> pass[e].period,
                                       since |-> Len(queue)]
                                 ELSE Idle]
  /\ UNCHANGED <<queue, clearing, period, request, host, installing, identity,
                 results, rebooted, faults>>

PassAdd(e) ==       \* the primary key refuses a second command of the period
  /\ pass[e].pc = "add"
  /\ IF RebootOf(pass[e].period) = {}
       THEN Add("scheduled_reboot", pass[e].period, pass[e].since)
       ELSE UNCHANGED queue
  /\ pass' = [pass EXCEPT ![e] = Idle]
  /\ UNCHANGED <<snapshot, clearing, period, request, host, installing,
                 identity, results, rebooted, faults>>

-----------------------------------------------------------------------------
(* Hosts.  One UPDATE ... RETURNING claims the oldest pending command.     *)

Claim(c) ==
  queue' = [queue EXCEPT ![c].status = "running", ![c].claimed = TRUE,
                         ![c].stale = FALSE]
AnyPending(c) == c \in Pending   \* mutant: claims without ORDER BY
Oldest(c) ==
  c \in Pending /\ \A d \in Pending : queue[c].found <= queue[d].found

Poll(h) ==
  /\ identity[h] = 0
  /\ host[h] = Idle
  /\ \E c \in DOMAIN queue :
       /\ Oldest(c)
       /\ Claim(c)
       /\ host' = [host EXCEPT ![h] = [pc |-> "executing", cmd |-> c]]
  /\ UNCHANGED <<snapshot, clearing, period, pass, request, installing,
                 identity, results, rebooted, faults>>

PollLost(h) ==      \* claimed, but the response never reaches the host
  /\ faults < MaxFaults
  /\ identity[h] = 0
  /\ host[h] = Idle
  /\ \E c \in DOMAIN queue : Oldest(c) /\ Claim(c)
  /\ faults' = faults + 1
  /\ UNCHANGED <<snapshot, clearing, period, pass, request, host, installing,
                 identity, results, rebooted>>

(* A reboot is accepted or refused on the host, and an accepted one still   *)
(* fails in the executor when the command times out; a reidentification    *)
(* schedules the installer under the reserved id; an upgrade reports       *)
(* before it starts.                                                       *)
Execute(h) ==
  /\ host[h].pc = "executing"
  /\ LET c == host[h].cmd
         k == queue[c].kind
     IN  \E o \in IF k = "upgrade_agent" THEN {"applied"}
                                         ELSE {"applied", "failed"},
            accepted \in BOOLEAN :
           /\ o = "applied" => accepted
           /\ host' = [host EXCEPT ![h] = [pc |-> "executed", cmd |-> c,
                                           outcome |-> o]]
           /\ installing' = IF k = "force_reidentify" /\ o = "applied"
                              THEN [installing EXCEPT ![h] = c]
                              ELSE installing
           /\ rebooted' = IF /\ k = "scheduled_reboot" /\ accepted
                             /\ o = "applied" \/ rebooted[queue[c].period] > 0
                            THEN [rebooted EXCEPT ![queue[c].period] = @ + 1]
                            ELSE rebooted
  /\ UNCHANGED <<queue, snapshot, clearing, period, pass, request, identity,
                 results, faults>>

Send(h) ==
  /\ host[h].pc = "executed"
  /\ results' = results \cup {[cmd |-> host[h].cmd, by |-> h,
                               outcome |-> host[h].outcome, step |-> "read"]}
  /\ host' = [host EXCEPT ![h] = [pc |-> "reporting", cmd |-> host[h].cmd]]
  /\ UNCHANGED <<queue, snapshot, clearing, period, pass, request, installing,
                 identity, rebooted, faults>>

HostFails(h) ==     \* crash, lost request, or a client that gives up waiting
  /\ faults < MaxFaults
  /\ host[h] # Idle
  /\ host' = [host EXCEPT ![h] = Idle]
  /\ faults' = faults + 1
  /\ UNCHANGED <<queue, snapshot, clearing, period, pass, request, installing,
                 identity, results, rebooted>>

Install(h) ==       \* the installer restarts the service under its new id
  /\ installing[h] # 0
  /\ identity' = [identity EXCEPT ![h] = installing[h]]
  /\ installing' = [installing EXCEPT ![h] = 0]
  /\ host' = [host EXCEPT ![h] = Idle]
  /\ UNCHANGED <<queue, snapshot, clearing, period, pass, request, results,
                 rebooted, faults>>

InstallFails(h) ==
  /\ faults < MaxFaults
  /\ installing[h] # 0
  /\ installing' = [installing EXCEPT ![h] = 0]
  /\ faults' = faults + 1
  /\ UNCHANGED <<queue, snapshot, clearing, period, pass, request, host,
                 identity, results, rebooted>>

-----------------------------------------------------------------------------
(* The result handler reads the command, refuses replays and commands that *)
(* are not running, commits the verdict, then the post-patch state.        *)

RawVerdict(o) == o           \* mutant: the reported result stored as status
Verdict(o) == IF o = "applied" THEN "completed" ELSE "failed"

Respond(r) ==
  /\ results' = results \ {r}
  /\ host' = IF host[r.by] = [pc |-> "reporting", cmd |-> r.cmd]
               THEN [host EXCEPT ![r.by] = Idle] ELSE host

ResultRead(r) ==
  /\ r.step = "read"
  /\ IF queue[r.cmd].status = "running"
       THEN /\ results' = (results \ {r}) \cup {[r EXCEPT !.step = "commit"]}
            /\ UNCHANGED host
       ELSE Respond(r)
  /\ UNCHANGED <<queue, snapshot, clearing, period, pass, request, installing,
                 identity, rebooted, faults>>

ResultCommit(r) ==
  /\ r.step = "commit"
  /\ SetStatus(r.cmd, Verdict(r.outcome))
  /\ results' = (results \ {r}) \cup {[r EXCEPT !.step = "effect"]}
  /\ UNCHANGED <<snapshot, clearing, period, pass, request, host, installing,
                 identity, rebooted, faults>>

ResultEffect(r) ==
  /\ r.step = "effect"
  /\ snapshot' = IF queue[r.cmd].kind \in {"reboot_now", "scheduled_reboot"}
                   THEN IF r.outcome = "applied" THEN "reboot-scheduled"
                                                 ELSE "reboot-failed"
                   ELSE snapshot
  /\ Respond(r)
  /\ UNCHANGED <<queue, clearing, period, pass, request, installing, identity,
                 rebooted, faults>>

-----------------------------------------------------------------------------
(* What else moves: results of patch jobs, inventories, time, restarts.    *)

PatchJobResult ==   \* the result of a Linux job leaves the state alone
  /\ snapshot' \in JobStates \cup {snapshot}
  /\ UNCHANGED <<queue, clearing, period, pass, request, host, installing,
                 identity, results, rebooted, faults>>

(* An inventory of a host that needs no reboot reads the state and commits  *)
(* its replacement later.                                                  *)
InventoryRead ==
  /\ ~clearing
  /\ snapshot \in {"reboot-required", "reboot-scheduled"}
  /\ clearing' = TRUE
  /\ UNCHANGED <<queue, snapshot, period, pass, request, host, installing,
                 identity, results, rebooted, faults>>

InventoryClear ==
  /\ clearing
  /\ snapshot' = "reboot-cleared"
  /\ clearing' = FALSE
  /\ UNCHANGED <<queue, period, pass, request, host, installing, identity,
                 results, rebooted, faults>>

NewPeriod ==        \* a window closes after WINDOW_MAX_AGE_SECONDS
  /\ period <= MaxPeriod
  /\ period' = period + 1
  /\ UNCHANGED <<queue, snapshot, clearing, pass, request, host, installing,
                 identity, results, rebooted, faults>>

ClaimTimesOut(c) ==
  /\ queue[c].kind = "force_reidentify"
  /\ queue[c].status = "running" /\ ~queue[c].stale
  /\ queue' = [queue EXCEPT ![c].stale = TRUE]
  /\ UNCHANGED <<snapshot, clearing, period, pass, request, host, installing,
                 identity, results, rebooted, faults>>

ApiCrash ==
  /\ faults < MaxFaults
  /\ faults' = faults + 1
  /\ pass' = [e \in Passes |-> Idle]
  /\ request' = [o \in Operators |-> Idle]
  /\ results' = {}
  /\ clearing' = FALSE
  /\ host' = [h \in Hosts |-> IF host[h].pc = "reporting" THEN Idle
                                                          ELSE host[h]]
  /\ UNCHANGED <<queue, snapshot, period, installing, identity, rebooted>>

-----------------------------------------------------------------------------
Reidentify(o) == \/ ReidentifyFind(o) \/ ReidentifyExpire(o)
                 \/ ReidentifyCheck(o) \/ ReidentifyInsert(o)
RebootPass(e) == \/ PassStart(e) \/ PassReset(e) \/ PassAnnounce(e)
                 \/ PassAdd(e)
HostStep(h) == Poll(h) \/ Execute(h) \/ Send(h)
HostFault(h) == PollLost(h) \/ HostFails(h) \/ InstallFails(h)
Handle == \E r \in results :
            ResultRead(r) \/ ResultCommit(r) \/ ResultEffect(r)

Next ==
  \/ \E kind \in Requests : Request(kind)
  \/ \E o \in Operators : Reidentify(o)
  \/ \E e \in Passes : RebootPass(e)
  \/ \E h \in Hosts : HostStep(h) \/ Install(h) \/ HostFault(h)
  \/ Handle
  \/ PatchJobResult \/ InventoryRead \/ InventoryClear \/ NewPeriod
  \/ \E c \in DOMAIN queue : ClaimTimesOut(c)
  \/ ApiCrash

Spec == Init /\ [][Next]_vars

(* Hosts poll in a loop, the API finishes the requests it took, and reboot *)
(* windows close.                                                          *)
FairSpec == Spec /\ WF_vars(Handle) /\ WF_vars(NewPeriod)
                 /\ \A h \in Hosts :
                      WF_vars(HostStep(h)) /\ WF_vars(Install(h))
-----------------------------------------------------------------------------
(* Every variable stays in its type.                                       *)
TypeOK ==
  /\ queue \in Seq(Command)
  /\ snapshot \in PostPatch
  /\ clearing \in BOOLEAN
  /\ period \in 1..(MaxPeriod + 1)
  /\ pass \in [Passes -> {Idle} \cup [pc : {"reset"}, cmd : Ids]
                 \cup [pc : {"announce"}, period : 1..MaxPeriod, add : BOOLEAN]
                 \cup [pc : {"add"}, period : 1..MaxPeriod, since : Nat]]
  /\ request \in [Operators -> {Idle}
                    \cup [pc : {"check", "insert"}, since : Nat]
                    \cup [pc : {"expire"}, cmd : Ids]]
  /\ host \in [Hosts -> {Idle}
                 \cup [pc : {"executing", "reporting"}, cmd : Ids]
                 \cup [pc : {"executed"}, cmd : Ids,
                       outcome : {"applied", "failed"}]]
  /\ installing \in [Hosts -> Nat]
  /\ identity \in [Hosts -> Nat]
  /\ results \subseteq [cmd : Ids, by : Hosts, outcome : {"applied", "failed"},
                        step : {"read", "commit", "effect"}]
  /\ rebooted \in [1..MaxPeriod -> Nat]
  /\ faults \in 0..MaxFaults

(* No reserved identity is taken by two hosts, even when claims expire,     *)
(* responses are lost and a host polls again before its installer runs.     *)
ReservedOnce ==
  \A g, h \in Hosts :
    g # h => \A c \in {identity[g], installing[g]} :
               c # 0 => c \notin {identity[h], installing[h]}

(* At most one force_reidentify command is pending or running, although     *)
(* requests check and insert in separate transactions.                      *)
OneActiveReidentify == Cardinality(Active) <= 1

(* Once its executor saw the host accept it, the scheduled reboot of a      *)
(* period is accepted no more, over retries, lost answers and repeated      *)
(* passes.  An acceptance the executor timed out on is reported as failed   *)
(* and is repeated.                                                         *)
RebootOncePerPeriod == \A p \in 1..MaxPeriod : rebooted[p] <= 1

(* A verdict stands: a completed command stays completed, and a failed one  *)
(* changes only when a failed scheduled reboot is queued again.             *)
VerdictStands ==
  [][\A c \in DOMAIN queue :
       /\ queue[c].status = "completed" => queue'[c].status = "completed"
       /\ queue[c].status = "failed" =>
            \/ queue'[c].status = "failed"
            \/ queue'[c].status = "pending"
                 /\ queue[c].kind = "scheduled_reboot"]_queue

PendingStatus == {c \in DOMAIN queue : queue[c].status = "pending"}

(* A pending command is eventually claimed, reset ones included, as long as *)
(* some host still polls under the shared id.                               *)
PendingIsClaimed ==
  \A c \in 1..MaxCommands :
    c \in PendingStatus
      ~> (c \notin PendingStatus \/ \A h \in Hosts : identity[h] # 0)

(* The queue keeps the promise of CommandLedger.                            *)
Phase(s) == CASE s = "pending" -> "queued" [] s = "running" -> "held"
              [] OTHER -> "closed"
Ledger == INSTANCE CommandLedger WITH
            ledger <- [c \in DOMAIN queue |-> Phase(queue[c].status)],
            retryable <- [c \in DOMAIN queue |->
                            queue[c].kind = "scheduled_reboot"],
            before <- [c \in DOMAIN queue |-> queue[c].found]
LedgerSpec == Ledger!Spec
=============================================================================
