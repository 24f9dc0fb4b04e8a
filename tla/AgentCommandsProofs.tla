------------------------- MODULE AgentCommandsProofs -------------------------
(***************************************************************************)
(* Proofs about AgentCommands for every value of its constants.            *)
(***************************************************************************)
EXTENDS AgentCommands, FiniteSetTheorems, SequenceTheorems, TLAPS

(* The two ways a step writes the queue: a command more at its end, or one *)
(* command rewritten.                                                      *)
Appends(new) ==
  \E n \in Ids \ DOMAIN queue :
    /\ n = Len(queue) + 1 /\ Len(queue') = n
    /\ DOMAIN queue' = DOMAIN queue \cup {n}
    /\ \A d \in DOMAIN queue : queue'[d] = queue[d]
    /\ queue'[n] = new
Rewrites(c, new) ==
  /\ DOMAIN queue' = DOMAIN queue
  /\ \A d \in DOMAIN queue : queue'[d] = IF d = c THEN new ELSE queue[d]

(* Commands of the queue are typed and named by positive numbers.          *)
LEMMA QueueTyped ==
  ASSUME queue \in Seq(Command)
  PROVE  /\ \A c \in DOMAIN queue : c \in Ids /\ queue[c] \in Command
         /\ DOMAIN queue \subseteq Ids
<1>1. /\ Len(queue) \in Nat
      /\ queue \in [1..Len(queue) -> Command]
      /\ DOMAIN queue = 1..Len(queue)
  BY LenProperties
<1> QED
  BY <1>1 DEF Ids

(* A command starts in its type.                                           *)
LEMMA NewCommandTyped ==
  ASSUME NEW k \in {"force_reidentify", "upgrade_agent", "reboot_now",
                    "scheduled_reboot"}, NEW p \in Nat, NEW n \in Nat
  PROVE  NewCommand(k, p, n) \in Command
BY DEF NewCommand, Command

(* Add, in the terms of Appends.                                           *)
LEMMA AddAppends ==
  ASSUME queue \in Seq(Command),
         NEW k \in {"force_reidentify", "upgrade_agent", "reboot_now",
                    "scheduled_reboot"}, NEW p \in Nat, NEW since \in Nat,
         Add(k, p, since)
  PROVE  /\ queue' \in Seq(Command)
         /\ \E n \in 0..Len(queue) : /\ NewCommand(k, p, n) \in Command
                                     /\ Appends(NewCommand(k, p, n))
<1>1. /\ Len(queue) \in Nat
      /\ DOMAIN queue = 1..Len(queue)
  BY LenProperties
<1> PICK n \in since..Len(queue) : queue' = Append(queue, NewCommand(k, p, n))
  BY DEF Add
<1> DEFINE new == NewCommand(k, p, n)
<1>0. n \in 0..Len(queue) /\ new \in Command
  BY <1>1, NewCommandTyped
<1>2. queue' = Append(queue, new)
  OBVIOUS
<1> HIDE DEF new
<1>3. /\ queue' \in Seq(Command)
      /\ Len(queue') = Len(queue) + 1
      /\ \A d \in 1..Len(queue) : queue'[d] = queue[d]
      /\ queue'[Len(queue) + 1] = new
  BY <1>0, <1>1, <1>2, AppendProperties
<1>4. DOMAIN queue' = 1..(Len(queue) + 1)
  BY <1>3, LenProperties
<1>5. Len(queue) + 1 \in Ids \ DOMAIN queue
  BY <1>1 DEF Ids
<1>6. DOMAIN queue' = DOMAIN queue \cup {Len(queue) + 1}
  BY <1>1, <1>4
<1>7. Appends(new)
  BY <1>1, <1>3, <1>5, <1>6 DEF Appends
<1> QED
  BY <1>0, <1>3, <1>7 DEF new

(* Replacing one command leaves a queue of the same commands.              *)
LEMMA ExceptRewrites ==
  ASSUME queue \in Seq(Command), NEW c, NEW new,
         c \in DOMAIN queue => new \in Command,
         queue' = [queue EXCEPT ![c] = new]
  PROVE  queue' \in Seq(Command) /\ Rewrites(c, new)
<1>1. /\ Len(queue) \in Nat
      /\ queue \in [1..Len(queue) -> Command]
      /\ DOMAIN queue = 1..Len(queue)
  BY LenProperties
<1>2. queue' \in [1..Len(queue) -> Command]
  BY <1>1
<1>3. queue' \in Seq(Command)
  BY <1>1, <1>2, SeqDef
<1> QED
  BY <1>1, <1>2, <1>3 DEF Rewrites

(* A write of one status, a claim and a timed out claim rewrite one        *)
(* command.                                                                *)
LEMMA SetStatusRewrites ==
  ASSUME queue \in Seq(Command), NEW c,
         NEW s \in {"pending", "running", "completed", "failed"},
         SetStatus(c, s)
  PROVE  /\ queue' \in Seq(Command)
         /\ Rewrites(c, [queue[c] EXCEPT !.status = s])
<1>1. queue' = [queue EXCEPT ![c] = [queue[c] EXCEPT !.status = s]]
  BY DEF SetStatus
<1>2. c \in DOMAIN queue => [queue[c] EXCEPT !.status = s] \in Command
  BY QueueTyped DEF Command
<1> QED
  BY <1>1, <1>2, ExceptRewrites

(* A claim rewrites one command.                                           *)
LEMMA ClaimRewrites ==
  ASSUME queue \in Seq(Command), NEW c \in DOMAIN queue, Claim(c)
  PROVE  /\ queue' \in Seq(Command)
         /\ Rewrites(c, [queue[c] EXCEPT !.status = "running",
                                         !.claimed = TRUE, !.stale = FALSE])
<1>1. queue' = [queue EXCEPT ![c] = [queue[c] EXCEPT !.status = "running",
                                       !.claimed = TRUE, !.stale = FALSE]]
  BY DEF Claim
<1>2. [queue[c] EXCEPT !.status = "running", !.claimed = TRUE,
                       !.stale = FALSE] \in Command
  BY QueueTyped DEF Command
<1> QED
  BY <1>1, <1>2, ExceptRewrites

(* So does the clock that makes a claim stale.                             *)
LEMMA StaleRewrites ==
  ASSUME queue \in Seq(Command), NEW c \in DOMAIN queue, ClaimTimesOut(c)
  PROVE  /\ queue' \in Seq(Command)
         /\ Rewrites(c, [queue[c] EXCEPT !.stale = TRUE])
<1>1. queue' = [queue EXCEPT ![c] = [queue[c] EXCEPT !.stale = TRUE]]
  BY DEF ClaimTimesOut
<1>2. [queue[c] EXCEPT !.stale = TRUE] \in Command
  BY QueueTyped DEF Command
<1> QED
  BY <1>1, <1>2, ExceptRewrites

-----------------------------------------------------------------------------
(* The invariant.  What handlers and hosts name is a command of the queue, *)
(* of the kind they serve.                                                 *)
IsReidentify(c) == queue[c].kind = "force_reidentify"
IsReboot(c) == queue[c].kind = "scheduled_reboot"

References ==
  /\ \A c \in DOMAIN queue : queue[c].found < c
  /\ \A c \in DOMAIN queue : IsReboot(c) => queue[c].period \in 1..MaxPeriod
  /\ \A e \in Passes : pass[e].pc = "reset" =>
       pass[e].cmd \in DOMAIN queue /\ IsReboot(pass[e].cmd)
  /\ \A o \in Operators : request[o].pc = "expire" =>
       request[o].cmd \in DOMAIN queue /\ IsReidentify(request[o].cmd)
  /\ \A h \in Hosts : host[h] # Idle => host[h].cmd \in DOMAIN queue
  /\ \A r \in results : r.cmd \in DOMAIN queue
  /\ \A h \in Hosts : \A c \in {installing[h], identity[h]} :
       c # 0 => c \in DOMAIN queue /\ IsReidentify(c)

(* A reidentification belongs to the one host that executes it or took its *)
(* identity, and is never pending again.                                   *)
Takes(h, c) == \/ host[h].pc = "executing" /\ host[h].cmd = c
               \/ installing[h] = c
               \/ identity[h] = c
Reserved ==
  \A c \in DOMAIN queue : IsReidentify(c) =>
    \A h \in Hosts : Takes(h, c) =>
      queue[c].status # "pending" /\ \A g \in Hosts : Takes(g, c) => g = h

(* At most one reidentification is active and one reboot made per period.  *)
OnePerKind ==
  /\ \A c, d \in Active : c = d
  /\ \A c, d \in DOMAIN queue :
       IsReboot(c) /\ IsReboot(d) /\ queue[c].period = queue[d].period => c = d

QInv == TypeOK /\ References /\ Reserved /\ OnePerKind

-----------------------------------------------------------------------------
(* What a step does to the queue.                                          *)
Fresh(new) ==
  /\ new.status = "pending" /\ new.found <= Len(queue)
  /\ new.kind = "force_reidentify" =>
       Active = {} /\ \E o \in Operators : ReidentifyInsert(o)
  /\ new.kind = "scheduled_reboot" =>
       new.period \in 1..MaxPeriod /\ RebootOf(new.period) = {}
Moves(c, new) ==
  /\ new.kind = queue[c].kind /\ new.period = queue[c].period
  /\ new.found = queue[c].found
  /\ \/ new.status = queue[c].status
     \/ queue[c].status = "pending" /\ new.status = "running"
     \/ new.status \in {"completed", "failed"}
     \/ IsReboot(c) /\ new.status = "pending"
QueueStep ==
  /\ queue' \in Seq(Command)
  /\ \/ queue' = queue
     \/ \E new \in Command : Fresh(new) /\ Appends(new)
     \/ \E c \in DOMAIN queue, new \in Command :
          Moves(c, new) /\ Rewrites(c, new)

(* A fresh command at the end is a QueueStep.                              *)
LEMMA AddStep ==
  ASSUME queue \in Seq(Command),
         NEW k \in {"force_reidentify", "upgrade_agent", "reboot_now",
                    "scheduled_reboot"}, NEW p \in Nat, NEW since \in Nat,
         \A n \in 0..Len(queue) : Fresh(NewCommand(k, p, n)),
         Add(k, p, since)
  PROVE  QueueStep
BY AddAppends DEF QueueStep

(* So is a write of one status, a claim of a pending command and a         *)
(* timeout.                                                                *)
LEMMA SetStatusStep ==
  ASSUME queue \in Seq(Command), NEW c \in DOMAIN queue,
         NEW s \in {"pending", "running", "completed", "failed"},
         s = "running" => queue[c].status = "pending",
         s = "pending" => IsReboot(c),
         SetStatus(c, s)
  PROVE  QueueStep
<1> DEFINE new == [queue[c] EXCEPT !.status = s]
<1>1. queue' \in Seq(Command) /\ Rewrites(c, new)
  BY SetStatusRewrites
<1>2. /\ new \in Command
      /\ new.kind = queue[c].kind /\ new.period = queue[c].period
      /\ new.found = queue[c].found
      /\ new.status = s
  BY QueueTyped DEF Command
<1> HIDE DEF new
<1>3. Moves(c, new)
  BY <1>2 DEF Moves
<1> QED
  BY <1>1, <1>2, <1>3 DEF QueueStep

(* A claim moves one command from pending to running.                      *)
LEMMA ClaimStep ==
  ASSUME queue \in Seq(Command), NEW c \in Pending, Claim(c)
  PROVE  QueueStep
<1> DEFINE new == [queue[c] EXCEPT !.status = "running", !.claimed = TRUE,
                                   !.stale = FALSE]
<1>0. c \in DOMAIN queue /\ queue[c].status = "pending"
  BY DEF Pending, StatusPending
<1>1. queue' \in Seq(Command) /\ Rewrites(c, new)
  BY <1>0, ClaimRewrites
<1>2. /\ new \in Command
      /\ new.kind = queue[c].kind /\ new.period = queue[c].period
      /\ new.found = queue[c].found
      /\ new.status = "running"
  BY <1>0, QueueTyped DEF Command
<1> HIDE DEF new
<1>3. Moves(c, new)
  BY <1>0, <1>2 DEF Moves
<1> QED
  BY <1>0, <1>1, <1>2, <1>3 DEF QueueStep

(* A claim that grows stale moves no status.                               *)
LEMMA StaleStep ==
  ASSUME queue \in Seq(Command), NEW c \in DOMAIN queue, ClaimTimesOut(c)
  PROVE  QueueStep
<1> DEFINE new == [queue[c] EXCEPT !.stale = TRUE]
<1>1. queue' \in Seq(Command) /\ Rewrites(c, new)
  BY StaleRewrites
<1>2. /\ new \in Command
      /\ new.kind = queue[c].kind /\ new.period = queue[c].period
      /\ new.found = queue[c].found
      /\ new.status = queue[c].status
  BY QueueTyped DEF Command
<1> HIDE DEF new
<1>3. Moves(c, new)
  BY <1>2 DEF Moves
<1> QED
  BY <1>1, <1>2, <1>3 DEF QueueStep

(* What the program counters say of the records that hold them.            *)
LEMMA PassTyped ==
  ASSUME TypeOK, NEW e \in Passes
  PROVE  /\ pass[e].pc = "announce" =>
              pass[e] \in [pc : {"announce"}, period : 1..MaxPeriod,
                           add : BOOLEAN]
         /\ pass[e].pc = "add" =>
              pass[e] \in [pc : {"add"}, period : 1..MaxPeriod, since : Nat]
<1>1. pass[e] \in {Idle} \cup [pc : {"reset"}, cmd : Ids]
                 \cup [pc : {"announce"}, period : 1..MaxPeriod, add : BOOLEAN]
                 \cup [pc : {"add"}, period : 1..MaxPeriod, since : Nat]
  BY DEF TypeOK
<1>2. CASE pass[e] = Idle
  BY <1>2 DEF Idle
<1>3. CASE pass[e] \in [pc : {"reset"}, cmd : Ids]
  BY <1>3
<1>4. CASE pass[e] \in [pc : {"announce"}, period : 1..MaxPeriod,
                       add : BOOLEAN]
  BY <1>4
<1>5. CASE pass[e] \in [pc : {"add"}, period : 1..MaxPeriod, since : Nat]
  BY <1>5
<1> QED
  BY <1>1, <1>2, <1>3, <1>4, <1>5

(* The same for requests.                                                  *)
LEMMA RequestTyped ==
  ASSUME TypeOK, NEW o \in Operators
  PROVE  request[o].pc \in {"check", "insert"} =>
           request[o] \in [pc : {"check", "insert"}, since : Nat]
<1>1. request[o] \in {Idle} \cup [pc : {"check", "insert"}, since : Nat]
                    \cup [pc : {"expire"}, cmd : Ids]
  BY DEF TypeOK
<1>2. CASE request[o] = Idle
  BY <1>2 DEF Idle
<1>3. CASE request[o] \in [pc : {"check", "insert"}, since : Nat]
  BY <1>3
<1>4. CASE request[o] \in [pc : {"expire"}, cmd : Ids]
  BY <1>4
<1> QED
  BY <1>1, <1>2, <1>3, <1>4

(* The same for hosts.                                                     *)
LEMMA HostTyped ==
  ASSUME TypeOK, NEW h \in Hosts
  PROVE  /\ host[h] # Idle => host[h].cmd \in Ids
         /\ host[h].pc \in {"idle", "executing", "executed", "reporting"}
         /\ host[h].pc = "idle" => host[h] = Idle
         /\ host[h].pc = "executed" =>
              host[h].outcome \in {"applied", "failed"}
<1>1. host[h] \in {Idle}
                 \cup [pc : {"executing", "reporting"}, cmd : Ids]
                 \cup [pc : {"executed"}, cmd : Ids,
                       outcome : {"applied", "failed"}]
  BY DEF TypeOK
<1>2. CASE host[h] = Idle
  BY <1>2 DEF Idle
<1>3. CASE host[h] \in [pc : {"executing", "reporting"}, cmd : Ids]
  BY <1>3
<1>4. CASE host[h] \in [pc : {"executed"}, cmd : Ids,
                       outcome : {"applied", "failed"}]
  BY <1>4
<1> QED
  BY <1>1, <1>2, <1>3, <1>4

(* Every step of the system writes the queue in one of these ways.         *)
LEMMA NextQueueStep == TypeOK /\ References /\ [Next]_vars => QueueStep
<1> SUFFICES ASSUME TypeOK, References, [Next]_vars PROVE QueueStep
  OBVIOUS
<1>0. queue \in Seq(Command)
  BY DEF TypeOK
<1>1. CASE UNCHANGED queue
  BY <1>0, <1>1 DEF QueueStep
<1>2. CASE \E k \in Requests : Request(k)
  <2>1. PICK k \in Requests : Request(k)
    BY <1>2
  <2>2. k \in {"upgrade_agent", "reboot_now"} /\ Add(k, 0, 0)
    BY <2>1, ConstantsOK DEF Request
  <2>3. \A n \in 0..Len(queue) : Fresh(NewCommand(k, 0, n))
    BY <2>2 DEF Fresh, NewCommand
  <2> QED
    BY <1>0, <2>2, <2>3, AddStep
<1>3. CASE \E o \in Operators : Reidentify(o) /\ queue' # queue
  <2>1. PICK o \in Operators : Reidentify(o) /\ queue' # queue
    BY <1>3
  <2>2. CASE ReidentifyExpire(o)
    <3>1. /\ request[o].cmd \in DOMAIN queue
          /\ SetStatus(request[o].cmd, "failed")
      BY <2>2 DEF ReidentifyExpire, References
    <3> QED
      BY <1>0, <3>1, SetStatusStep
  <2>3. CASE ReidentifyInsert(o)
    <3>1. Active = {} /\ Add("force_reidentify", 0, request[o].since)
      BY <2>1, <2>3 DEF ReidentifyInsert
    <3>2. \A n \in 0..Len(queue) : Fresh(NewCommand("force_reidentify", 0, n))
      BY <2>3, <3>1 DEF Fresh, NewCommand
    <3>3. request[o].since \in Nat
      BY <2>3, RequestTyped DEF ReidentifyInsert
    <3> QED
      BY <1>0, <3>1, <3>2, <3>3, AddStep
  <2> QED
    BY <2>1, <2>2, <2>3 DEF Reidentify, ReidentifyFind, ReidentifyCheck
<1>4. CASE \E e \in Passes : RebootPass(e) /\ queue' # queue
  <2>1. PICK e \in Passes : RebootPass(e) /\ queue' # queue
    BY <1>4
  <2>2. CASE PassReset(e)
    <3>1. /\ pass[e].cmd \in DOMAIN queue /\ IsReboot(pass[e].cmd)
          /\ SetStatus(pass[e].cmd, "pending")
      BY <2>2 DEF PassReset, References
    <3> QED
      BY <1>0, <3>1, SetStatusStep
  <2>3. CASE PassAdd(e)
    <3> DEFINE p == pass[e].period
               since == pass[e].since
    <3>1. /\ RebootOf(p) = {}
          /\ Add("scheduled_reboot", p, since)
          /\ pass[e].pc = "add"
      BY <2>1, <2>3 DEF PassAdd
    <3>2. p \in 1..MaxPeriod /\ since \in Nat
      BY <3>1, PassTyped
    <3> HIDE DEF p, since
    <3>3. \A n \in 0..Len(queue) : Fresh(NewCommand("scheduled_reboot", p, n))
      BY <3>1, <3>2 DEF Fresh, NewCommand
    <3>4. p \in Nat
      BY <3>2
    <3> QED
      BY <1>0, <3>1, <3>2, <3>3, <3>4, AddStep
  <2> QED
    BY <2>1, <2>2, <2>3 DEF RebootPass, PassStart, PassAnnounce
<1>5. CASE \E h \in Hosts : Poll(h) \/ PollLost(h)
  <2>1. PICK c \in DOMAIN queue : Oldest(c) /\ Claim(c)
    BY <1>5 DEF Poll, PollLost
  <2> QED
    BY <1>0, <2>1, ClaimStep DEF Oldest
<1>6. CASE \E r \in results : ResultCommit(r)
  <2>1. PICK r \in results : ResultCommit(r)
    BY <1>6
  <2>2. r.cmd \in DOMAIN queue /\ SetStatus(r.cmd, Verdict(r.outcome))
    BY <2>1 DEF ResultCommit, References
  <2>3. Verdict(r.outcome) \in {"completed", "failed"}
    BY DEF Verdict
  <2> QED
    BY <1>0, <2>2, <2>3, SetStatusStep
<1>7. CASE \E c \in DOMAIN queue : ClaimTimesOut(c)
  BY <1>0, <1>7, StaleStep
<1> QED
  BY <1>1, <1>2, <1>3, <1>4, <1>5, <1>6, <1>7
     DEF Next, vars, HostStep, HostFault, Handle, Execute, Send, HostFails,
         Install, InstallFails, ResultRead, ResultEffect, PatchJobResult,
         InventoryRead, InventoryClear, NewPeriod, ApiCrash

-----------------------------------------------------------------------------
(* Types.                                                                  *)
LEMMA IdleTyped == Idle.pc = "idle" /\ Idle = [pc |-> "idle"]
BY DEF Idle

(* The initial state is well typed.                                        *)
LEMMA InitTyped == Init => TypeOK
<1> SUFFICES ASSUME Init PROVE TypeOK
  OBVIOUS
<1>1. queue \in Seq(Command)
  BY DEF Init
<1>2. MaxPeriod \in Nat \ {0} /\ MaxFaults \in Nat
  BY ConstantsOK
<1>3. period \in 1..(MaxPeriod + 1) /\ faults \in 0..MaxFaults
  BY <1>2 DEF Init
<1> QED
  BY <1>1, <1>3 DEF Init, TypeOK, PostPatch

(* Every action keeps the types; a reset needs the period its command has. *)
LEMMA TypeStep == TypeOK /\ References /\ [Next]_vars => TypeOK'
<1> SUFFICES ASSUME TypeOK, References, [Next]_vars PROVE TypeOK'
  OBVIOUS
<1> USE ConstantsOK
<1>0. queue' \in Seq(Command) /\ Len(queue) \in Nat
  BY NextQueueStep, LenProperties DEF QueueStep, TypeOK
<1>1. CASE UNCHANGED vars
  BY <1>0, <1>1 DEF vars, TypeOK
<1>2. ASSUME NEW k \in Requests, Request(k) PROVE TypeOK'
  BY <1>0, <1>2 DEF Request, TypeOK
<1>3. ASSUME NEW o \in Operators, Reidentify(o) PROVE TypeOK'
  <2>1. CASE ReidentifyFind(o)
    <3>1. StaleClaims \subseteq Ids
      BY QueueTyped DEF StaleClaims, TypeOK
    <3>2. StaleClaims # {} => (CHOOSE c \in StaleClaims : TRUE) \in Ids
      BY <3>1
    <3> QED
      BY <1>0, <2>1, <3>2 DEF ReidentifyFind, TypeOK
  <2>2. CASE ReidentifyExpire(o)
    BY <1>0, <2>2 DEF ReidentifyExpire, TypeOK
  <2>3. CASE ReidentifyCheck(o)
    <3>1. request[o] \in [pc : {"check", "insert"}, since : Nat]
      BY <2>3, RequestTyped DEF ReidentifyCheck
    <3> QED
      BY <1>0, <2>3, <3>1 DEF ReidentifyCheck, TypeOK
  <2>4. CASE ReidentifyInsert(o)
    BY <1>0, <2>4 DEF ReidentifyInsert, TypeOK
  <2> QED
    BY <1>3, <2>1, <2>2, <2>3, <2>4 DEF Reidentify
<1>4. ASSUME NEW e \in Passes, RebootPass(e) PROVE TypeOK'
  <2>1. CASE PassStart(e)
    <3>1. RebootOf(period) \subseteq Ids
      BY QueueTyped DEF RebootOf, TypeOK
    <3>2. period \in 1..MaxPeriod
      BY <2>1 DEF PassStart, TypeOK
    <3>3. CASE pass' = [pass EXCEPT ![e] = [pc |-> "announce",
                                            period |-> period, add |-> TRUE]]
      BY <1>0, <2>1, <3>2, <3>3 DEF PassStart, TypeOK
    <3>4. ASSUME NEW c \in RebootOf(period),
                 pass' = [pass EXCEPT ![e] = [pc |-> "reset", cmd |-> c]]
          PROVE  TypeOK'
      BY <1>0, <2>1, <3>1, <3>4 DEF PassStart, TypeOK
    <3> QED
      BY <2>1, <3>3, <3>4 DEF PassStart
  <2>2. CASE PassReset(e)
    <3>1. queue[pass[e].cmd].period \in 1..MaxPeriod
      BY <2>2 DEF PassReset, References
    <3> QED
      BY <1>0, <2>2, <3>1 DEF PassReset, TypeOK
  <2>3. CASE PassAnnounce(e)
    <3>1. pass[e].period \in 1..MaxPeriod
      BY <2>3, PassTyped DEF PassAnnounce
    <3> QED
      BY <1>0, <2>3, <3>1 DEF PassAnnounce, TypeOK, PostPatch
  <2>4. CASE PassAdd(e)
    BY <1>0, <2>4 DEF PassAdd, TypeOK
  <2> QED
    BY <1>4, <2>1, <2>2, <2>3, <2>4 DEF RebootPass
<1>5. ASSUME NEW h \in Hosts, HostStep(h) \/ Install(h) \/ HostFault(h)
      PROVE  TypeOK'
  <2>0. DOMAIN queue \subseteq Ids
    BY QueueTyped DEF TypeOK
  <2>1. CASE Poll(h)
    BY <1>0, <2>0, <2>1 DEF Poll, TypeOK
  <2>2. CASE Execute(h)
    <3>1. host[h].cmd \in Ids
      BY <2>2, HostTyped, IdleTyped DEF Execute
    <3>2. PICK o \in {"applied", "failed"} :
            host' = [host EXCEPT ![h] = [pc |-> "executed",
                                         cmd |-> host[h].cmd, outcome |-> o]]
      BY <2>2 DEF Execute
    <3>3. installing' \in [Hosts -> Nat]
      BY <2>2, <3>1 DEF Execute, TypeOK, Ids
    <3>4. \/ rebooted' = rebooted
          \/ \E p : rebooted' = [rebooted EXCEPT ![p] = rebooted[p] + 1]
      BY <2>2 DEF Execute
    <3>5. rebooted' \in [1..MaxPeriod -> Nat]
      <4>1. rebooted \in [1..MaxPeriod -> Nat]
        BY DEF TypeOK
      <4> QED
        BY <3>4, <4>1
    <3> QED
      BY <1>0, <2>2, <3>1, <3>2, <3>3, <3>5 DEF Execute, TypeOK
  <2>3. CASE Send(h)
    <3>1. host[h].cmd \in Ids /\ host[h].outcome \in {"applied", "failed"}
      BY <2>3, HostTyped, IdleTyped DEF Send
    <3> QED
      BY <1>0, <2>3, <3>1 DEF Send, TypeOK
  <2>4. CASE Install(h)
    BY <1>0, <2>4 DEF Install, TypeOK
  <2>5. CASE PollLost(h)
    BY <1>0, <2>5 DEF PollLost, TypeOK
  <2>6. CASE HostFails(h)
    BY <1>0, <2>6 DEF HostFails, TypeOK
  <2>7. CASE InstallFails(h)
    BY <1>0, <2>7 DEF InstallFails, TypeOK
  <2> QED
    BY <1>5, <2>1, <2>2, <2>3, <2>4, <2>5, <2>6, <2>7
       DEF HostStep, HostFault
<1>6. ASSUME NEW r \in results,
             ResultRead(r) \/ ResultCommit(r) \/ ResultEffect(r)
      PROVE  TypeOK'
  <2>1. Respond(r) => host' \in [Hosts -> {Idle}
                 \cup [pc : {"executing", "reporting"}, cmd : Ids]
                 \cup [pc : {"executed"}, cmd : Ids,
                       outcome : {"applied", "failed"}]]
    BY DEF Respond, TypeOK
  <2>2. ASSUME ResultRead(r) PROVE TypeOK'
    <3>1. [r EXCEPT !.step = "commit"]
            \in [cmd : Ids, by : Hosts, outcome : {"applied", "failed"},
                step : {"read", "commit", "effect"}]
      <4>1. r \in [cmd : Ids, by : Hosts, outcome : {"applied", "failed"},
                   step : {"read", "commit", "effect"}]
        BY DEF TypeOK
      <4> QED
        BY <4>1
    <3>2. results' \subseteq [cmd : Ids, by : Hosts,
                              outcome : {"applied", "failed"},
                              step : {"read", "commit", "effect"}]
      BY <2>2, <3>1 DEF ResultRead, Respond, TypeOK
    <3> QED
      BY <1>0, <2>1, <2>2, <3>2 DEF ResultRead, TypeOK
  <2>3. ResultCommit(r) => TypeOK'
    BY <1>0 DEF ResultCommit, TypeOK
  <2>4. ResultEffect(r) => TypeOK'
    BY <1>0, <2>1 DEF ResultEffect, Respond, TypeOK, PostPatch
  <2> QED
    BY <1>6, <2>2, <2>3, <2>4
<1>7. PatchJobResult => TypeOK'
  BY <1>0 DEF PatchJobResult, TypeOK, PostPatch
<1>8. InventoryRead \/ InventoryClear \/ NewPeriod => TypeOK'
  <2>1. InventoryRead \/ InventoryClear => TypeOK'
    BY <1>0 DEF InventoryRead, InventoryClear, TypeOK, PostPatch
  <2>2. NewPeriod => TypeOK'
    BY <1>0 DEF NewPeriod, TypeOK
  <2> QED
    BY <2>1, <2>2
<1>9. ASSUME NEW c \in DOMAIN queue, ClaimTimesOut(c) PROVE TypeOK'
  BY <1>0, <1>9 DEF ClaimTimesOut, TypeOK
<1>10. ApiCrash => TypeOK'
  <2>1. ApiCrash => faults' \in 0..MaxFaults
    BY DEF ApiCrash, TypeOK
  <2>2. ApiCrash => host' \in [Hosts -> {host[h] : h \in Hosts} \cup {Idle}]
    BY DEF ApiCrash
  <2>3. \A h \in Hosts : host[h] \in {Idle}
                 \cup [pc : {"executing", "reporting"}, cmd : Ids]
                 \cup [pc : {"executed"}, cmd : Ids,
                       outcome : {"applied", "failed"}]
    BY DEF TypeOK
  <2>4. ApiCrash => host' \in [Hosts -> {Idle}
                 \cup [pc : {"executing", "reporting"}, cmd : Ids]
                 \cup [pc : {"executed"}, cmd : Ids,
                       outcome : {"applied", "failed"}]]
    BY <2>2, <2>3
  <2>5. ApiCrash => /\ pass' \in [Passes -> {Idle}]
                    /\ request' \in [Operators -> {Idle}]
    BY DEF ApiCrash
  <2> QED
    BY <1>0, <2>1, <2>4, <2>5 DEF ApiCrash, TypeOK
<1> QED
  BY <1>1, <1>2, <1>3, <1>4, <1>5, <1>6, <1>7, <1>8, <1>9, <1>10
     DEF Next, Handle

-----------------------------------------------------------------------------
(* What handlers and hosts name stays a command of its kind.               *)
LEMMA CommandsKept ==
  ASSUME QueueStep, queue \in Seq(Command)
  PROVE  \A c \in DOMAIN queue :
           /\ c \in DOMAIN queue'
           /\ queue'[c].kind = queue[c].kind
           /\ queue'[c].period = queue[c].period
           /\ queue'[c].found = queue[c].found
<1>1. CASE queue' = queue
  BY <1>1
<1>2. ASSUME NEW new \in Command, Appends(new)
      PROVE  \A c \in DOMAIN queue : /\ c \in DOMAIN queue'
                                     /\ queue'[c] = queue[c]
  BY <1>2 DEF Appends
<1>3. ASSUME NEW d \in DOMAIN queue, NEW new \in Command,
             Moves(d, new), Rewrites(d, new)
      PROVE  \A c \in DOMAIN queue : /\ c \in DOMAIN queue'
                                     /\ queue'[c].kind = queue[c].kind
                                     /\ queue'[c].period = queue[c].period
                                     /\ queue'[c].found = queue[c].found
  BY <1>3 DEF Moves, Rewrites
<1> QED
  BY <1>1, <1>2, <1>3 DEF QueueStep

(* Scheduled reboots keep a period within the bound.                       *)
LEMMA PeriodsStep ==
  ASSUME QueueStep, queue \in Seq(Command),
         \A c \in DOMAIN queue :
           IsReboot(c) => queue[c].period \in 1..MaxPeriod
  PROVE  \A c \in DOMAIN queue' :
           queue'[c].kind = "scheduled_reboot"
             => queue'[c].period \in 1..MaxPeriod
<1>1. CASE DOMAIN queue' = DOMAIN queue
  BY <1>1, CommandsKept DEF IsReboot
<1>2. ASSUME NEW new \in Command, Fresh(new), Appends(new)
      PROVE  \A c \in DOMAIN queue' :
               queue'[c].kind = "scheduled_reboot"
                 => queue'[c].period \in 1..MaxPeriod
  BY <1>2 DEF Appends, Fresh, IsReboot
<1> QED
  BY <1>1, <1>2 DEF QueueStep, Rewrites

(* A command's transaction found only commands that precede it.            *)
LEMMA FoundStep ==
  ASSUME QueueStep, queue \in Seq(Command),
         \A c \in DOMAIN queue : queue[c].found < c
  PROVE  \A c \in DOMAIN queue' : queue'[c].found < c
<1>1. CASE DOMAIN queue' = DOMAIN queue
  BY <1>1, CommandsKept
<1>2. ASSUME NEW new \in Command, Fresh(new), Appends(new)
      PROVE  \A c \in DOMAIN queue' : queue'[c].found < c
  <2>1. Len(queue) \in Nat /\ new.found \in Nat /\ new.found <= Len(queue)
    BY <1>2, LenProperties DEF Command, Fresh
  <2> QED
    BY <1>2, <2>1 DEF Appends
<1> QED
  BY <1>1, <1>2 DEF QueueStep, Rewrites

(* Which steps write what the hosts and the handlers hold.                 *)
LEMMA Writes ==
  ASSUME [Next]_vars
  PROVE  /\ \/ pass' = pass
            \/ \E e \in Passes : RebootPass(e)
            \/ ApiCrash
         /\ \/ request' = request
            \/ \E o \in Operators : Reidentify(o)
            \/ ApiCrash
         /\ \/ host' = host
            \/ \E h \in Hosts : \/ Poll(h) \/ Execute(h) \/ Send(h)
                                \/ Install(h) \/ HostFails(h)
            \/ \E r \in results : ResultRead(r) \/ ResultEffect(r)
            \/ ApiCrash
         /\ \/ results' = results
            \/ \E h \in Hosts : Send(h)
            \/ Handle
            \/ ApiCrash
         /\ \/ installing' = installing /\ identity' = identity
            \/ \E h \in Hosts : Execute(h) \/ Install(h) \/ InstallFails(h)
         /\ \/ rebooted' = rebooted
            \/ \E h \in Hosts : Execute(h)
<1> USE DEF Next, vars, Request, RebootPass, PassStart, PassReset,
            PassAnnounce, PassAdd, Reidentify, ReidentifyFind,
            ReidentifyExpire, ReidentifyCheck, ReidentifyInsert, HostStep,
            Poll, Execute, Send, Install, HostFault, PollLost, HostFails,
            InstallFails, Handle, ResultRead, ResultCommit, ResultEffect,
            PatchJobResult, InventoryRead, InventoryClear, NewPeriod,
            ClaimTimesOut, ApiCrash
<1>1. \/ UNCHANGED vars
      \/ \E k \in Requests : Request(k)
      \/ \E o \in Operators : Reidentify(o)
      \/ \E e \in Passes : RebootPass(e)
      \/ \E h \in Hosts : HostStep(h) \/ Install(h) \/ HostFault(h)
      \/ Handle
      \/ PatchJobResult \/ InventoryRead \/ InventoryClear \/ NewPeriod
      \/ \E c \in DOMAIN queue : ClaimTimesOut(c)
      \/ ApiCrash
  BY DEF Next
<1> QED
  BY <1>1

(* What handlers, passes and hosts name stays in the queue, of its kind.   *)
LEMMA ReferencesStep == TypeOK /\ References /\ [Next]_vars => References'
<1> SUFFICES ASSUME TypeOK, References, [Next]_vars PROVE References'
  OBVIOUS
<1> DEFINE Passing == \A e \in Passes : pass'[e].pc = "reset" =>
                        pass'[e].cmd \in DOMAIN queue /\ IsReboot(pass'[e].cmd)
           Expiring == \A o \in Operators : request'[o].pc = "expire" =>
                         /\ request'[o].cmd \in DOMAIN queue
                         /\ IsReidentify(request'[o].cmd)
           Hosting == \A h \in Hosts :
                        host'[h] # Idle => host'[h].cmd \in DOMAIN queue
           Resulting == \A r \in results' : r.cmd \in DOMAIN queue
           Taking == \A h \in Hosts : \A c \in {installing'[h], identity'[h]} :
                       c # 0 => c \in DOMAIN queue /\ IsReidentify(c)
<1> USE IdleTyped
<1>0. /\ DOMAIN pass = Passes /\ DOMAIN request = Operators
      /\ DOMAIN host = Hosts
      /\ DOMAIN installing = Hosts /\ DOMAIN identity = Hosts
  BY DEF TypeOK
<1>1. \A c \in DOMAIN queue : /\ c \in DOMAIN queue'
                             /\ queue'[c].kind = queue[c].kind
  BY NextQueueStep, CommandsKept DEF TypeOK
<1>2. \A c \in DOMAIN queue' :
        queue'[c].kind = "scheduled_reboot"
          => queue'[c].period \in 1..MaxPeriod
  BY NextQueueStep, PeriodsStep DEF TypeOK, References
<1>8. \A c \in DOMAIN queue' : queue'[c].found < c
  BY NextQueueStep, FoundStep DEF TypeOK, References
<1>3. Passing
  <2>1. CASE pass' = pass
    BY <2>1 DEF References
  <2>2. ASSUME NEW d \in Passes, RebootPass(d) PROVE Passing
    <3>1. PassStart(d) => Passing
      BY <1>0 DEF PassStart, References, RebootOf, IsReboot
    <3>2. PassReset(d) \/ PassAnnounce(d) \/ PassAdd(d) => Passing
      BY <1>0 DEF PassReset, PassAnnounce, PassAdd, References
    <3> QED
      BY <2>2, <3>1, <3>2 DEF RebootPass
  <2>3. CASE ApiCrash
    BY <2>3 DEF ApiCrash
  <2> QED
    BY <2>1, <2>2, <2>3, Writes
<1>4. Expiring
  <2>1. CASE request' = request
    BY <2>1 DEF References
  <2>2. ASSUME NEW o \in Operators, Reidentify(o) PROVE Expiring
    <3> DEFINE c == CHOOSE c \in StaleClaims : TRUE
    <3>1. StaleClaims # {} => c \in DOMAIN queue /\ IsReidentify(c)
      <4>1. \A d \in StaleClaims : d \in DOMAIN queue /\ IsReidentify(d)
        BY DEF StaleClaims, IsReidentify
      <4>2. StaleClaims # {} => c \in StaleClaims
        OBVIOUS
      <4> QED
        BY <4>1, <4>2
    <3>2. ReidentifyFind(o) => request' =
            [request EXCEPT ![o] =
               IF StaleClaims = {} THEN [pc |-> "check", since |-> 0]
               ELSE [pc |-> "expire", cmd |-> c]]
      BY DEF ReidentifyFind
    <3> HIDE DEF c
    <3>3. ReidentifyFind(o) => Expiring
      BY <1>0, <3>1, <3>2 DEF References
    <3>4. ReidentifyExpire(o) \/ ReidentifyInsert(o) => Expiring
      BY <1>0 DEF ReidentifyExpire, ReidentifyInsert, References
    <3>5. ReidentifyCheck(o) => request'[o].pc \in {"insert", "idle"}
      BY <1>0, RequestTyped DEF ReidentifyCheck
    <3>6. ReidentifyCheck(o) => Expiring
      BY <1>0, <3>5 DEF ReidentifyCheck, References
    <3> QED
      BY <2>2, <3>3, <3>4, <3>6 DEF Reidentify
  <2>3. CASE ApiCrash
    BY <2>3 DEF ApiCrash
  <2> QED
    BY <2>1, <2>2, <2>3, Writes
<1>5. Hosting
  <2>1. CASE host' = host
    BY <2>1 DEF References
  <2>2. ASSUME NEW h \in Hosts,
               Poll(h) \/ Execute(h) \/ Send(h) \/ Install(h) \/ HostFails(h)
        PROVE  Hosting
    <3>1. Poll(h) \/ Install(h) \/ HostFails(h) => Hosting
      BY <1>0 DEF Poll, Install, HostFails, References
    <3>2. Execute(h) \/ Send(h) => Hosting
      BY <1>0 DEF Execute, Send, References
    <3> QED
      BY <2>2, <3>1, <3>2
  <2>3. ASSUME NEW r \in results, ResultRead(r) \/ ResultEffect(r)
        PROVE  Hosting
    BY <1>0, <2>3 DEF ResultRead, ResultEffect, Respond, References
  <2>4. CASE ApiCrash
    BY <2>4 DEF ApiCrash, References
  <2> QED
    BY <2>1, <2>2, <2>3, <2>4, Writes
<1>6. Resulting
  <2>1. CASE results' = results
    BY <2>1 DEF References
  <2>2. ASSUME NEW h \in Hosts, Send(h) PROVE Resulting
    BY <2>2 DEF Send, References
  <2>3. CASE Handle
    BY <2>3 DEF Handle, ResultRead, ResultCommit, ResultEffect, Respond,
       References, TypeOK
  <2>4. CASE ApiCrash
    BY <2>4 DEF ApiCrash
  <2> QED
    BY <2>1, <2>2, <2>3, <2>4, Writes
<1>7. Taking
  <2>1. CASE installing' = installing /\ identity' = identity
    BY <2>1 DEF References
  <2>2. ASSUME NEW h \in Hosts, Execute(h) \/ Install(h) \/ InstallFails(h)
        PROVE  Taking
    BY <1>0, <2>2 DEF Execute, Install, InstallFails, References, IsReidentify
  <2> QED
    BY <2>1, <2>2, Writes
<1> HIDE DEF Passing, Expiring, Hosting, Resulting, Taking
<1> QED
  BY <1>1, <1>2, <1>3, <1>4, <1>5, <1>6, <1>7, <1>8
     DEF References, IsReboot, IsReidentify, Passing, Expiring, Hosting,
         Resulting, Taking

-----------------------------------------------------------------------------
(* Active reidentifications and the reboots of a period stay unique.       *)
LEMMA OnePerKindStep ==
  ASSUME QueueStep, queue \in Seq(Command), OnePerKind
  PROVE  OnePerKind'
<1>1. CASE queue' = queue
  BY <1>1 DEF OnePerKind, Active, IsReboot
<1>2. ASSUME NEW new \in Command, Fresh(new), Appends(new) PROVE OnePerKind'
  <2>1. PICK n \in Ids \ DOMAIN queue :
          /\ DOMAIN queue' = DOMAIN queue \cup {n}
          /\ \A d \in DOMAIN queue : queue'[d] = queue[d]
          /\ queue'[n] = new
    BY <1>2 DEF Appends
  <2>2. Active' = Active \cup (IF new.kind = "force_reidentify" THEN {n}
                                                              ELSE {})
    BY <1>2, <2>1 DEF Active, Fresh
  <2>3. \A c, d \in Active' : c = d
    BY <1>2, <2>2 DEF Fresh, OnePerKind
  <2>4. \A c, d \in DOMAIN queue' :
          /\ queue'[c].kind = "scheduled_reboot"
          /\ queue'[d].kind = "scheduled_reboot"
          /\ queue'[c].period = queue'[d].period
          => c = d
    BY <1>2, <2>1 DEF Fresh, OnePerKind, IsReboot, RebootOf
  <2> QED
    BY <2>3, <2>4 DEF OnePerKind, IsReboot
<1>3. ASSUME NEW c \in DOMAIN queue, NEW new \in Command,
             Moves(c, new), Rewrites(c, new)
      PROVE  OnePerKind'
  <2>1. Active' \subseteq Active
    BY <1>3 DEF Active, Moves, Rewrites, IsReboot
  <2>2. \A d \in DOMAIN queue : /\ queue'[d].kind = queue[d].kind
                                /\ queue'[d].period = queue[d].period
    BY CommandsKept
  <2> QED
    BY <1>3, <2>1, <2>2 DEF OnePerKind, IsReboot, Rewrites
<1> QED
  BY <1>1, <1>2, <1>3 DEF QueueStep

(* A host gets hold of a command only by claiming it while it is pending.  *)
LEMMA TakesStep ==
  ASSUME TypeOK, [Next]_vars, NEW h \in Hosts, NEW c \in Ids, Takes(h, c)'
  PROVE  \/ Takes(h, c)
         \/ /\ c \in Pending /\ queue'[c].status = "running"
            /\ host[h] = Idle
            /\ host' = [host EXCEPT ![h] = [pc |-> "executing", cmd |-> c]]
<1> USE IdleTyped
<1>0. /\ DOMAIN host = Hosts
      /\ DOMAIN installing = Hosts /\ DOMAIN identity = Hosts
      /\ c # 0
  BY DEF TypeOK, Ids
<1>1. ASSUME installing'[h] = c \/ identity'[h] = c PROVE Takes(h, c)
  <2>1. CASE installing' = installing /\ identity' = identity
    BY <1>1, <2>1 DEF Takes
  <2>2. ASSUME NEW g \in Hosts, Execute(g) PROVE Takes(h, c)
    BY <1>0, <1>1, <2>2 DEF Execute, Takes
  <2>3. ASSUME NEW g \in Hosts, Install(g) \/ InstallFails(g)
        PROVE  Takes(h, c)
    BY <1>0, <1>1, <2>3 DEF Install, InstallFails, Takes
  <2> QED
    BY <2>1, <2>2, <2>3, Writes
<1>2. ASSUME host'[h].pc = "executing", host'[h].cmd = c,
             ~ \E d \in DOMAIN queue :
                 /\ Oldest(d) /\ Claim(d) /\ host[h] = Idle
                 /\ host' = [host EXCEPT ![h] = [pc |-> "executing",
                                                 cmd |-> d]]
      PROVE  host[h].pc = "executing" /\ host[h].cmd = c
  <2>1. CASE host' = host
    BY <1>2, <2>1
  <2>2. ASSUME NEW g \in Hosts, Poll(g)
        PROVE  host[h].pc = "executing" /\ host[h].cmd = c
    BY <1>0, <1>2, <2>2 DEF Poll
  <2>3. ASSUME NEW g \in Hosts,
               Execute(g) \/ Send(g) \/ Install(g) \/ HostFails(g)
        PROVE  host[h].pc = "executing" /\ host[h].cmd = c
    BY <1>0, <1>2, <2>3 DEF Execute, Send, Install, HostFails
  <2>4. ASSUME NEW r \in results, ResultRead(r) \/ ResultEffect(r)
        PROVE  host[h].pc = "executing" /\ host[h].cmd = c
    BY <1>0, <1>2, <2>4 DEF ResultRead, ResultEffect, Respond
  <2>5. CASE ApiCrash
    BY <1>2, <2>5 DEF ApiCrash
  <2> QED
    BY <2>1, <2>2, <2>3, <2>4, <2>5, Writes
<1>3. ASSUME NEW d \in DOMAIN queue, Oldest(d), Claim(d), host[h] = Idle,
             host' = [host EXCEPT ![h] = [pc |-> "executing", cmd |-> d]]
      PROVE  d \in Pending /\ queue'[d].status = "running"
  <2>1. Rewrites(d, [queue[d] EXCEPT !.status = "running",
                                     !.claimed = TRUE, !.stale = FALSE])
    BY <1>3, ClaimRewrites DEF TypeOK
  <2> QED
    BY <1>3, <2>1, QueueTyped DEF Rewrites, Oldest, TypeOK, Command
<1>4. ASSUME NEW d \in DOMAIN queue, host[h] = Idle,
             host' = [host EXCEPT ![h] = [pc |-> "executing", cmd |-> d]],
             host'[h].cmd = c
      PROVE  d = c
  BY <1>0, <1>4
<1> QED
  BY <1>1, <1>2, <1>3, <1>4 DEF Takes

(* A reidentification in the hands of a host stays with it.                *)
LEMMA ReservedStep ==
  ASSUME TypeOK, References, Reserved, [Next]_vars
  PROVE  Reserved'
<1> SUFFICES ASSUME NEW c \in DOMAIN queue',
                    queue'[c].kind = "force_reidentify",
                    NEW h \in Hosts, Takes(h, c)'
             PROVE  /\ queue'[c].status # "pending"
                    /\ \A g \in Hosts : Takes(g, c)' => g = h
  BY DEF Reserved, IsReidentify
<1>1. QueueStep /\ queue \in Seq(Command)
  BY NextQueueStep DEF TypeOK
<1>2. c \in Ids
  BY <1>1, QueueTyped, SeqDef, LenProperties DEF QueueStep, Ids
<1>3. c \in DOMAIN queue
  <2>1. Takes(h, c) \/ c \in Pending
    BY <1>2, TakesStep
  <2> QED
    BY <1>2, <2>1, IdleTyped DEF Takes, Pending, References, Ids
<1>4. queue[c].kind = "force_reidentify"
  BY <1>1, <1>3, CommandsKept
<1>5. queue'[c].status = "pending" => queue[c].status = "pending"
  BY <1>1, <1>3, <1>4 DEF QueueStep, Appends, Rewrites, Moves, IsReboot
<1>6. \A g \in Hosts : Takes(g, c) =>
        queue[c].status # "pending" /\ \A f \in Hosts : Takes(f, c) => f = g
  BY <1>3, <1>4 DEF Reserved, IsReidentify
<1>7. CASE Takes(h, c)
  <2>1. c \notin Pending
    BY <1>6, <1>7 DEF Pending, StatusPending
  <2> QED
    BY <1>2, <1>5, <1>6, <1>7, <2>1, TakesStep
<1>8. CASE /\ c \in Pending /\ queue'[c].status = "running"
           /\ host[h] = Idle
           /\ host' = [host EXCEPT ![h] = [pc |-> "executing", cmd |-> c]]
  <2>1. ASSUME NEW g \in Hosts, Takes(g, c)' PROVE g = h
    <3>1. ~Takes(g, c)
      BY <1>6, <1>8 DEF Pending, StatusPending
    <3>2. /\ host[g] = Idle
          /\ host' = [host EXCEPT ![g] = [pc |-> "executing", cmd |-> c]]
      BY <1>2, <2>1, <3>1, TakesStep
    <3>3. DOMAIN host = Hosts
      BY DEF TypeOK
    <3> QED
      BY <1>8, <3>2, <3>3, IdleTyped
  <2> QED
    BY <1>8, <2>1
<1> QED
  BY <1>2, <1>7, <1>8, TakesStep

-----------------------------------------------------------------------------
(* QInv holds initially and every step preserves it.                       *)
LEMMA InitInv == Init => QInv
<1> SUFFICES ASSUME Init PROVE QInv
  OBVIOUS
<1>1. TypeOK
  BY InitTyped
<1>2. DOMAIN queue = {}
  BY DEF Init
<1>3. References
  BY <1>2, IdleTyped DEF Init, References
<1>4. Reserved /\ OnePerKind
  BY <1>2 DEF Reserved, OnePerKind, Active
<1> QED
  BY <1>1, <1>3, <1>4 DEF QInv

(* Every step of the system keeps the invariant of the queue.              *)
LEMMA QueueNext == QInv /\ [Next]_vars => QInv'
BY NextQueueStep, TypeStep, ReferencesStep, ReservedStep, OnePerKindStep
   DEF QInv, TypeOK

(* The invariant of the queue holds for any number of hosts, operators and *)
(* overlapping passes, and any crashes and losses.                         *)
THEOREM QueueInvariant == Spec => []QInv
BY InitInv, QueueNext, PTL DEF Spec

(* Every variable of the command queue stays in its type.                  *)
THEOREM TypeCorrect == Spec => []TypeOK
<1>1. QInv => TypeOK
  BY DEF QInv
<1> QED
  BY QueueInvariant, <1>1, PTL

(* No reserved identity is taken by two hosts, whatever claims expire and  *)
(* responses are lost.                                                     *)
THEOREM ReservedHolds == Spec => []ReservedOnce
<1>1. QInv => ReservedOnce
  BY DEF QInv, ReservedOnce, Reserved, References, Takes
<1> QED
  BY QueueInvariant, <1>1, PTL

(* At most one reidentification is active, although requests check and     *)
(* insert in separate transactions.                                        *)
THEOREM OneActiveHolds == Spec => []OneActiveReidentify
<1>1. QInv => OneActiveReidentify
  <2> SUFFICES ASSUME \A c, d \in Active : c = d
               PROVE  Cardinality(Active) <= 1
    BY DEF QInv, OnePerKind, OneActiveReidentify
  <2>1. CASE Active = {}
    BY <2>1, FS_EmptySet
  <2>2. CASE Active # {}
    <3>1. PICK c \in Active : Active = {c}
      BY <2>2
    <3>2. Cardinality({c}) = 1
      BY FS_Singleton
    <3> QED
      BY <3>1, <3>2
  <2> QED
    BY <2>1, <2>2
<1> QED
  BY QueueInvariant, <1>1, PTL
=============================================================================
