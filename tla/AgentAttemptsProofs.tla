------------------------- MODULE AgentAttemptsProofs -------------------------
(***************************************************************************)
(* Proofs about AgentCommands for reboot passes that do not overlap: a     *)
(* scheduled reboot is accepted no more in its period once its executor    *)
(* saw it accepted, and the queue implements CommandLedger.                *)
(***************************************************************************)
EXTENDS AgentCommandsProofs

(* What keeps a reboot from being accepted twice, when reboot passes do    *)
(* not overlap.  A command has one attempt: a host at work on it, or a     *)
(* result not committed yet.                                               *)
SerialPasses == \A d, e \in Passes : d = e

Working(h, c) == host[h].pc \in {"executing", "executed"} /\ host[h].cmd = c
Open(r, c) == r.cmd = c /\ r.step \in {"read", "commit"}
Attempted(c) == \/ \E h \in Hosts : Working(h, c)
                \/ \E r \in results : Open(r, c)
OneAttempt(c) ==
  /\ \A g, h \in Hosts : Working(g, c) /\ Working(h, c) => g = h
  /\ \A q, r \in results : Open(q, c) /\ Open(r, c) => q = r
  /\ \A h \in Hosts, r \in results : ~(Working(h, c) /\ Open(r, c))
Attempts ==
  \A c \in DOMAIN queue :
    /\ OneAttempt(c)
    /\ Attempted(c) => \/ queue[c].status = "running"
                       \/ IsReidentify(c) /\ queue[c].status # "pending"

(* A pass resets a command that is still failed, and a claim that expires  *)
(* is never pending.                                                       *)
Writers ==
  /\ \A e \in Passes :
       pass[e].pc = "reset" => queue[pass[e].cmd].status = "failed"
  /\ \A o \in Operators :
       request[o].pc = "expire" => queue[request[o].cmd].status # "pending"

(* No executor has seen the reboot accepted while its command can still be *)
(* claimed or executed, or its answer is a failure.                        *)
Unaccepted(c) ==
  \/ queue[c].status \in {"pending", "failed"}
  \/ \E h \in Hosts : host[h].pc = "executing" /\ host[h].cmd = c
  \/ \E h \in Hosts : host[h].pc = "executed" /\ host[h].cmd = c
                        /\ host[h].outcome = "failed"
  \/ \E r \in results : Open(r, c) /\ r.outcome = "failed"
Reboots ==
  /\ \A p \in 1..MaxPeriod : rebooted[p] <= 1
  /\ \A p \in 1..MaxPeriod : RebootOf(p) = {} => rebooted[p] = 0
  /\ \A c \in DOMAIN queue :
       IsReboot(c) /\ Unaccepted(c) => rebooted[queue[c].period] = 0

SInv == QInv /\ Attempts /\ Writers /\ Reboots

-----------------------------------------------------------------------------
(* Which step moves the status of a command, and from where to where.      *)
StatusStep(c) ==
  \/ /\ IsReidentify(c) /\ queue'[c].status = "failed"
     /\ \E o \in Operators : ReidentifyExpire(o) /\ request[o].cmd = c
  \/ /\ queue'[c].status = "pending"
     /\ \E e \in Passes : PassReset(e) /\ pass[e].cmd = c
  \/ /\ Oldest(c) /\ queue'[c].status = "running"
     /\ \E h \in Hosts : Poll(h) \/ PollLost(h)
  \/ \E r \in results : /\ ResultCommit(r) /\ r.cmd = c
                        /\ queue'[c].status = Verdict(r.outcome)

(* A status that changes was changed by one of these four steps.           *)
LEMMA StatusMoves ==
  ASSUME TypeOK, References, [Next]_vars, NEW c \in DOMAIN queue,
         queue'[c].status # queue[c].status
  PROVE  StatusStep(c)
<1>0. queue \in Seq(Command)
  BY DEF TypeOK
<1>1. \A d \in DOMAIN queue, s \in {"pending", "running", "completed",
                                     "failed"} :
        SetStatus(d, s) => d = c /\ queue'[c].status = s
  <2> SUFFICES ASSUME NEW d \in DOMAIN queue,
                      NEW s \in {"pending", "running", "completed", "failed"},
                      SetStatus(d, s)
               PROVE  d = c /\ queue'[c].status = s
    OBVIOUS
  <2>1. Rewrites(d, [queue[d] EXCEPT !.status = s])
    BY <1>0, SetStatusRewrites
  <2>2. [queue[d] EXCEPT !.status = s].status = s
    BY <1>0, QueueTyped DEF Command
  <2> QED
    BY <2>1, <2>2 DEF Rewrites
<1>2. CASE \E k \in Requests : Request(k)
  <2>1. PICK k \in Requests : Request(k)
    BY <1>2
  <2>2. k \in {"upgrade_agent", "reboot_now"} /\ Add(k, 0, 0)
    BY <2>1, ConstantsOK DEF Request
  <2>3. \E n : Appends(NewCommand(k, 0, n))
    BY <1>0, <2>2, AddAppends
  <2> QED
    BY <2>3 DEF Appends
<1>3. ASSUME NEW o \in Operators, Reidentify(o), queue' # queue
      PROVE  StatusStep(c)
  <2>1. CASE ReidentifyExpire(o)
    <3>1. /\ request[o].cmd \in DOMAIN queue /\ IsReidentify(request[o].cmd)
          /\ SetStatus(request[o].cmd, "failed")
      BY <2>1 DEF ReidentifyExpire, References
    <3> QED
      BY <1>1, <2>1, <3>1 DEF StatusStep
  <2>2. CASE ReidentifyInsert(o)
    <3>1. /\ Add("force_reidentify", 0, request[o].since)
          /\ request[o].since \in Nat
      BY <1>3, <2>2, RequestTyped DEF ReidentifyInsert
    <3>2. \E n : Appends(NewCommand("force_reidentify", 0, n))
      BY <1>0, <3>1, AddAppends
    <3> QED
      BY <3>2 DEF Appends
  <2> QED
    BY <1>3, <2>1, <2>2 DEF Reidentify, ReidentifyFind, ReidentifyCheck
<1>4. ASSUME NEW e \in Passes, RebootPass(e), queue' # queue
      PROVE  StatusStep(c)
  <2>1. CASE PassReset(e)
    <3>1. pass[e].cmd \in DOMAIN queue /\ SetStatus(pass[e].cmd, "pending")
      BY <2>1 DEF PassReset, References
    <3> QED
      BY <1>1, <2>1, <3>1 DEF StatusStep
  <2>2. CASE PassAdd(e)
    <3>1. /\ Add("scheduled_reboot", pass[e].period, pass[e].since)
          /\ pass[e].period \in Nat /\ pass[e].since \in Nat
      BY <1>4, <2>2, PassTyped, ConstantsOK DEF PassAdd
    <3>2. \E n : Appends(NewCommand("scheduled_reboot", pass[e].period, n))
      BY <1>0, <3>1, AddAppends
    <3> QED
      BY <3>2 DEF Appends
  <2> QED
    BY <1>4, <2>1, <2>2 DEF RebootPass, PassStart, PassAnnounce
<1>5. CASE \E h \in Hosts : Poll(h) \/ PollLost(h)
  <2>1. PICK d \in DOMAIN queue : Oldest(d) /\ Claim(d)
    BY <1>5 DEF Poll, PollLost
  <2>2. Rewrites(d, [queue[d] EXCEPT !.status = "running",
                                     !.claimed = TRUE, !.stale = FALSE])
    BY <1>0, <2>1, ClaimRewrites
  <2>3. [queue[d] EXCEPT !.status = "running", !.claimed = TRUE,
                         !.stale = FALSE].status = "running"
    BY <1>0, QueueTyped DEF Command
  <2>4. d = c /\ queue'[c].status = "running"
    BY <2>2, <2>3 DEF Rewrites
  <2> QED
    BY <1>5, <2>1, <2>4 DEF StatusStep
<1>6. ASSUME NEW r \in results, ResultCommit(r) PROVE StatusStep(c)
  <2>1. r.cmd \in DOMAIN queue /\ SetStatus(r.cmd, Verdict(r.outcome))
    BY <1>6 DEF ResultCommit, References
  <2>2. Verdict(r.outcome) \in {"completed", "failed"}
    BY DEF Verdict
  <2>3. r.cmd = c /\ queue'[c].status = Verdict(r.outcome)
    BY <1>1, <2>1, <2>2
  <2> QED
    BY <1>6, <2>3 DEF StatusStep
<1>7. ASSUME NEW d \in DOMAIN queue, ClaimTimesOut(d) PROVE FALSE
  <2>1. Rewrites(d, [queue[d] EXCEPT !.stale = TRUE])
    BY <1>0, <1>7, StaleRewrites
  <2>2. [queue[d] EXCEPT !.stale = TRUE].status = queue[d].status
    BY <1>0, QueueTyped DEF Command
  <2> QED
    BY <2>1, <2>2 DEF Rewrites
<1>8. queue' # queue
  OBVIOUS
<1> QED
  BY <1>2, <1>3, <1>4, <1>5, <1>6, <1>7, <1>8
     DEF Next, vars, HostStep, HostFault, Handle, Execute, Send, HostFails,
         Install, InstallFails, ResultRead, ResultEffect, PatchJobResult,
         InventoryRead, InventoryClear, NewPeriod, ApiCrash

(* Which steps write what hosts and results say of their commands.         *)
LEMMA AttemptSteps ==
  ASSUME [Next]_vars
  PROVE  \/ UNCHANGED <<host, results, rebooted>>
         \/ \E h \in Hosts : \/ Poll(h) \/ Execute(h) \/ Send(h)
                             \/ Install(h) \/ HostFails(h)
         \/ \E r \in results :
              ResultRead(r) \/ ResultCommit(r) \/ ResultEffect(r)
         \/ ApiCrash
<1> USE DEF Next, vars, Request, RebootPass, PassStart, PassReset,
            PassAnnounce, PassAdd, Reidentify, ReidentifyFind,
            ReidentifyExpire, ReidentifyCheck, ReidentifyInsert, HostStep,
            HostFault, PollLost, InstallFails, Handle, PatchJobResult,
            InventoryRead, InventoryClear, NewPeriod, ClaimTimesOut
<1>1. \/ UNCHANGED vars
      \/ \E k \in Requests : Request(k)
      \/ \E o \in Operators : Reidentify(o)
      \/ \E e \in Passes : RebootPass(e)
      \/ \E h \in Hosts : HostStep(h) \/ Install(h) \/ HostFault(h)
      \/ Handle
      \/ PatchJobResult \/ InventoryRead \/ InventoryClear \/ NewPeriod
      \/ \E c \in DOMAIN queue : ClaimTimesOut(c)
      \/ ApiCrash
  BY DEF Next
<1> QED
  BY <1>1

(* A command that no host has and no result names has no attempt.          *)
LEMMA AttemptsEverywhere ==
  ASSUME TypeOK, References, Attempts, NEW c
  PROVE  /\ OneAttempt(c)
         /\ Attempted(c) =>
              /\ c \in DOMAIN queue
              /\ \/ queue[c].status = "running"
                 \/ IsReidentify(c) /\ queue[c].status # "pending"
<1>1. Attempted(c) => c \in DOMAIN queue
  BY IdleTyped DEF Attempted, Working, Open, References
<1> QED
  BY <1>1 DEF Attempts, OneAttempt, Attempted

(* A step that starts nothing keeps attempts single.                       *)
LEMMA FewerAttempts ==
  ASSUME NEW c, OneAttempt(c),
         \A h \in Hosts : Working(h, c)' => Working(h, c),
         \A r \in results' : Open(r, c) => r \in results
  PROVE  OneAttempt(c)' /\ (Attempted(c)' => Attempted(c))
BY DEF OneAttempt, Attempted, Open

(* A command is attempted only after a claim, and by one host at a time.   *)
LEMMA AttemptStep ==
  ASSUME TypeOK, References, Attempts, [Next]_vars, NEW c
  PROVE  /\ OneAttempt(c)'
         /\ Attempted(c)' =>
              \/ Attempted(c)
              \/ c \in Pending /\ queue'[c].status = "running"
<1> USE IdleTyped
<1> DEFINE Goal == /\ OneAttempt(c)'
                   /\ Attempted(c)' =>
                        \/ Attempted(c)
                        \/ c \in Pending /\ queue'[c].status = "running"
<1>0. DOMAIN host = Hosts
  BY DEF TypeOK
<1>1. OneAttempt(c)
  BY AttemptsEverywhere
<1>2. CASE UNCHANGED <<host, results, rebooted>>
  BY <1>1, <1>2, FewerAttempts DEF Working
<1>3. ASSUME NEW h \in Hosts, Poll(h) PROVE Goal
  <2>1. PICK d \in DOMAIN queue :
          /\ Oldest(d) /\ Claim(d)
          /\ host' = [host EXCEPT ![h] = [pc |-> "executing", cmd |-> d]]
    BY <1>3 DEF Poll
  <2>2. results' = results
    BY <1>3 DEF Poll
  <2>3. CASE c = d
    <3>1. ~Attempted(c)
      BY <2>1, <2>3, AttemptsEverywhere, QueueTyped
         DEF Oldest, Pending, StatusPending
    <3>2. \A g \in Hosts : Working(g, c)' => g = h
      BY <1>0, <2>1, <3>1 DEF Working, Attempted
    <3>3. \A r \in results' : ~Open(r, c)
      BY <2>2, <3>1 DEF Attempted
    <3>4. queue'[c].status = "running"
      <4>1. Rewrites(d, [queue[d] EXCEPT !.status = "running",
                                         !.claimed = TRUE, !.stale = FALSE])
        BY <2>1, ClaimRewrites DEF TypeOK
      <4>2. queue[d] \in Command
        BY QueueTyped DEF TypeOK
      <4> QED
        BY <2>3, <4>1, <4>2 DEF Rewrites, Command
    <3> QED
      BY <2>1, <2>3, <3>2, <3>3, <3>4 DEF OneAttempt, Oldest
  <2>4. CASE c # d
    <3>1. \A g \in Hosts : Working(g, c)' => Working(g, c)
      BY <1>0, <2>1, <2>4 DEF Working
    <3> QED
      BY <1>1, <2>2, <3>1, FewerAttempts
  <2> QED
    BY <2>3, <2>4
<1>4. ASSUME NEW h \in Hosts, Execute(h) \/ Install(h) \/ HostFails(h)
      PROVE  Goal
  <2>1. \A g \in Hosts : Working(g, c)' => Working(g, c)
    BY <1>0, <1>4 DEF Execute, Install, HostFails, Working
  <2>2. results' = results
    BY <1>4 DEF Execute, Install, HostFails
  <2> QED
    BY <1>1, <2>1, <2>2, FewerAttempts
<1>5. ASSUME NEW h \in Hosts, Send(h) PROVE Goal
  <2> DEFINE r == [cmd |-> host[h].cmd, by |-> h, outcome |-> host[h].outcome,
                   step |-> "read"]
  <2>1. /\ results' = results \cup {r} /\ Working(h, host[h].cmd)
        /\ \A g \in Hosts : \A d : Working(g, d)' => Working(g, d) /\ g # h
        /\ r.cmd = host[h].cmd
    BY <1>0, <1>5 DEF Send, Working
  <2> HIDE DEF r
  <2>2. CASE c = r.cmd
    <3>1. \A g \in Hosts : ~Working(g, c)'
      BY <1>1, <2>1, <2>2 DEF OneAttempt
    <3>2. \A q \in results' : Open(q, c) => q = r
      BY <1>1, <2>1, <2>2 DEF OneAttempt
    <3>3. Attempted(c)
      BY <2>1, <2>2 DEF Attempted
    <3> QED
      BY <3>1, <3>2, <3>3 DEF OneAttempt
  <2>3. CASE c # r.cmd
    BY <1>1, <2>1, <2>3, FewerAttempts DEF Open
  <2> QED
    BY <2>2, <2>3
<1>6. ASSUME NEW r \in results,
             ResultRead(r) \/ ResultCommit(r) \/ ResultEffect(r)
      PROVE  Goal
  <2>1. \A g \in Hosts : Working(g, c)' => Working(g, c)
    BY <1>0, <1>6 DEF ResultRead, ResultCommit, ResultEffect, Respond, Working
  <2>2. r \in [cmd : Ids, by : Hosts, outcome : {"applied", "failed"},
               step : {"read", "commit", "effect"}]
    BY DEF TypeOK
  <2>3. CASE \A q \in results' : Open(q, c) => q \in results
    BY <1>1, <2>1, <2>3, FewerAttempts
  <2>4. ASSUME NEW q \in results', Open(q, c), q \notin results PROVE Goal
    <3>1. /\ results' = (results \ {r}) \cup {q}
          /\ q = [r EXCEPT !.step = "commit"] /\ r.step = "read"
      BY <1>6, <2>2, <2>4
         DEF ResultRead, ResultCommit, ResultEffect, Respond, Open
    <3>2. Open(r, c)
      BY <2>2, <2>4, <3>1 DEF Open
    <3>3. \A p \in results' : Open(p, c) => p = q
      BY <1>1, <3>1, <3>2 DEF OneAttempt
    <3>4. \A g \in Hosts : ~Working(g, c)'
      BY <1>1, <2>1, <3>2 DEF OneAttempt
    <3> QED
      BY <3>2, <3>3, <3>4 DEF OneAttempt, Attempted
  <2> QED
    BY <2>3, <2>4
<1>7. CASE ApiCrash
  <2>1. \A g \in Hosts : Working(g, c)' => Working(g, c)
    BY <1>7 DEF ApiCrash, Working
  <2>2. results' = {}
    BY <1>7 DEF ApiCrash
  <2> QED
    BY <1>1, <2>1, <2>2, FewerAttempts
<1> QED
  BY <1>2, <1>3, <1>4, <1>5, <1>6, <1>7, AttemptSteps

(* Attempts stay single, and a command under attempt stays running unless  *)
(* the commit that ends the attempt moves it or it is a reidentification.  *)
LEMMA AttemptsStep ==
  ASSUME TypeOK, References, Attempts, Writers, [Next]_vars
  PROVE  Attempts'
<1> SUFFICES ASSUME NEW c \in DOMAIN queue', Attempted(c)'
             PROVE  \/ queue'[c].status = "running"
                    \/ IsReidentify(c)' /\ queue'[c].status # "pending"
  BY AttemptStep DEF Attempts
<1>1. CASE c \in Pending /\ queue'[c].status = "running"
  BY <1>1
<1>2. CASE Attempted(c)
  <2>1. /\ c \in DOMAIN queue
        /\ \/ queue[c].status = "running"
           \/ IsReidentify(c) /\ queue[c].status # "pending"
    BY <1>2, AttemptsEverywhere
  <2>2. IsReidentify(c)' <=> IsReidentify(c)
    BY <2>1, NextQueueStep, CommandsKept DEF TypeOK, IsReidentify
  <2>3. CASE queue'[c].status = queue[c].status
    BY <2>1, <2>2, <2>3
  <2>4. CASE queue'[c].status # queue[c].status
    <3>1. StatusStep(c)
      BY <2>1, <2>4, StatusMoves
    <3>2. ASSUME NEW e \in Passes, PassReset(e), pass[e].cmd = c PROVE FALSE
      BY <2>1, <3>2 DEF PassReset, Writers, References, IsReboot, IsReidentify
    <3>3. ~Oldest(c)
      BY <2>1 DEF Oldest, Pending, StatusPending
    <3>4. ASSUME NEW r \in results, ResultCommit(r), r.cmd = c,
                 queue'[c].status = Verdict(r.outcome)
          PROVE  queue'[c].status # "pending" /\ ~Attempted(c)'
      <4>1. r \in [cmd : Ids, by : Hosts, outcome : {"applied", "failed"},
                   step : {"read", "commit", "effect"}]
        BY DEF TypeOK
      <4>2. Open(r, c) /\ OneAttempt(c)
        BY <3>4, AttemptsEverywhere DEF ResultCommit, Open
      <4>3. /\ host' = host
            /\ results' = (results \ {r}) \cup {[r EXCEPT !.step = "effect"]}
        BY <3>4 DEF ResultCommit
      <4>4. ~Open([r EXCEPT !.step = "effect"], c)
        BY <4>1 DEF Open
      <4>5. ~Attempted(c)'
        BY <4>2, <4>3, <4>4 DEF Attempted, OneAttempt, Working
      <4> QED
        BY <3>4, <4>5 DEF Verdict
    <3> QED
      BY <2>2, <3>1, <3>2, <3>3, <3>4 DEF StatusStep
  <2> QED
    BY <2>3, <2>4
<1> QED
  BY <1>1, <1>2, AttemptStep

(* A failed reboot that a pass is about to reset stays failed, and a claim *)
(* an operator is about to expire does not become pending.                 *)
LEMMA WritersStep ==
  ASSUME SerialPasses, TypeOK, References, Attempts, Writers, [Next]_vars
  PROVE  Writers'
<1> USE IdleTyped
<1>0. DOMAIN pass = Passes /\ DOMAIN request = Operators
  BY DEF TypeOK
<1>1. ASSUME NEW e \in Passes, pass'[e].pc = "reset"
      PROVE  queue'[pass'[e].cmd].status = "failed"
  <2>1. CASE pass' = pass
    <3> DEFINE c == pass[e].cmd
    <3>1. /\ c \in DOMAIN queue /\ IsReboot(c) /\ queue[c].status = "failed"
          /\ pass[e].pc = "reset"
      BY <1>1, <2>1 DEF References, Writers
    <3>2. ASSUME NEW d \in Passes, PassReset(d) PROVE FALSE
      BY <1>0, <1>1, <2>1, <3>2 DEF PassReset, SerialPasses
    <3>3. ~Oldest(c)
      BY <3>1 DEF Oldest, Pending, StatusPending
    <3>4. ASSUME NEW r \in results, ResultCommit(r), r.cmd = c PROVE FALSE
      <4>1. Attempted(c)
        BY <3>4 DEF ResultCommit, Attempted, Open
      <4> QED
        BY <3>1, <4>1, AttemptsEverywhere DEF IsReidentify, IsReboot
    <3>5. ~IsReidentify(c)
      BY <3>1 DEF IsReidentify, IsReboot
    <3> HIDE DEF c
    <3>6. queue'[c].status = queue[c].status
      BY <3>1, <3>2, <3>3, <3>4, <3>5, StatusMoves DEF StatusStep
    <3> QED
      BY <2>1, <3>1, <3>6 DEF c
  <2>2. ASSUME NEW d \in Passes, RebootPass(d)
        PROVE  queue'[pass'[e].cmd].status = "failed"
    <3>1. d = e
      BY DEF SerialPasses
    <3>2. PassStart(e)
      BY <1>0, <1>1, <2>2, <3>1
         DEF RebootPass, PassReset, PassAnnounce, PassAdd
    <3>3. \E c \in RebootOf(period) :
            MayReset(c) /\ pass' = [pass EXCEPT ![e] = [pc |-> "reset",
                                                       cmd |-> c]]
      BY <1>0, <1>1, <3>2 DEF PassStart
    <3>4. queue' = queue
      BY <3>2 DEF PassStart
    <3> QED
      BY <1>0, <3>3, <3>4 DEF MayReset
  <2>3. ~ApiCrash
    BY <1>1 DEF ApiCrash
  <2> QED
    BY <2>1, <2>2, <2>3, Writes
<1>2. ASSUME NEW o \in Operators, request'[o].pc = "expire"
      PROVE  queue'[request'[o].cmd].status # "pending"
  <2> DEFINE c == request'[o].cmd
  <2> DEFINE Held == /\ c \in DOMAIN queue /\ IsReidentify(c)
                     /\ queue[c].status # "pending"
  <2>1. Held
    <3>1. CASE request' = request
      BY <1>2, <3>1 DEF References, Writers
    <3>2. ASSUME NEW p \in Operators, Reidentify(p) PROVE Held
      <4>1. \A d \in StaleClaims : /\ d \in DOMAIN queue /\ IsReidentify(d)
                                  /\ queue[d].status = "running"
        BY DEF StaleClaims, IsReidentify
      <4> DEFINE s == CHOOSE d \in StaleClaims : TRUE
      <4>2. StaleClaims # {} => s \in StaleClaims
        OBVIOUS
      <4>3. ReidentifyFind(p) => request' =
              [request EXCEPT ![p] =
                 IF StaleClaims = {} THEN [pc |-> "check", since |-> 0]
                 ELSE [pc |-> "expire", cmd |-> s]]
        BY DEF ReidentifyFind
      <4> HIDE DEF s
      <4>4. ReidentifyFind(p) => Held
        BY <1>0, <1>2, <4>1, <4>2, <4>3 DEF References, Writers
      <4>5. ReidentifyExpire(p) \/ ReidentifyInsert(p) => Held
        BY <1>0, <1>2 DEF ReidentifyExpire, ReidentifyInsert, References,
           Writers
      <4>6. ReidentifyCheck(p) => request'[p].pc \in {"insert", "idle"}
        BY <1>0, RequestTyped DEF ReidentifyCheck
      <4>7. ReidentifyCheck(p) => Held
        BY <1>0, <1>2, <4>6 DEF ReidentifyCheck, References, Writers
      <4> QED
        BY <3>2, <4>4, <4>5, <4>7 DEF Reidentify
    <3>3. ~ApiCrash
      BY <1>2 DEF ApiCrash
    <3> QED
      BY <3>1, <3>2, <3>3, Writes
  <2> HIDE DEF c
  <2>2. ASSUME NEW e \in Passes, PassReset(e), pass[e].cmd = c PROVE FALSE
    BY <2>1, <2>2 DEF PassReset, References, IsReidentify, IsReboot
  <2>3. queue'[c].status = "pending" => queue[c].status = "pending"
    BY <2>1, <2>2, StatusMoves DEF StatusStep, Verdict
  <2> QED
    BY <2>1, <2>3 DEF c
<1> QED
  BY <1>1, <1>2 DEF Writers

-----------------------------------------------------------------------------
(* A reboot is accepted no more once its executor saw it accepted.         *)

(* Only a host that executes a reboot stops it being unaccepted, or a step  *)
(* that ends an attempt without a failure; no step brings that back.       *)
LEMMA UnacceptedStep ==
  ASSUME TypeOK, References, Writers, [Next]_vars,
         NEW c \in DOMAIN queue, IsReboot(c), Unaccepted(c)',
         ~ \E h \in Hosts : Execute(h)
  PROVE  Unaccepted(c)
<1> USE IdleTyped
<1>0. DOMAIN host = Hosts /\ c \in Ids
  BY QueueTyped DEF TypeOK
<1>1. CASE queue'[c].status \in {"pending", "failed"}
  <2>1. CASE queue'[c].status = queue[c].status
    BY <1>1, <2>1 DEF Unaccepted
  <2>2. CASE queue'[c].status # queue[c].status
    <3>1. StatusStep(c) /\ ~IsReidentify(c)
      BY <2>2, StatusMoves DEF IsReidentify, IsReboot
    <3>2. ASSUME NEW e \in Passes, PassReset(e), pass[e].cmd = c
          PROVE  Unaccepted(c)
      BY <3>2 DEF PassReset, Writers, Unaccepted
    <3>3. ASSUME NEW r \in results, ResultCommit(r), r.cmd = c,
                 queue'[c].status = Verdict(r.outcome)
          PROVE  Unaccepted(c)
      <4>1. r.outcome \in {"applied", "failed"}
        BY DEF TypeOK
      <4> QED
        BY <1>1, <3>3, <4>1 DEF Verdict, ResultCommit, Open, Unaccepted
    <3> QED
      BY <1>1, <3>1, <3>2, <3>3 DEF StatusStep
  <2> QED
    BY <2>1, <2>2
<1>2. ASSUME NEW h \in Hosts, host'[h].pc = "executing", host'[h].cmd = c
      PROVE  Unaccepted(c)
  <2>1. Takes(h, c)'
    BY <1>2 DEF Takes
  <2>2. CASE c \in Pending
    BY <2>2 DEF Pending, StatusPending, Unaccepted
  <2>3. CASE host[h].pc = "executing" /\ host[h].cmd = c
    BY <2>3 DEF Unaccepted
  <2>4. CASE installing[h] = c \/ identity[h] = c
    BY <1>0, <2>4 DEF References, IsReidentify, IsReboot, Ids
  <2> QED
    BY <1>0, <2>1, <2>2, <2>3, <2>4, TakesStep DEF Takes
<1>3. ASSUME NEW h \in Hosts, host'[h].pc = "executed", host'[h].cmd = c,
             host'[h].outcome = "failed"
      PROVE  Unaccepted(c)
  <2>1. host'[h] = host[h]
    <3>1. CASE host' = host
      BY <3>1
    <3>2. ASSUME NEW g \in Hosts,
                 Poll(g) \/ Send(g) \/ Install(g) \/ HostFails(g)
          PROVE  host'[h] = host[h]
      BY <1>0, <1>3, <3>2 DEF Poll, Send, Install, HostFails
    <3>3. ASSUME NEW r \in results, ResultRead(r) \/ ResultEffect(r)
          PROVE  host'[h] = host[h]
      BY <1>0, <1>3, <3>3 DEF ResultRead, ResultEffect, Respond
    <3>4. CASE ApiCrash
      BY <1>3, <3>4 DEF ApiCrash
    <3> QED
      BY <3>1, <3>2, <3>3, <3>4, Writes
  <2> QED
    BY <1>3, <2>1 DEF Unaccepted
<1>4. ASSUME NEW r \in results', Open(r, c), r.outcome = "failed"
      PROVE  Unaccepted(c)
  <2>1. CASE r \in results
    BY <1>4, <2>1 DEF Unaccepted
  <2>2. ASSUME NEW h \in Hosts, Send(h), r \notin results
        PROVE  Unaccepted(c)
    BY <1>4, <2>2 DEF Send, Open, Unaccepted
  <2>3. ASSUME NEW q \in results, r \notin results,
               ResultRead(q) \/ ResultCommit(q) \/ ResultEffect(q)
        PROVE  Unaccepted(c)
    <3>1. q \in [cmd : Ids, by : Hosts, outcome : {"applied", "failed"},
                 step : {"read", "commit", "effect"}]
      BY DEF TypeOK
    <3>2. Open(q, c) /\ q.outcome = "failed"
      BY <1>4, <2>3, <3>1
         DEF ResultRead, ResultCommit, ResultEffect, Respond, Open
    <3> QED
      BY <3>2 DEF Unaccepted
  <2> QED
    BY <2>1, <2>2, <2>3, Writes DEF Handle, ApiCrash
<1> QED
  BY <1>1, <1>2, <1>3, <1>4 DEF Unaccepted

(* The step in which a host accepts a reboot, or refuses it, or accepts it *)
(* unseen.                                                                 *)
LEMMA ExecuteReboots ==
  ASSUME QInv, Attempts, Reboots, NEW h \in Hosts, Execute(h)
  PROVE  Reboots'
<1> USE IdleTyped
<1> DEFINE c == host[h].cmd
           p == queue[c].period
<1>0. /\ TypeOK /\ DOMAIN host = Hosts /\ DOMAIN rebooted = 1..MaxPeriod
      /\ \A q \in 1..MaxPeriod : rebooted[q] \in Nat
  BY DEF QInv, TypeOK
<1>1. /\ host[h].pc = "executing" /\ queue' = queue /\ results' = results
      /\ c \in DOMAIN queue
  BY DEF Execute, QInv, References
<1>2. PICK o \in {"applied", "failed"}, accepted \in BOOLEAN :
        /\ host' = [host EXCEPT ![h] = [pc |-> "executed", cmd |-> c,
                                        outcome |-> o]]
        /\ rebooted' = IF /\ IsReboot(c) /\ accepted
                          /\ o = "applied" \/ rebooted[p] > 0
                         THEN [rebooted EXCEPT ![p] = rebooted[p] + 1]
                         ELSE rebooted
  BY DEF Execute, IsReboot
<1>3. Unaccepted(c) /\ Working(h, c)
  BY <1>1 DEF Unaccepted, Working
<1>4. IsReboot(c) => p \in 1..MaxPeriod /\ rebooted[p] = 0 /\ c \in RebootOf(p)
  BY <1>1, <1>3 DEF Reboots, QInv, References, RebootOf, IsReboot
<1> HIDE DEF c, p
<1>5. \A q \in 1..MaxPeriod :
        /\ rebooted'[q] <= 1
        /\ rebooted'[q] # rebooted[q] =>
             q = p /\ IsReboot(c) /\ o = "applied"
  BY <1>0, <1>2, <1>4 DEF Reboots
<1>6. \A q \in 1..MaxPeriod : RebootOf(q)' = {} => rebooted'[q] = 0
  BY <1>1, <1>4, <1>5 DEF Reboots, RebootOf
<1>7. ASSUME NEW d \in DOMAIN queue, IsReboot(d), Unaccepted(d)'
      PROVE  rebooted'[queue[d].period] = 0
  <2>1. queue[d].period \in 1..MaxPeriod
    BY <1>7 DEF QInv, References
  <2>2. CASE d # c
    <3>1. Unaccepted(d)
      BY <1>0, <1>1, <1>2, <1>7, <2>2 DEF Unaccepted
    <3>2. rebooted[queue[d].period] = 0
      BY <1>7, <3>1 DEF Reboots
    <3>3. queue[d].period = p => ~IsReboot(c)
      BY <1>1, <1>7, <2>2 DEF QInv, OnePerKind, p
    <3> QED
      BY <1>5, <2>1, <3>2, <3>3
  <2>3. CASE d = c
    <3>1. o = "failed"
      <4>1. queue[c].status = "running"
        BY <1>0, <1>3, <1>7, <2>3, AttemptsEverywhere
           DEF Attempted, QInv, IsReidentify, IsReboot
      <4>2. OneAttempt(c)
        BY <1>0, AttemptsEverywhere DEF QInv
      <4>3. \A r \in results : ~Open(r, c)
        BY <1>3, <4>2 DEF OneAttempt
      <4>4. \A g \in Hosts : Working(g, c) => g = h
        BY <1>3, <4>2 DEF OneAttempt
      <4> QED
        BY <1>0, <1>1, <1>2, <1>7, <2>3, <4>1, <4>3, <4>4
           DEF Unaccepted, Working
    <3> QED
      BY <1>4, <1>5, <1>7, <2>1, <2>3, <3>1 DEF p
  <2> QED
    BY <2>2, <2>3
<1> QED
  BY <1>1, <1>5, <1>6, <1>7 DEF Reboots, IsReboot

(* Every step keeps that.                                                  *)
LEMMA RebootsStep ==
  ASSUME QInv, Attempts, Writers, Reboots, [Next]_vars
  PROVE  Reboots'
<1>0. TypeOK /\ References /\ QueueStep /\ queue \in Seq(Command)
  BY NextQueueStep DEF QInv, TypeOK
<1>1. CASE \E h \in Hosts : Execute(h)
  BY <1>1, ExecuteReboots
<1>2. CASE ~ \E h \in Hosts : Execute(h)
  <2>1. rebooted' = rebooted
    BY <1>2, Writes
  <2>2. \A p : RebootOf(p) \subseteq RebootOf(p)'
    BY <1>0, CommandsKept DEF RebootOf
  <2>3. ASSUME NEW c \in DOMAIN queue, IsReboot(c)', Unaccepted(c)'
        PROVE  rebooted[queue'[c].period] = 0
    <3>1. IsReboot(c) /\ queue'[c].period = queue[c].period
      BY <1>0, <2>3, CommandsKept DEF IsReboot
    <3>2. Unaccepted(c)
      BY <1>0, <1>2, <2>3, <3>1, UnacceptedStep
    <3> QED
      BY <3>1, <3>2 DEF Reboots
  <2>4. ASSUME NEW c \in DOMAIN queue', c \notin DOMAIN queue, IsReboot(c)'
        PROVE  rebooted[queue'[c].period] = 0
    <3>1. PICK new \in Command : Fresh(new) /\ Appends(new)
      BY <1>0, <2>4 DEF QueueStep, Rewrites
    <3>2. queue'[c] = new
      BY <2>4, <3>1 DEF Appends
    <3> QED
      BY <2>4, <3>1, <3>2 DEF Fresh, Reboots, IsReboot
  <2> QED
    BY <2>1, <2>2, <2>3, <2>4 DEF Reboots
<1> QED
  BY <1>1, <1>2

(* SInv holds initially and, without overlapping passes, for ever.         *)
LEMMA InitSerial == Init => SInv
<1> SUFFICES ASSUME Init PROVE SInv
  OBVIOUS
<1>1. DOMAIN queue = {}
  BY DEF Init
<1>2. Writers
  BY IdleTyped DEF Init, Writers
<1>3. Reboots
  BY <1>1 DEF Init, Reboots
<1> QED
  BY <1>1, <1>2, <1>3, InitInv DEF SInv, Attempts

(* Every step keeps the invariant of serial passes.                        *)
LEMMA NextSerial ==
  ASSUME SerialPasses, SInv, [Next]_vars
  PROVE  SInv'
<1>1. TypeOK /\ References /\ QInv
  BY DEF SInv, QInv
<1>2. QInv'
  BY <1>1, QueueNext
<1>3. Attempts'
  BY <1>1, AttemptsStep DEF SInv
<1>4. Writers'
  BY <1>1, WritersStep DEF SInv
<1>5. Reboots'
  BY <1>1, RebootsStep DEF SInv
<1> QED
  BY <1>2, <1>3, <1>4, <1>5 DEF SInv

(* While reboot passes do not overlap, attempts are single, a pass resets  *)
(* only what is still failed, and no executor saw an unanswered or failed  *)
(* reboot accepted.                                                        *)
THEOREM SerialInvariant == ASSUME SerialPasses PROVE Spec => []SInv
<1>1. SInv /\ [Next]_vars => SInv'
  BY NextSerial
<1> QED
  BY InitSerial, <1>1, PTL DEF Spec

(* While reboot passes do not overlap, no scheduled reboot is accepted in  *)
(* its period after an executor saw it accepted, over any retries, losses  *)
(* and crashes; an executor that times out reports failed, and only that   *)
(* lets an accepted reboot be accepted again.                              *)
THEOREM RebootOnceHolds ==
  ASSUME SerialPasses PROVE Spec => []RebootOncePerPeriod
<1>1. SInv => RebootOncePerPeriod
  BY DEF SInv, Reboots, RebootOncePerPeriod
<1> QED
  BY SerialInvariant, <1>1, PTL

-----------------------------------------------------------------------------
(* What the verdict of a command allows a step: a completed command stays  *)
(* completed, a failed one stays failed or is a scheduled reboot that is   *)
(* queued again.                                                           *)
VerdictKept(c) ==
  /\ queue[c].status = "completed" => queue'[c].status = "completed"
  /\ queue[c].status = "failed" =>
       \/ queue'[c].status = "failed"
       \/ queue'[c].status = "pending" /\ queue[c].kind = "scheduled_reboot"

(* Every step keeps the verdict of a command that is no reidentification,  *)
(* which alone can be answered after its claim expired.                    *)
LEMMA VerdictStep ==
  ASSUME SInv, [Next]_vars, NEW c \in DOMAIN queue, ~IsReidentify(c)
  PROVE  VerdictKept(c)
<1>0. TypeOK /\ References /\ Attempts /\ Writers
  BY DEF SInv, QInv
<1>1. CASE queue'[c].status = queue[c].status
  BY <1>1 DEF VerdictKept
<1>2. CASE StatusStep(c)
  <2>1. ASSUME NEW e \in Passes, PassReset(e), pass[e].cmd = c,
               queue'[c].status = "pending"
        PROVE  VerdictKept(c)
    <3>1. queue[c].status = "failed" /\ IsReboot(c)
      BY <1>0, <2>1 DEF PassReset, Writers, References
    <3> QED
      BY <2>1, <3>1 DEF VerdictKept, IsReboot
  <2>2. ASSUME Oldest(c) PROVE VerdictKept(c)
    BY <2>2 DEF Oldest, Pending, StatusPending, VerdictKept
  <2>3. ASSUME NEW r \in results, ResultCommit(r), r.cmd = c
        PROVE  VerdictKept(c)
    <3>1. Attempted(c)
      BY <2>3 DEF ResultCommit, Attempted, Open
    <3>2. queue[c].status = "running"
      BY <1>0, <3>1, AttemptsEverywhere
    <3> QED
      BY <3>2 DEF VerdictKept
  <2> QED
    BY <1>2, <2>1, <2>2, <2>3 DEF StatusStep
<1> QED
  BY <1>0, <1>1, <1>2, StatusMoves

(* Where no operator asks for a reidentification, there is none.           *)
NoReidentify == \A c \in DOMAIN queue : ~IsReidentify(c)

(* And none comes to be.                                                   *)
LEMMA NoReidentifyStep ==
  ASSUME "force_reidentify" \notin Requests, SInv, NoReidentify,
         \A o \in Operators : request[o] = Idle, [Next]_vars
  PROVE  NoReidentify' /\ \A o \in Operators : request'[o] = Idle
<1>0. TypeOK /\ References /\ queue \in Seq(Command)
  BY DEF SInv, QInv, TypeOK
<1>1. \A o \in Operators : request'[o] = Idle
  <2>1. \A o \in Operators : ~Reidentify(o)
    BY IdleTyped DEF Reidentify, ReidentifyFind, ReidentifyExpire,
                     ReidentifyCheck, ReidentifyInsert
  <2> QED
    BY <2>1, Writes DEF ApiCrash
<1>2. ASSUME NEW new \in Command, Fresh(new), Appends(new)
      PROVE  NoReidentify'
  <2>1. new.kind # "force_reidentify"
    BY <1>2, IdleTyped DEF Fresh, ReidentifyInsert
  <2> QED
    BY <2>1, <1>2 DEF Appends, NoReidentify, IsReidentify
<1>3. ASSUME NEW c \in DOMAIN queue, NEW new \in Command,
             Moves(c, new), Rewrites(c, new)
      PROVE  NoReidentify'
  BY <1>0, <1>3 DEF Moves, Rewrites, NoReidentify, IsReidentify
<1> QED
  BY <1>0, <1>1, <1>2, <1>3, NextQueueStep DEF QueueStep, NoReidentify,
                                           IsReidentify

(* While reboot passes do not overlap and no operator asks for a           *)
(* reidentification, every verdict stands.                                 *)
THEOREM VerdictHolds ==
  ASSUME SerialPasses, "force_reidentify" \notin Requests
  PROVE  Spec => VerdictStands
<1> DEFINE Unasked == NoReidentify /\ \A o \in Operators : request[o] = Idle
<1>1. Init => Unasked
  BY DEF Init, NoReidentify
<1>2. SInv /\ Unasked /\ [Next]_vars => Unasked'
  BY NoReidentifyStep
<1>3. SInv /\ Unasked /\ [Next]_vars =>
        [\A c \in DOMAIN queue :
           /\ queue[c].status = "completed" => queue'[c].status = "completed"
           /\ queue[c].status = "failed" =>
                \/ queue'[c].status = "failed"
                \/ queue'[c].status = "pending"
                     /\ queue[c].kind = "scheduled_reboot"]_queue
  BY VerdictStep DEF NoReidentify, VerdictKept
<1> QED
  BY SerialInvariant, <1>1, <1>2, <1>3, PTL DEF Spec, VerdictStands

-----------------------------------------------------------------------------
(* The queue implements CommandLedger.                                     *)
PhasesOf(q) == [c \in DOMAIN q |-> Phase(q[c].status)]
RetryableOf(q) == [c \in DOMAIN q |-> q[c].kind = "scheduled_reboot"]
Phases == PhasesOf(queue)
Retryable == RetryableOf(queue)
FoundOf(q) == [c \in DOMAIN q |-> q[c].found]
Found == FoundOf(queue)

(* A sequence that agrees with another one and has one element more is the *)
(* other one with that element appended.                                   *)
LEMMA AppendedIs ==
  ASSUME NEW S, NEW s \in Seq(S), NEW t \in Seq(S), Len(t) = Len(s) + 1,
         \A i \in 1..Len(s) : t[i] = s[i]
  PROVE  t = Append(s, t[Len(s) + 1])
<1> DEFINE e == t[Len(s) + 1]
<1>1. Len(s) \in Nat /\ e \in S
  BY LenProperties, ElementOfSeq
<1>2. /\ Append(s, e) \in Seq(S) /\ Len(Append(s, e)) = Len(s) + 1
      /\ \A i \in 1..Len(s) : Append(s, e)[i] = s[i]
      /\ Append(s, e)[Len(s) + 1] = e
  BY <1>1, AppendProperties
<1>3. \A i \in 1..(Len(s) + 1) : t[i] = Append(s, e)[i]
  BY <1>1, <1>2
<1> HIDE DEF e
<1> QED
  BY <1>2, <1>3, SeqEqual DEF e

(* The mapped ledger is three sequences as long as the queue.              *)
LEMMA MappedSeq ==
  ASSUME NEW q \in Seq(Command)
  PROVE  /\ PhasesOf(q) \in Seq({"queued", "held", "closed"})
         /\ Len(PhasesOf(q)) = Len(q)
         /\ RetryableOf(q) \in Seq(BOOLEAN)
         /\ Len(RetryableOf(q)) = Len(q)
         /\ FoundOf(q) \in Seq(Nat)
         /\ Len(FoundOf(q)) = Len(q)
<1>1. Len(q) \in Nat /\ DOMAIN q = 1..Len(q)
  BY LenProperties
<1>2. /\ PhasesOf(q) \in [1..Len(q) -> {"queued", "held", "closed"}]
      /\ RetryableOf(q) \in [1..Len(q) -> BOOLEAN]
      /\ FoundOf(q) \in [1..Len(q) -> Nat]
  <2>1. \A c \in 1..Len(q) : q[c] \in Command
    BY <1>1, ElementOfSeq
  <2>2. \A k \in Command : k.found \in Nat
    BY DEF Command
  <2> QED
    BY <1>1, <2>1, <2>2 DEF PhasesOf, RetryableOf, FoundOf, Phase
<1>3. /\ PhasesOf(q) \in Seq({"queued", "held", "closed"})
      /\ RetryableOf(q) \in Seq(BOOLEAN)
      /\ FoundOf(q) \in Seq(Nat)
  <2>1. PhasesOf(q) \in Seq({"queued", "held", "closed"})
    BY <1>1, <1>2, SeqDef
  <2>2. RetryableOf(q) \in Seq(BOOLEAN)
    BY <1>1, <1>2, SeqDef
  <2>3. FoundOf(q) \in Seq(Nat)
    BY <1>1, <1>2, SeqDef
  <2> QED
    BY <2>1, <2>2, <2>3
<1> QED
  BY <1>1, <1>2, <1>3, LenProperties

(* A fresh command is queued in the ledger.                                *)
LEMMA AppendQueues ==
  ASSUME queue \in Seq(Command), queue' \in Seq(Command),
         NEW new \in Command, Fresh(new), Appends(new)
  PROVE  /\ Phases' = Append(Phases, "queued")
         /\ \E again \in BOOLEAN : Retryable' = Append(Retryable, again)
         /\ \E m \in 0..Len(Phases) : Found' = Append(Found, m)
<1> DEFINE n == Len(queue) + 1
<1>1. /\ Len(queue) \in Nat /\ DOMAIN queue = 1..Len(queue)
      /\ DOMAIN queue' = 1..Len(queue')
  BY LenProperties
<1>2. /\ Len(queue') = n
      /\ \A d \in DOMAIN queue : queue'[d] = queue[d]
      /\ queue'[n] = new
  BY DEF Appends
<1>3. /\ Phases \in Seq({"queued", "held", "closed"})
      /\ Phases' \in Seq({"queued", "held", "closed"})
      /\ Retryable \in Seq(BOOLEAN) /\ Retryable' \in Seq(BOOLEAN)
      /\ Len(Phases) = Len(queue) /\ Len(Phases') = n
      /\ Len(Retryable) = Len(queue) /\ Len(Retryable') = n
      /\ Found \in Seq(Nat) /\ Found' \in Seq(Nat)
      /\ Len(Found) = Len(queue) /\ Len(Found') = n
  BY <1>2, MappedSeq DEF Phases, Retryable, Found
<1>4. /\ \A i \in 1..Len(queue) : Phases'[i] = Phases[i]
      /\ Phases'[n] = "queued"
  BY <1>1, <1>2 DEF Phases, PhasesOf, Phase, Fresh
<1>5. \A i \in 1..Len(queue) : Retryable'[i] = Retryable[i]
  BY <1>1, <1>2 DEF Retryable, RetryableOf
<1>6. Phases' = Append(Phases, "queued")
  BY <1>3, <1>4, AppendedIs
<1>7. Retryable' = Append(Retryable, Retryable'[n])
  BY <1>3, <1>5, AppendedIs
<1>8. Retryable'[n] \in BOOLEAN
  BY <1>1, <1>3, ElementOfSeq
<1>9. \A i \in 1..Len(queue) : Found'[i] = Found[i]
  BY <1>1, <1>2 DEF Found, FoundOf
<1>10. Found' = Append(Found, Found'[n])
  BY <1>3, <1>9, AppendedIs
<1>11. Found'[n] \in 0..Len(Phases)
  <2>1. Found'[n] \in Nat
    BY <1>1, <1>3, ElementOfSeq
  <2>2. Found'[n] = new.found /\ new.found <= Len(queue)
    BY <1>1, <1>2 DEF Found, FoundOf, Fresh
  <2> QED
    BY <1>1, <1>3, <2>1, <2>2
<1> QED
  BY <1>6, <1>7, <1>8, <1>10, <1>11

(* A step that rewrites one command moves at most its phase, the way the   *)
(* ledger does.                                                            *)
LEMMA MovePhase ==
  ASSUME TypeOK, References, Attempts, Writers, [Next]_vars,
         NEW c \in DOMAIN queue, NEW new \in Command,
         Moves(c, new), Rewrites(c, new)
  PROVE  /\ Phases' = [Phases EXCEPT ![c] = Phase(new.status)]
         /\ Retryable' = Retryable /\ Found' = Found
         /\ \/ Phase(new.status) = Phases[c]
            \/ /\ Phases[c] = "queued" /\ Phase(new.status) = "held"
               /\ \A d \in DOMAIN queue :
                    Phases[d] = "queued" => Found[c] < d
            \/ Phases[c] = "held" /\ Phase(new.status) = "closed"
            \/ /\ Phases[c] = "closed" /\ Phase(new.status) = "queued"
               /\ Retryable[c]
<1>0. /\ queue[c].status \in {"pending", "running", "completed", "failed"}
      /\ \A d \in DOMAIN queue :
           queue[d].status \in {"pending", "running", "completed", "failed"}
      /\ queue'[c] = new /\ DOMAIN queue' = DOMAIN queue
      /\ \A d \in DOMAIN queue : d # c => queue'[d] = queue[d]
  BY QueueTyped DEF TypeOK, Command, Rewrites
<1>1. Phases' = [Phases EXCEPT ![c] = Phase(new.status)]
  BY <1>0 DEF Phases, PhasesOf
<1>2. Retryable' = Retryable /\ Found' = Found
  BY <1>0 DEF Retryable, RetryableOf, Found, FoundOf, Moves
<1>3. \A d \in DOMAIN queue : Phases[d] = Phase(queue[d].status)
  BY DEF Phases, PhasesOf
<1>4. CASE new.status = queue[c].status
  BY <1>1, <1>2, <1>3, <1>4
<1>5. CASE new.status # queue[c].status
  <2>1. StatusStep(c)
    BY <1>0, <1>5, StatusMoves
  <2>2. CASE Oldest(c) /\ new.status = "running"
    <3>1. queue[c].status = "pending"
      BY <2>2 DEF Oldest, Pending, StatusPending
    <3>2. ASSUME NEW d \in DOMAIN queue, Phases[d] = "queued"
          PROVE  Found[c] < d
      <4>1. d \in Pending
        BY <1>0, <1>3, <3>2 DEF Pending, StatusPending, Phase
      <4>2. queue[c].found <= queue[d].found /\ queue[d].found < d
        BY <2>2, <4>1 DEF Oldest, References
      <4>3. queue[c].found \in Nat /\ queue[d].found \in Nat /\ d \in Ids
        BY QueueTyped DEF TypeOK, Command
      <4>4. Found[c] = queue[c].found
        BY DEF Found, FoundOf
      <4> QED
        BY <4>2, <4>3, <4>4 DEF Ids
    <3> QED
      BY <1>1, <1>2, <1>3, <2>2, <3>1, <3>2 DEF Phase
  <2>3. CASE /\ queue[c].status # "pending"
             /\ new.status \in {"completed", "failed"}
    BY <1>0, <1>1, <1>2, <1>3, <2>3 DEF Phase
  <2>4. ASSUME NEW e \in Passes, PassReset(e), pass[e].cmd = c,
               new.status = "pending"
        PROVE  queue[c].status = "failed" /\ IsReboot(c)
    BY <2>4 DEF PassReset, Writers, References
  <2>5. CASE /\ queue[c].status = "failed" /\ IsReboot(c)
             /\ new.status = "pending"
    BY <1>1, <1>2, <1>3, <2>5 DEF Phase, Retryable, RetryableOf, IsReboot
  <2>6. ASSUME NEW o \in Operators, ReidentifyExpire(o), request[o].cmd = c
        PROVE  queue[c].status # "pending"
    BY <2>6 DEF ReidentifyExpire, Writers
  <2>7. ASSUME NEW r \in results, ResultCommit(r), r.cmd = c
        PROVE  queue[c].status # "pending"
    <3>1. Attempted(c)
      BY <2>7 DEF ResultCommit, Attempted, Open
    <3> QED
      BY <3>1, AttemptsEverywhere
  <2> QED
    BY <1>0, <2>1, <2>2, <2>3, <2>4, <2>5, <2>6, <2>7 DEF StatusStep, Verdict
<1> QED
  BY <1>4, <1>5

(* Initial states and steps of the queue are those of the ledger.          *)
LEMMA LedgerInit == Init => Ledger!Init
BY DEF Init, Ledger!Init

(* A step of the queue is a step of the ledger, or none.                   *)
LEMMA LedgerStep ==
  ASSUME SInv, [Next]_vars
  PROVE  [Ledger!Next]_(Ledger!ledgerVars)
<1> USE DEF Phases, PhasesOf, Retryable, RetryableOf, Found, FoundOf
<1>0. /\ TypeOK /\ References /\ Attempts /\ Writers
      /\ queue \in Seq(Command) /\ QueueStep
  BY NextQueueStep DEF SInv, QInv, TypeOK
<1>1. CASE queue' = queue
  BY <1>1 DEF Ledger!ledgerVars
<1>2. ASSUME NEW new \in Command, Fresh(new), Appends(new)
      PROVE  Ledger!Next
  <2>1. /\ Phases' = Append(Phases, "queued")
        /\ \E again \in BOOLEAN : Retryable' = Append(Retryable, again)
        /\ \E n \in 0..Len(Phases) : Found' = Append(Found, n)
    BY <1>0, <1>2, AppendQueues DEF QueueStep
  <2> QED
    BY <2>1 DEF Ledger!Next, Ledger!Queue
<1>3. ASSUME NEW c \in DOMAIN queue, NEW new \in Command,
             Moves(c, new), Rewrites(c, new)
      PROVE  [Ledger!Next]_(Ledger!ledgerVars)
  <2> DEFINE s == Phase(new.status)
  <2>1. /\ Phases' = [Phases EXCEPT ![c] = s]
        /\ Retryable' = Retryable /\ Found' = Found
        /\ \/ s = Phases[c]
           \/ /\ Phases[c] = "queued" /\ s = "held"
              /\ \A d \in DOMAIN queue :
                   Phases[d] = "queued" => Found[c] < d
           \/ Phases[c] = "held" /\ s = "closed"
           \/ Phases[c] = "closed" /\ s = "queued" /\ Retryable[c]
    BY <1>0, <1>3, MovePhase
  <2>2. c \in DOMAIN Phases /\ DOMAIN Phases = DOMAIN queue
    OBVIOUS
  <2> HIDE DEF s, Phases, Retryable, Found
  <2>3. CASE s = Phases[c]
    <3>1. Phases' = Phases
      BY <2>1, <2>3 DEF Phases
    <3> QED
      BY <2>1, <3>1 DEF Phases, Retryable, Found, Ledger!ledgerVars
  <2>4. CASE /\ Phases[c] = "queued" /\ s = "held"
             /\ \A d \in DOMAIN queue : Phases[d] = "queued" => Found[c] < d
    BY <2>1, <2>2, <2>4
       DEF Phases, Retryable, Found, Ledger!Next, Ledger!Hold, Ledger!Queued,
           Ledger!MoveTo
  <2>5. CASE Phases[c] = "held" /\ s = "closed"
    BY <2>1, <2>2, <2>5
       DEF Phases, Retryable, Found, Ledger!Next, Ledger!Close, Ledger!MoveTo
  <2>6. CASE Phases[c] = "closed" /\ s = "queued" /\ Retryable[c]
    BY <2>1, <2>2, <2>6
       DEF Phases, Retryable, Found, Ledger!Next, Ledger!Requeue, Ledger!MoveTo
  <2> QED
    BY <2>1, <2>3, <2>4, <2>5, <2>6
<1> QED
  BY <1>0, <1>1, <1>2, <1>3 DEF QueueStep

(* While reboot passes do not overlap, the command queue keeps the promise *)
(* of CommandLedger: no command overtakes one that was queued before its   *)
(* request began, each goes to one host, and only a closed reboot is       *)
(* queued again.                                                           *)
THEOREM LedgerHolds == ASSUME SerialPasses PROVE Spec => LedgerSpec
<1>1. SInv /\ [Next]_vars => [Ledger!Next]_(Ledger!ledgerVars)
  BY LedgerStep
<1> QED
  BY SerialInvariant, LedgerInit, <1>1, PTL DEF Spec, LedgerSpec, Ledger!Spec
=============================================================================
