-------------------------- MODULE PatchCycleProofs --------------------------
(***************************************************************************)
(* Proofs about PatchCycle for every value of its constants.               *)
(***************************************************************************)
EXTENDS PatchCycle, FiniteSetTheorems, SequenceTheorems, TLAPS

(* What a write of a job keeps: its dates, and what its history says.      *)
Keeps(old, new) ==
  /\ new \in Job
  /\ new.day = old.day /\ new.due = old.due
  /\ old.reopened => new.reopened
  /\ old.status = "failed" => new.status = "failed" \/ new.reopened

(* What a step that rewrites one job may do to the table: the same jobs,   *)
(* created on the same days.                                               *)
SlotKept(t) ==
  /\ DOMAIN jobs'[t] = DOMAIN jobs[t]
  /\ \A i \in DOMAIN jobs[t] : Keeps(jobs[t][i], jobs'[t][i])
JobsKept == \A t \in Slots : SlotKept(t)

(* Replacing an element of a sequence of jobs, or writing at an index it   *)
(* does not have, leaves a sequence of jobs of the same length.            *)
LEMMA ReplaceJob ==
  ASSUME NEW s \in Seq(Job), NEW i, NEW new,
         i \in DOMAIN s => Keeps(s[i], new)
  PROVE  /\ [s EXCEPT ![i] = new] \in Seq(Job)
         /\ DOMAIN [s EXCEPT ![i] = new] = DOMAIN s
         /\ \A k \in DOMAIN s : Keeps(s[k], [s EXCEPT ![i] = new][k])
<1>1. /\ Len(s) \in Nat /\ DOMAIN s = 1..Len(s)
      /\ s \in [1..Len(s) -> Job]
  BY LenProperties
<1>2. [s EXCEPT ![i] = new] \in [1..Len(s) -> Job]
  BY <1>1 DEF Keeps
<1>3. [s EXCEPT ![i] = new] \in Seq(Job)
  BY <1>1, <1>2, SeqDef
<1>4. ASSUME NEW k \in DOMAIN s PROVE Keeps(s[k], [s EXCEPT ![i] = new][k])
  <2>1. CASE k = i
    BY <1>1, <2>1
  <2>2. CASE k # i
    BY <1>1, <2>2 DEF Keeps
  <2> QED
    BY <2>1, <2>2
<1>5. QED
  BY <1>1, <1>2, <1>3, <1>4

(* A write of one job, whatever job it names, keeps the table's type, every *)
(* creation day and the history.                                           *)
LEMMA WriteKeepsJobs ==
  ASSUME jobs \in [Slots -> Seq(Job)], NEW j \in JobId, NEW new,
         WriteJob(j, new),
         j[2] \in DOMAIN jobs[j[1]] => Keeps(JobOf(j), new)
  PROVE  jobs' \in [Slots -> Seq(Job)] /\ JobsKept
<1> DEFINE t == j[1]
           s == [jobs[t] EXCEPT ![j[2]] = new]
<1>1. t \in Slots /\ jobs[t] \in Seq(Job)
  BY DEF JobId
<1>2. /\ s \in Seq(Job)
      /\ DOMAIN s = DOMAIN jobs[t]
      /\ \A k \in DOMAIN jobs[t] : Keeps(jobs[t][k], s[k])
  BY <1>1, ReplaceJob DEF JobOf
<1>3. jobs' = [jobs EXCEPT ![t] = s]
  BY DEF WriteJob
<1>4. \A u \in Slots : \A k \in DOMAIN jobs[u] : jobs[u][k] \in Job
  BY LenProperties, ElementOfSeq
<1> HIDE DEF s, t
<1>5. jobs' \in [Slots -> Seq(Job)]
  BY <1>1, <1>2, <1>3
<1>6. JobsKept
  <2> SUFFICES ASSUME NEW u \in Slots
               PROVE  /\ DOMAIN jobs'[u] = DOMAIN jobs[u]
                      /\ \A k \in DOMAIN jobs[u] :
                           Keeps(jobs[u][k], jobs'[u][k])
    BY DEF JobsKept, SlotKept
  <2>1. CASE u = t
    BY <1>1, <1>2, <1>3, <2>1
  <2>2. CASE u # t
    BY <1>1, <1>3, <1>4, <2>2 DEF Keeps
  <2> QED
    BY <2>1, <2>2
<1>7. QED
  BY <1>5, <1>6

(* The writes that handlers, agents and the worker make.                   *)
Writes(j, s, c, k) ==
  \/ SetStatus(j, s) /\ ~c /\ ~k
  \/ WorkerWrites(j, s, k) /\ ~c
  \/ ClaimWrite(j) /\ s = "running" /\ c /\ ~k

(* Such a new row: the status, the flags raised, the rest as it was.       *)
RowAfter(old, new, s, c, k) ==
  /\ Keeps(old, new)
  /\ new.status = s
  /\ new.claimed <=> old.claimed \/ c
  /\ new.taken <=> old.taken \/ k

(* They write the new row and keep its history.                            *)
LEMMA WritesRow ==
  ASSUME NEW j, JobOf(j) \in Job,
         NEW s \in {"running", "completed", "failed"},
         NEW c \in BOOLEAN, NEW k \in BOOLEAN, Writes(j, s, c, k)
  PROVE  \E new : WriteJob(j, new) /\ RowAfter(JobOf(j), new, s, c, k)
<1>0. PICK old \in Job : old = JobOf(j)
  OBVIOUS
<1>1. PICK r \in BOOLEAN : r = Reopens(j, s)
  <2>1. Reopens(j, s) \in BOOLEAN
    BY DEF Reopens
  <2> QED
    BY <2>1
<1>2. /\ old.reopened => r
      /\ old.status = "failed" => s = "failed" \/ r
  BY <1>0, <1>1 DEF Reopens
<1>3. CASE SetStatus(j, s) /\ ~c /\ ~k
  <2> DEFINE new == [old EXCEPT !.status = s, !.reopened = r]
  <2>1. /\ new \in Job /\ new.day = old.day /\ new.due = old.due
        /\ new.status = s /\ new.reopened = r
        /\ new.claimed = old.claimed /\ new.taken = old.taken
    BY DEF Job
  <2>2. WriteJob(j, new)
    BY <1>0, <1>1, <1>3 DEF SetStatus
  <2> HIDE DEF new
  <2> QED
    BY <1>0, <1>2, <1>3, <2>1, <2>2 DEF RowAfter, Keeps
<1>4. CASE WorkerWrites(j, s, k) /\ ~c
  <2>0. PICK b \in BOOLEAN : b = (old.taken \/ k)
    OBVIOUS
  <2> DEFINE new == [old EXCEPT !.status = s, !.reopened = r, !.taken = b]
  <2>1. /\ new \in Job /\ new.day = old.day /\ new.due = old.due
        /\ new.status = s /\ new.reopened = r
        /\ new.claimed = old.claimed /\ new.taken = b
    BY DEF Job
  <2>2. WriteJob(j, new)
    BY <1>0, <1>1, <1>4, <2>0 DEF WorkerWrites
  <2> HIDE DEF new
  <2> QED
    BY <1>0, <1>2, <1>4, <2>0, <2>1, <2>2 DEF RowAfter, Keeps
<1>5. CASE ClaimWrite(j) /\ s = "running" /\ c /\ ~k
  <2> DEFINE new == [old EXCEPT !.status = "running", !.claimed = TRUE,
                                !.reopened = r]
  <2>1. /\ new \in Job /\ new.day = old.day /\ new.due = old.due
        /\ new.status = s /\ new.reopened = r
        /\ new.claimed = TRUE /\ new.taken = old.taken
    BY <1>5 DEF Job
  <2>2. WriteJob(j, new)
    BY <1>0, <1>1, <1>5 DEF ClaimWrite
  <2> HIDE DEF new
  <2> QED
    BY <1>0, <1>2, <1>5, <2>1, <2>2 DEF RowAfter, Keeps
<1> QED
  BY <1>3, <1>4, <1>5 DEF Writes

(* So they keep the table.  A write beyond the end of a slot's jobs, which  *)
(* no handler makes, would change nothing.                                 *)
LEMMA WritesKeepJobs ==
  ASSUME jobs \in [Slots -> Seq(Job)], NEW j \in JobId,
         NEW s \in {"running", "completed", "failed"},
         NEW c \in BOOLEAN, NEW k \in BOOLEAN, Writes(j, s, c, k)
  PROVE  jobs' \in [Slots -> Seq(Job)] /\ JobsKept
<1>1. CASE j[2] \in DOMAIN jobs[j[1]]
  <2>1. JobOf(j) \in Job
    BY <1>1, ElementOfSeq, LenProperties DEF JobId, JobOf
  <2> QED
    BY <1>1, <2>1, WritesRow, WriteKeepsJobs DEF RowAfter
<1>2. CASE j[2] \notin DOMAIN jobs[j[1]]
  <2>1. \E new : WriteJob(j, new)
    BY DEF Writes, SetStatus, WorkerWrites, ClaimWrite
  <2> QED
    BY <1>2, <2>1, WriteKeepsJobs
<1> QED
  BY <1>1, <1>2

(* Refers to an existing slot, which is all TypeOK asks of a reference.    *)
LEMMA AllJobsType ==
  ASSUME jobs \in [Slots -> Seq(Job)] PROVE AllJobs \subseteq JobId
BY LenProperties DEF AllJobs, JobId

-----------------------------------------------------------------------------
(* Type correctness.                                                       *)

(* A step of an enqueue pass keeps the types.                              *)
LEMMA EnqueueType == TypeOK /\ Enqueue => TypeOK'
<1> SUFFICES ASSUME TypeOK, NEW e \in Passes, Pass(e)
             PROVE  TypeOK'
  BY DEF Enqueue
<1> USE DEF TypeOK
<1> DEFINE Asking == [pc : {"slots"}, start : Nat, stamp : Nat, due : Nat,
                      todo : SUBSET Slots, failed : SUBSET Slots,
                      chosen : SUBSET Slots]
<1>0. /\ pass[e] \in PassStates /\ day \in Nat
      /\ \A q \in PassStates :
           [pass EXCEPT ![e] = q] \in [Passes -> PassStates]
      /\ pass[e].pc = "slots" => pass[e] \in Asking
  BY ConstantsOK DEF PassStates, Idle
<1>1. CASE PassStart(e)
  <2>1. [pc |-> "machines", start |-> day, stamp |-> batch,
         approved |-> Approved] \in PassStates
    BY <1>0 DEF PassStates, Approved
  <2> QED
    BY <1>0, <1>1, <2>1 DEF PassStart
<1>2. CASE PassMachines(e)
  <2>1. pass[e].start \in Nat /\ pass[e].stamp \in Nat
    BY <1>0, <1>2 DEF PassMachines, PassStates, Idle
  <2>2. \E q \in PassStates : pass' = [pass EXCEPT ![e] = q]
    BY <1>0, <1>2, <2>1 DEF PassMachines, PassStates
  <2> QED
    BY <1>0, <1>2, <2>2 DEF PassMachines
<1>3. CASE PassExists(e)
  <2>1. pass[e] \in Asking
    BY <1>0, <1>3 DEF PassExists
  <2>2. PICK t \in pass[e].todo :
          pass' = [pass EXCEPT
                     ![e].todo = @ \ {t},
                     ![e].failed = IF BlockedByJob(t, pass[e].due)
                                     THEN {} ELSE {t}]
    BY <1>3 DEF PassExists
  <2>3. PICK F \in SUBSET Slots :
          pass' = [pass EXCEPT ![e] = [pass[e] EXCEPT !.todo = @ \ {t},
                                                      !.failed = F]]
    BY <2>1, <2>2
  <2>4. [pass[e] EXCEPT !.todo = @ \ {t}, !.failed = F] \in PassStates
    BY <2>1 DEF PassStates
  <2> QED
    BY <1>0, <1>3, <2>3, <2>4 DEF PassExists
<1>4. CASE PassCount(e)
  <2>1. pass[e] \in Asking
    BY <1>0, <1>4 DEF PassCount
  <2>2. PICK t \in pass[e].failed :
          pass' = [pass EXCEPT
                     ![e].failed = {},
                     ![e].chosen = IF Exhausted(t, pass[e].due)
                                     THEN @ ELSE @ \cup {t}]
    BY <1>4 DEF PassCount
  <2>3. PICK C \in SUBSET Slots :
          pass' = [pass EXCEPT ![e] = [pass[e] EXCEPT !.failed = {},
                                                      !.chosen = C]]
    BY <2>1, <2>2
  <2>4. [pass[e] EXCEPT !.failed = {}, !.chosen = C] \in PassStates
    BY <2>1 DEF PassStates
  <2> QED
    BY <1>0, <1>4, <2>3, <2>4 DEF PassCount
<1>5. CASE PassCommit(e)
  <2>1. NewJob(pass[e]) \in Job
    BY <1>0, <1>5 DEF PassCommit, NewJob, Job
  <2>2. \A t \in Slots : Append(jobs[t], NewJob(pass[e])) \in Seq(Job)
    BY <2>1, AppendProperties
  <2>3. jobs' \in [Slots -> Seq(Job)]
    BY <1>5, <2>2 DEF PassCommit
  <2>4. Idle \in PassStates /\ batch' \in Nat
    BY <1>5 DEF PassCommit, PassStates
  <2>5. QED
    BY <1>0, <1>5, <2>3, <2>4 DEF PassCommit
<1>6. QED
  BY <1>1, <1>2, <1>3, <1>4, <1>5 DEF Pass

InHandStates == [pc : {"finish", "write", "log"}, job : JobId,
                 result : {"missing", "applied", "failed"},
                 loaded : BOOLEAN]
ReadStates == [pc : {"running"}, machines : MachineMap,
               approved : SUBSET Patches, pending : SUBSET JobId]

(* What the worker holds, by the point it is at.                           *)
LEMMA WorkerTyped ==
  ASSUME TypeOK, NEW w \in Workers
  PROVE  /\ worker[w] \in WorkerStates
         /\ worker[w] = Idle <=> worker[w].pc = "idle"
         /\ worker[w].pc \in {"idle", "patches", "pending", "running", "start",
                             "finish", "write", "log"}
         /\ worker[w].pc = "running" => worker[w] \in ReadStates
         /\ worker[w].pc = "start" => worker[w].job \in JobId
         /\ worker[w].pc \in {"finish", "write", "log"} =>
              worker[w] \in InHandStates
         /\ worker[w].pc = "log" => worker[w].result \in {"applied", "failed"}
BY DEF TypeOK, WorkerStates, InHandStates, ReadStates, Idle

(* A worker's own state may be any of its states.                          *)
LEMMA WorkerMoves ==
  ASSUME TypeOK, NEW w \in Workers, NEW u \in WorkerStates,
         worker' = [worker EXCEPT ![w] = u],
         u.pc = "log" => u.result \in {"applied", "failed"}
  PROVE  /\ worker' \in [Workers -> WorkerStates]
         /\ \A v \in Workers :
              worker'[v].pc = "log" =>
                worker'[v].result \in {"applied", "failed"}
BY DEF TypeOK

(* A worker step keeps the types.                                          *)
LEMMA WorkerType == ASSUME TypeOK, NEW w \in Workers, Worker(w) PROVE TypeOK'
<1> DEFINE Kept == /\ worker' \in [Workers -> WorkerStates]
                   /\ \A v \in Workers : worker'[v].pc = "log" =>
                                worker'[v].result \in {"applied", "failed"}
<1>0. Idle \in WorkerStates /\ Idle.pc # "log"
  BY DEF Idle, WorkerStates
<1>1. CASE WorkerMachines(w)
  <2>1. [pc |-> "patches", machines |-> machine] \in WorkerStates
    BY DEF TypeOK, WorkerStates
  <2>2. Kept
    BY <1>1, <2>1, WorkerMoves DEF WorkerMachines
  <2> QED
    BY <1>1, <2>2 DEF TypeOK, WorkerMachines
<1>2. CASE WorkerPatches(w)
  <2>1. worker[w].machines \in MachineMap
    BY <1>2, WorkerTyped DEF WorkerPatches, WorkerStates, Idle
  <2>2. [pc |-> "pending", machines |-> worker[w].machines,
         approved |-> Approved] \in WorkerStates
    BY <2>1 DEF WorkerStates, Approved
  <2>3. Kept
    BY <1>2, <2>2, WorkerMoves DEF WorkerPatches
  <2> QED
    BY <1>2, <2>3 DEF TypeOK, WorkerPatches
<1>3. CASE WorkerPending(w)
  <2>1. /\ worker[w].machines \in MachineMap
        /\ worker[w].approved \in SUBSET Patches
    BY <1>3, WorkerTyped DEF WorkerPending, WorkerStates, Idle
  <2>2. WithStatus("pending") \subseteq JobId
    BY AllJobsType DEF TypeOK, WithStatus
  <2>3. [pc |-> "running", machines |-> worker[w].machines,
         approved |-> worker[w].approved,
         pending |-> WithStatus("pending")] \in WorkerStates
    BY <2>1, <2>2 DEF WorkerStates
  <2>4. Kept
    BY <1>3, <2>3, WorkerMoves DEF WorkerPending
  <2> QED
    BY <1>3, <2>4 DEF TypeOK, WorkerPending
<1>4. CASE WorkerRunning(w)
  <2>1. WithStatus("running") \subseteq JobId /\ worker[w] \in ReadStates
    BY <1>4, AllJobsType, WorkerTyped DEF TypeOK, WithStatus, WorkerRunning
  <2>2. ASSUME NEW j \in BackendJobs(worker[w])
        PROVE  [pc |-> "finish", job |-> j,
                result |-> BackendResult(worker[w], j),
                loaded |-> Loaded(worker[w], j)] \in WorkerStates
    <3>1. BackendResult(worker[w], j) \in {"missing", "applied", "failed"}
      BY DEF BackendResult
    <3>2. Loaded(worker[w], j) \in BOOLEAN /\ j \in JobId
      BY <2>1 DEF Loaded, BackendJobs
    <3> QED
      BY <3>1, <3>2 DEF WorkerStates
  <2>3. ASSUME NEW j \in Oldest(Startable(worker[w]))
        PROVE  [pc |-> "start", job |-> j] \in WorkerStates
    BY <2>1 DEF Oldest, Startable, ReadStates, WorkerStates
  <2>4. Kept
    <3>1. ASSUME NEW j \in BackendJobs(worker[w]),
                 worker' = [worker EXCEPT ![w] =
                   [pc |-> "finish", job |-> j,
                    result |-> BackendResult(worker[w], j),
                    loaded |-> Loaded(worker[w], j)]]
          PROVE  Kept
      BY <2>2, <3>1, WorkerMoves
    <3>2. ASSUME NEW j \in Oldest(Startable(worker[w])),
                 worker' = [worker EXCEPT ![w] = [pc |-> "start", job |-> j]]
          PROVE  Kept
      BY <2>3, <3>2, WorkerMoves
    <3>3. CASE worker' = [worker EXCEPT ![w] = Idle]
      BY <1>0, <3>3, WorkerMoves
    <3> QED
      BY <1>4, <3>1, <3>2, <3>3 DEF WorkerRunning
  <2> QED
    BY <1>4, <2>4 DEF TypeOK, WorkerRunning
<1>5. CASE WorkerStart(w)
  <2>1. jobs' \in [Slots -> Seq(Job)]
    <3>1. /\ worker[w].job \in JobId
          /\ Writes(worker[w].job, "running", FALSE, TRUE)
      BY <1>5, WorkerTyped DEF WorkerStart, Writes
    <3> QED
      BY <3>1, WritesKeepJobs DEF TypeOK
  <2>2. Kept
    BY <1>0, <1>5, WorkerMoves DEF WorkerStart
  <2> QED
    BY <1>5, <2>1, <2>2 DEF TypeOK, WorkerStart
<1>6. CASE WorkerHost(w)
  <2>1. [worker[w] EXCEPT !.pc = "write"] \in WorkerStates
    BY <1>6, WorkerTyped DEF WorkerHost, InHandStates, WorkerStates
  <2>2. [worker[w] EXCEPT !.pc = "write"].pc # "log"
    BY <1>6, WorkerTyped DEF WorkerHost, InHandStates
  <2>3. \/ worker' = [worker EXCEPT ![w] = Idle]
        \/ worker' = [worker EXCEPT ![w] = [worker[w] EXCEPT !.pc = "write"]]
    BY <1>6 DEF WorkerHost, TypeOK
  <2>4. Kept
    BY <1>0, <2>1, <2>2, <2>3, WorkerMoves
  <2> QED
    BY <1>6, <2>4 DEF TypeOK, WorkerHost
<1>7. CASE WorkerFinish(w)
  <2>1. worker[w] \in InHandStates
    BY <1>7, WorkerTyped DEF WorkerFinish
  <2>2. jobs' \in [Slots -> Seq(Job)]
    <3>1. Writes(worker[w].job, FinalStatus(worker[w].result), FALSE,
                 worker[w].loaded)
      BY <1>7 DEF WorkerFinish, Writes
    <3>2. FinalStatus(worker[w].result) \in {"completed", "failed"}
      BY DEF FinalStatus
    <3> QED
      BY <2>1, <3>1, <3>2, WritesKeepJobs DEF TypeOK, InHandStates
  <2>3. [worker[w] EXCEPT !.pc = "log"] \in WorkerStates
    BY <2>1 DEF InHandStates, WorkerStates
  <2>4. [worker[w] EXCEPT !.pc = "log"].result = worker[w].result
    BY <2>1 DEF InHandStates
  <2>5. \/ worker' = [worker EXCEPT ![w] = Idle]
        \/ /\ worker[w].result # "missing"
           /\ worker' = [worker EXCEPT ![w] = [worker[w] EXCEPT !.pc = "log"]]
    BY <1>7 DEF WorkerFinish, TypeOK
  <2>6. Kept
    BY <1>0, <2>1, <2>3, <2>4, <2>5, WorkerMoves DEF InHandStates
  <2> QED
    BY <1>7, <2>2, <2>6 DEF TypeOK, WorkerFinish
<1>8. CASE WorkerLog(w)
  <2>1. /\ worker[w] \in InHandStates
        /\ worker[w].result \in {"applied", "failed"}
    BY <1>8, WorkerTyped DEF WorkerLog
  <2>2. Kept
    BY <1>0, <1>8, WorkerMoves DEF WorkerLog
  <2> QED
    BY <1>8, <2>1, <2>2 DEF TypeOK, WorkerLog, InHandStates
<1> QED
  BY <1>1, <1>2, <1>3, <1>4, <1>5, <1>6, <1>7, <1>8 DEF Worker

(* A step of an agent, faults included, keeps the types.                    *)
LEMMA AgentType ==
  ASSUME TypeOK, NEW a \in Procs,
         \/ ClaimRead(a) \/ ClaimCommit(a) \/ ClaimLost(a)
         \/ Report(a) \/ GiveUp(a) \/ ReportLost(a)
  PROVE  TypeOK'
<1> USE ConstantsOK DEF TypeOK
<1> DEFINE Busy == [pc : {"claiming", "executing", "reporting"}, job : JobId]
<1>0. agent[a] # Idle => agent[a] \in Busy
  OBVIOUS
<1>1. CASE ClaimRead(a)
  <2>1. AllJobs \subseteq JobId
    BY AllJobsType
  <2>2. agent' \in [Procs -> {Idle} \cup Busy]
    BY <1>1, <2>1 DEF ClaimRead, Claimable, Oldest
  <2>3. QED
    BY <1>1, <2>2 DEF ClaimRead
<1>2. CASE ClaimCommit(a)
  <2>1. agent[a] \in Busy
    BY <1>0, <1>2 DEF ClaimCommit, Idle
  <2>2. jobs' \in [Slots -> Seq(Job)]
    BY <1>2, <2>1, WritesKeepJobs DEF ClaimCommit, Writes
  <2>3. QED
    BY <1>2, <2>1, <2>2 DEF ClaimCommit
<1>3. CASE ClaimLost(a)
  <2>1. agent[a] \in Busy
    BY <1>0, <1>3 DEF ClaimLost, Idle
  <2>2. jobs' \in [Slots -> Seq(Job)]
    BY <1>3, <2>1, WritesKeepJobs DEF ClaimLost, Writes
  <2>3. QED
    BY <1>3, <2>1, <2>2 DEF ClaimLost
<1>4. CASE Report(a)
  <2>1. agent[a] \in Busy
    BY <1>0, <1>4 DEF Report, Idle
  <2>2. \A o \in Outcome :
          [job |-> agent[a].job, by |-> a, outcome |-> o, step |-> "job",
           seen |-> "absent", host |-> FALSE]
            \in [job : JobId, by : Procs, outcome : Outcome,
                 step : {"job", "log", "patch"}, seen : Approval,
                 host : BOOLEAN]
    BY <2>1 DEF Approval
  <2>3. results' \subseteq
          [job : JobId, by : Procs, outcome : Outcome,
           step : {"job", "log", "patch"}, seen : Approval, host : BOOLEAN]
    BY <1>4, <2>2 DEF Report
  <2>4. QED
    BY <1>4, <2>1, <2>3 DEF Report
<1>5. CASE GiveUp(a)
  BY <1>5 DEF GiveUp
<1>6. CASE ReportLost(a)
  BY <1>6 DEF ReportLost
<1>7. QED
  BY <1>1, <1>2, <1>3, <1>4, <1>5, <1>6

(* A step of the result handler keeps the types.                            *)
LEMMA HandleType == TypeOK /\ Handle => TypeOK'
<1> SUFFICES ASSUME TypeOK, NEW r \in results,
                    ResultJob(r) \/ ResultLog(r) \/ ResultPatch(r)
             PROVE  TypeOK'
  BY DEF Handle
<1> USE DEF TypeOK
<1>0. r \in [job : JobId, by : Procs, outcome : Outcome,
            step : {"job", "log", "patch"}, seen : Approval, host : BOOLEAN]
  OBVIOUS
<1>1. CASE ResultJob(r)
  <2>1. jobs' \in [Slots -> Seq(Job)]
    BY <1>0, <1>1, WritesKeepJobs DEF ResultJob, FinalStatus, Writes
  <2>2. approval[PatchOf(r.job)] \in Approval
    BY <1>0 DEF PatchOf, JobId, Slots
  <2>3. QED
    BY <1>0, <1>1, <2>1, <2>2 DEF ResultJob
<1>2. CASE ResultLog(r)
  <2>1. CASE HasLog(r.job) \/ HostLost(r)
    BY <1>0, <1>2, <2>1 DEF ResultLog, Respond
  <2>2. CASE ~(HasLog(r.job) \/ HostLost(r))
    <3>1. [r EXCEPT !.step = "patch"] \in
            [job : JobId, by : Procs, outcome : Outcome,
             step : {"job", "log", "patch"}, seen : Approval, host : BOOLEAN]
      BY <1>0
    <3>2. [job |-> r.job, result |-> LogResult(r.outcome), by |-> "agent"]
            \in [job : JobId, result : {"applied", "failed"},
                 by : {"agent", "worker"}]
      BY <1>0 DEF LogResult
    <3>3. QED
      BY <1>2, <2>2, <3>1, <3>2 DEF ResultLog
  <2>3. QED
    BY <2>1, <2>2
<1>3. CASE ResultPatch(r)
  <2>1. PatchAfter(r) \in Approval
    BY <1>0 DEF PatchAfter, PatchOf, JobId, Slots, Approval
  <2>2. QED
    BY <1>0, <1>3, <2>1 DEF ResultPatch, Respond
<1>4. QED
  BY <1>1, <1>2, <1>3

(* Reviews, inventories, edits of machines and midnight keep the types.     *)
LEMMA EnvironmentType == TypeOK /\ Environment => TypeOK'
<1> SUFFICES ASSUME TypeOK, Environment PROVE TypeOK'
  OBVIOUS
<1> USE DEF TypeOK
<1>1. ASSUME NEW p \in Patches, Review(p) \/ Discover(p) \/ Forget(p)
      PROVE  TypeOK'
  <2>1. \A v \in Approval :
          [approval EXCEPT ![p] = v] \in [Patches -> Approval]
    OBVIOUS
  <2>2. approval' \in [Patches -> Approval]
    BY <1>1, <2>1, ConstantsOK DEF Review, Discover, Forget, Approval
  <2>3. QED
    BY <1>1, <2>2 DEF Review, Discover, Forget
<1>2. ASSUME NEW m \in Machines, SetMachine(m) PROVE TypeOK'
  BY <1>2, ConstantsOK DEF SetMachine, MachineMap
<1>3. CASE NewDay
  BY <1>3, ConstantsOK DEF NewDay
<1>4. QED
  BY <1>1, <1>2, <1>3 DEF Environment

(* A crash of the API keeps the types.                                      *)
LEMMA CrashType == TypeOK /\ ApiCrash => TypeOK'
BY ConstantsOK DEF TypeOK, ApiCrash, PassStates, WorkerStates, Idle

(* Every reachable state is well typed.                                    *)
THEOREM TypeCorrect == Spec => []TypeOK
<1>1. Init => TypeOK
  BY ConstantsOK, EmptySeq
     DEF Init, TypeOK, Idle, Approval, PassStates, WorkerStates, MachineMap
<1>2. TypeOK /\ [Next]_vars => TypeOK'
  <2> SUFFICES ASSUME TypeOK, [Next]_vars PROVE TypeOK'
    OBVIOUS
  <2>1. CASE UNCHANGED vars
    BY <2>1 DEF vars, TypeOK
  <2>2. CASE Next
    BY <2>2, EnqueueType, WorkerType, AgentType, HandleType, EnvironmentType,
       CrashType DEF Next, AgentStep, Fault
  <2>3. QED
    BY <2>1, <2>2
<1>3. QED
  BY <1>1, <1>2, PTL DEF Spec


-----------------------------------------------------------------------------
(* The retry bound.                                                        *)

(* Enqueue passes do not overlap: the scheduler's own job has one instance *)
(* at a time, and nobody calls run-cycle while it runs.                    *)
SerialPasses == \A e, f \in Passes : e = f

(* Steps that create no job and decide on no new slot.                     *)
Quiet ==
  /\ JobsKept
  /\ \A e \in Passes : pass'[e] \in {pass[e], Idle}

(* An unchanged table is kept.                                             *)
LEMMA SameJobsKept == TypeOK /\ jobs' = jobs => JobsKept
<1> SUFFICES ASSUME TypeOK, jobs' = jobs PROVE JobsKept
  OBVIOUS
<1>1. \A t \in Slots : \A i \in DOMAIN jobs[t] : jobs[t][i] \in Job
  BY LenProperties, ElementOfSeq DEF TypeOK
<1> QED
  BY <1>1 DEF JobsKept, SlotKept, Keeps

(* A slot that is kept has the same jobs of a day; while it stays steady it *)
(* was steady, and its failed jobs stay failed.                            *)
LEMMA KeptSlot ==
  ASSUME NEW t \in Slots, SlotKept(t), NEW d
  PROVE  /\ JobsOn(t, d)' = JobsOn(t, d)
         /\ Steady(t, d)' =>
              /\ Steady(t, d)
              /\ \A i \in JobsOn(t, d) :
                   jobs[t][i].status = "failed" => jobs'[t][i].status = "failed"
<1>1. JobsOn(t, d)' = JobsOn(t, d)
  BY DEF SlotKept, JobsOn, Keeps
<1>2. \A i \in JobsOn(t, d) : Keeps(jobs[t][i], jobs'[t][i])
  BY DEF JobsOn, SlotKept
<1>3. ASSUME Steady(t, d)'
      PROVE  \A i \in JobsOn(t, d) : /\ jobs'[t][i].due = d
                                    /\ ~jobs'[t][i].reopened
  BY <1>1, <1>3 DEF Steady
<1> QED
  BY <1>1, <1>2, <1>3 DEF Steady, Keeps

(* The jobs of a day are a finite set, so they can be counted.              *)
LEMMA JobsOfSlotFinite ==
  ASSUME TypeOK, NEW t \in Slots, NEW S, S \subseteq DOMAIN jobs[t]
  PROVE  IsFiniteSet(S) /\ Cardinality(S) \in Nat
<1>1. DOMAIN jobs[t] = 1..Len(jobs[t]) /\ Len(jobs[t]) \in Nat
  BY LenProperties DEF TypeOK
<1>2. IsFiniteSet(1..Len(jobs[t]))
  <2>1. 1 \in Int /\ Len(jobs[t]) \in Int
    BY <1>1
  <2>2. QED
    BY <2>1, FS_Interval
<1>3. IsFiniteSet(S)
  BY <1>1, <1>2, FS_Subset
<1>4. QED
  BY <1>3, FS_CardinalityType

(* What the two bounds say of one slot and day.                            *)
Bounded(t, d) ==
  Steady(t, d) =>
    /\ Cardinality(JobsOn(t, d)) <= MaxRetries
    /\ Cardinality({i \in JobsOn(t, d) : jobs[t][i].status # "failed"}) <= 1

(* The two bounds are that.                                                *)
LEMMA BoundedIsBounds ==
  /\ RetryBound /\ NoDuplicateWork <=>
       \A t \in Slots, d \in 0..MaxDay : Bounded(t, d)
  /\ RetryBound' /\ NoDuplicateWork' <=>
       \A t \in Slots, d \in 0..MaxDay : Bounded(t, d)'
BY DEF RetryBound, NoDuplicateWork, Bounded

(* A slot that is kept stays within the bounds.                            *)
LEMMA KeptIsBounded ==
  ASSUME TypeOK, NEW t \in Slots, SlotKept(t), NEW d, Bounded(t, d)
  PROVE  Bounded(t, d)'
<1> SUFFICES ASSUME Steady(t, d)'
             PROVE  /\ Cardinality(JobsOn(t, d)') <= MaxRetries
                    /\ Cardinality({i \in JobsOn(t, d)' :
                                      jobs'[t][i].status # "failed"}) <= 1
  BY DEF Bounded
<1> DEFINE Open == {i \in JobsOn(t, d) : jobs[t][i].status # "failed"}
           Still == {i \in JobsOn(t, d)' : jobs'[t][i].status # "failed"}
<1>1. JobsOn(t, d)' = JobsOn(t, d) /\ Steady(t, d) /\ Still \subseteq Open
  BY KeptSlot
<1>2. Cardinality(Open) <= 1 /\ Cardinality(JobsOn(t, d)) <= MaxRetries
  BY <1>1 DEF Bounded
<1>3. IsFiniteSet(Open) /\ Cardinality(Open) \in Nat
  BY JobsOfSlotFinite DEF JobsOn
<1>4. Cardinality(Still) <= Cardinality(Open) /\ Cardinality(Still) \in Nat
  BY <1>1, <1>3, FS_Subset, FS_CardinalityType
<1> HIDE DEF Open, Still
<1>5. Cardinality(Still) <= 1
  BY <1>2, <1>3, <1>4
<1> QED
  BY <1>1, <1>2, <1>5 DEF Still

(* A quiet step keeps the invariant behind the retry bound.                 *)
LEMMA QuietKeepsBound == BoundInv /\ TypeOK' /\ Quiet => BoundInv'
<1> SUFFICES ASSUME BoundInv, TypeOK', Quiet PROVE BoundInv'
  OBVIOUS
<1>0. TypeOK /\ \A t \in Slots : SlotKept(t)
  BY DEF BoundInv, Quiet, JobsKept
<1>1. RetryBound' /\ NoDuplicateWork'
  BY <1>0, BoundedIsBounds, KeptIsBounded DEF BoundInv
<1>2. ASSUME NEW e \in Passes, pass'[e].pc = "slots"
      PROVE  /\ pass'[e] = pass[e] /\ pass[e].pc = "slots"
             /\ pass[e].failed \cup pass[e].chosen \subseteq Slots
  BY <1>0, <1>2 DEF Quiet, Idle, TypeOK, PassStates
<1>3. ASSUME NEW e \in Passes, pass'[e].pc = "slots",
             NEW d, d = pass'[e].due,
             NEW t \in pass'[e].failed \cup pass'[e].chosen,
             Steady(t, d)'
      PROVE  /\ \A i \in JobsOn(t, d)' : jobs'[t][i].status = "failed"
             /\ t \in pass'[e].chosen =>
                  Cardinality(JobsOn(t, d)') < MaxRetries
  <2>1. /\ d = pass[e].due /\ pass[e].pc = "slots" /\ t \in Slots
        /\ t \in pass[e].failed \cup pass[e].chosen
        /\ t \in pass'[e].chosen => t \in pass[e].chosen
    BY <1>2, <1>3
  <2>2. /\ Steady(t, d) /\ JobsOn(t, d)' = JobsOn(t, d)
        /\ \A i \in JobsOn(t, d) :
             jobs[t][i].status = "failed" => jobs'[t][i].status = "failed"
    BY <1>0, <1>3, <2>1, KeptSlot
  <2> QED
    BY <2>1, <2>2 DEF BoundInv, OverFailedJobs, PassHasRoom
<1>4. OverFailedJobs'
  BY <1>3 DEF OverFailedJobs, Steady, JobsOn
<1>5. PassHasRoom'
  <2> SUFFICES ASSUME NEW e \in Passes, pass'[e].pc = "slots",
                      NEW t \in pass'[e].chosen, Steady(t, pass[e].due)'
               PROVE  Cardinality(JobsOn(t, pass[e].due)') < MaxRetries
    BY DEF PassHasRoom
  <2>1. PICK d : d = pass'[e].due
    OBVIOUS
  <2>2. Steady(t, d)' /\ JobsOn(t, pass[e].due)' = JobsOn(t, d)'
    BY <2>1 DEF Steady, JobsOn
  <2> QED
    BY <1>3, <2>1, <2>2
<1> QED
  BY <1>1, <1>4, <1>5 DEF BoundInv

(* The fields of a pass that is asking about slots.                        *)
LEMMA AskingTyped ==
  ASSUME TypeOK, NEW e \in Passes, pass[e].pc = "slots"
  PROVE  pass[e] \in [pc : {"slots"}, start : Nat, stamp : Nat, due : Nat,
                      todo : SUBSET Slots, failed : SUBSET Slots,
                      chosen : SUBSET Slots]
BY DEF TypeOK, PassStates, Idle

(* Opening a pass and choosing its slots decides on none yet.              *)
LEMMA PassOpensKeepsBound ==
  ASSUME BoundInv, TypeOK', NEW e \in Passes, PassStart(e) \/ PassMachines(e)
  PROVE  BoundInv'
<1>1. /\ jobs' = jobs /\ TypeOK
      /\ \A f \in Passes : \/ pass'[f] = pass[f]
                           \/ pass'[f].pc = "machines"
                           \/ pass'[f].failed = {} /\ pass'[f].chosen = {}
  BY DEF PassStart, PassMachines, BoundInv, TypeOK
<1>2. RetryBound' /\ NoDuplicateWork'
  BY <1>1 DEF BoundInv, RetryBound, NoDuplicateWork, JobsOn, Steady
<1>3. ASSUME NEW f \in Passes, pass'[f].pc = "slots",
             pass'[f].failed \cup pass'[f].chosen # {}
      PROVE  pass'[f] = pass[f]
  BY <1>1, <1>3
<1>4. OverFailedJobs'
  BY <1>1, <1>3 DEF BoundInv, OverFailedJobs, JobsOn, Steady
<1>5. PassHasRoom'
  <2> SUFFICES ASSUME NEW f \in Passes, pass'[f].pc = "slots",
                      NEW t \in pass'[f].chosen, Steady(t, pass'[f].due)
               PROVE  Cardinality(JobsOn(t, pass'[f].due)) < MaxRetries
    BY <1>1 DEF PassHasRoom, JobsOn, Steady
  <2> QED
    BY <1>3 DEF BoundInv, PassHasRoom
<1> QED
  BY <1>2, <1>4, <1>5 DEF BoundInv

(* The first query finds a slot whose jobs of the day failed.              *)
LEMMA PassExistsKeepsBound ==
  ASSUME BoundInv, TypeOK', NEW e \in Passes, PassExists(e)
  PROVE  BoundInv'
<1>0. /\ jobs' = jobs /\ TypeOK /\ pass[e].pc = "slots"
      /\ pass[e].due \in Nat
  BY AskingTyped DEF PassExists, BoundInv
<1>1. PICK t \in pass[e].todo :
        pass' = [pass EXCEPT ![e].todo = @ \ {t},
                             ![e].failed = IF BlockedByJob(t, pass[e].due)
                                             THEN {} ELSE {t}]
  BY DEF PassExists
<1>2. t \in Slots
  BY <1>0, AskingTyped
<1>3. /\ pass'[e].due = pass[e].due /\ pass'[e].chosen = pass[e].chosen
      /\ pass'[e].failed \subseteq {t}
      /\ pass'[e].failed # {} => ~BlockedByJob(t, pass[e].due)
      /\ \A f \in Passes : f # e => pass'[f] = pass[f]
  BY <1>0, <1>1, AskingTyped DEF TypeOK
<1>4. RetryBound' /\ NoDuplicateWork'
  BY <1>0 DEF BoundInv, RetryBound, NoDuplicateWork, JobsOn, Steady
<1>5. PassHasRoom'
  <2> SUFFICES ASSUME NEW f \in Passes, pass'[f].pc = "slots",
                      NEW u \in pass'[f].chosen, Steady(u, pass'[f].due)
               PROVE  Cardinality(JobsOn(u, pass'[f].due)) < MaxRetries
    BY <1>0 DEF PassHasRoom, Steady, JobsOn
  <2> QED
    BY <1>0, <1>3 DEF BoundInv, PassHasRoom
<1>6. OverFailedJobs'
  <2> SUFFICES ASSUME NEW f \in Passes, pass'[f].pc = "slots",
                      NEW u \in pass'[f].failed \cup pass'[f].chosen,
                      Steady(u, pass'[f].due), NEW i \in JobsOn(u, pass'[f].due)
               PROVE  jobs[u][i].status = "failed"
    BY <1>0 DEF OverFailedJobs, Steady, JobsOn
  <2>1. CASE f = e /\ u \in pass'[e].failed
    <3>1. u = t /\ ~BlockedByJob(t, pass[e].due) /\ i \in JobsOn(t, pass[e].due)
      BY <1>3, <2>1
    <3>2. i \in JobsSince(t, pass[e].due)
      BY <1>0, <3>1 DEF JobsOn, JobsSince
    <3> QED
      BY <3>1, <3>2 DEF BlockedByJob
  <2>2. CASE ~(f = e /\ u \in pass'[e].failed)
    BY <1>0, <1>3, <2>2 DEF BoundInv, OverFailedJobs
  <2> QED
    BY <2>1, <2>2
<1> QED
  BY <1>4, <1>5, <1>6 DEF BoundInv

(* The second query chooses it while it has room.                          *)
LEMMA PassCountKeepsBound ==
  ASSUME BoundInv, TypeOK', NEW e \in Passes, PassCount(e)
  PROVE  BoundInv'
<1>0. /\ jobs' = jobs /\ TypeOK /\ pass[e].pc = "slots"
      /\ pass[e].due \in Nat
  BY AskingTyped DEF PassCount, BoundInv
<1>1. PICK t \in pass[e].failed :
        pass' = [pass EXCEPT ![e].failed = {},
                             ![e].chosen = IF Exhausted(t, pass[e].due)
                                             THEN @ ELSE @ \cup {t}]
  BY DEF PassCount
<1>2. t \in Slots
  BY <1>0, AskingTyped
<1>3. /\ pass'[e].due = pass[e].due /\ pass'[e].failed = {}
      /\ pass'[e].chosen \subseteq pass[e].chosen \cup {t}
      /\ t \in pass[e].chosen \/ ~Exhausted(t, pass[e].due)
           \/ t \notin pass'[e].chosen
      /\ \A f \in Passes : f # e => pass'[f] = pass[f]
  BY <1>0, <1>1, AskingTyped DEF TypeOK
<1>4. RetryBound' /\ NoDuplicateWork'
  BY <1>0 DEF BoundInv, RetryBound, NoDuplicateWork, JobsOn, Steady
<1>5. OverFailedJobs'
  <2> SUFFICES ASSUME NEW f \in Passes, pass'[f].pc = "slots",
                      NEW u \in pass'[f].failed \cup pass'[f].chosen,
                      Steady(u, pass'[f].due), NEW i \in JobsOn(u, pass'[f].due)
               PROVE  jobs[u][i].status = "failed"
    BY <1>0 DEF OverFailedJobs, Steady, JobsOn
  <2>1. /\ pass'[f].due = pass[f].due /\ pass[f].pc = "slots"
        /\ u \in pass[f].failed \cup pass[f].chosen
    BY <1>0, <1>1, <1>3
  <2> QED
    BY <2>1 DEF BoundInv, OverFailedJobs
<1>6. PassHasRoom'
  <2> SUFFICES ASSUME NEW f \in Passes, pass'[f].pc = "slots",
                      NEW u \in pass'[f].chosen, Steady(u, pass'[f].due)
               PROVE  Cardinality(JobsOn(u, pass'[f].due)) < MaxRetries
    BY <1>0 DEF PassHasRoom, Steady, JobsOn
  <2>1. CASE f = e /\ u \notin pass[e].chosen
    <3> DEFINE d == pass[e].due
               F == {i \in JobsSince(t, d) : jobs[t][i].status = "failed"}
    <3>1. u = t /\ ~Exhausted(t, d) /\ Steady(t, d) /\ pass'[f].due = d
      BY <1>3, <2>1
    <3>2. \A i \in JobsOn(t, d) : jobs[t][i].status = "failed"
      BY <1>0, <1>1, <3>1 DEF BoundInv, OverFailedJobs
    <3>3. JobsOn(t, d) \subseteq F
      BY <1>0, <3>2 DEF JobsOn, JobsSince
    <3>4. IsFiniteSet(F) /\ Cardinality(F) \in Nat
      BY <1>0, <1>2, JobsOfSlotFinite DEF JobsSince
    <3>5. ~(Cardinality(F) >= MaxRetries)
      BY <3>1 DEF Exhausted, FailedCount
    <3>6. /\ Cardinality(JobsOn(t, d)) <= Cardinality(F)
          /\ Cardinality(JobsOn(t, d)) \in Nat
      BY <3>3, <3>4, FS_Subset, FS_CardinalityType
    <3> HIDE DEF F, d
    <3>7. Cardinality(JobsOn(t, d)) < MaxRetries
      BY <3>4, <3>5, <3>6, ConstantsOK
    <3> QED
      BY <3>1, <3>7
  <2>2. CASE ~(f = e /\ u \notin pass[e].chosen)
    BY <1>0, <1>3, <2>2 DEF BoundInv, PassHasRoom
  <2> QED
    BY <2>1, <2>2
<1> QED
  BY <1>4, <1>5, <1>6 DEF BoundInv

(* The job that a pass appends to each slot it decided on.                 *)
LEMMA CommitAppends ==
  ASSUME TypeOK, NEW e \in Passes, PassCommit(e), NEW t \in Slots
  PROVE  /\ Len(jobs[t]) \in Nat
         /\ DOMAIN jobs[t] = 1..Len(jobs[t])
         /\ t \notin pass[e].chosen => jobs'[t] = jobs[t]
         /\ t \in pass[e].chosen =>
              /\ DOMAIN jobs'[t] = DOMAIN jobs[t] \cup {Len(jobs[t]) + 1}
              /\ \A i \in DOMAIN jobs[t] : jobs'[t][i] = jobs[t][i]
              /\ jobs'[t][Len(jobs[t]) + 1] = NewJob(pass[e])
<1>0. /\ Len(jobs[t]) \in Nat /\ DOMAIN jobs[t] = 1..Len(jobs[t])
      /\ jobs[t] \in Seq(Job)
  BY LenProperties DEF TypeOK
<1>1. CASE t \notin pass[e].chosen
  BY <1>0, <1>1 DEF PassCommit
<1>2. CASE t \in pass[e].chosen
  <2>0. pass[e].start \in Nat /\ pass[e].stamp \in Nat /\ pass[e].due \in Nat
    BY AskingTyped DEF PassCommit
  <2>1. NewJob(pass[e]) \in Job
    BY <2>0 DEF NewJob, Job
  <2>2. jobs'[t] = Append(jobs[t], NewJob(pass[e]))
    BY <1>2 DEF PassCommit
  <2>3. jobs'[t] \in Seq(Job)
    BY <1>0, <2>1, <2>2, AppendProperties
  <2>4. /\ DOMAIN jobs'[t] = 1..(Len(jobs[t]) + 1)
        /\ \A i \in 1..Len(jobs[t]) : jobs'[t][i] = jobs[t][i]
        /\ jobs'[t][Len(jobs[t]) + 1] = NewJob(pass[e])
    BY <1>0, <2>1, <2>2, <2>3, AppendProperties, LenProperties
  <2>5. 1..(Len(jobs[t]) + 1) = (1..Len(jobs[t])) \cup {Len(jobs[t]) + 1}
    BY <1>0
  <2> QED
    BY <1>0, <1>2, <2>4, <2>5
<1> QED
  BY <1>1, <1>2

(* The commit of the only pass uses up the room it saw, one job for each    *)
(* slot it decided on; dated back over midnight, the slot's day is not      *)
(* steady.                                                                 *)
LEMMA PassCommitKeepsBound ==
  ASSUME SerialPasses, BoundInv, TypeOK', NEW e \in Passes, PassCommit(e)
  PROVE  BoundInv'
<1>0. /\ TypeOK /\ pass[e].pc = "slots" /\ pass[e].start \in Nat
      /\ pass[e].due \in Nat /\ \A f \in Passes : pass'[f].pc = "idle"
  BY AskingTyped DEF PassCommit, BoundInv, SerialPasses, Idle, TypeOK
<1>1. OverFailedJobs' /\ PassHasRoom'
  BY <1>0 DEF OverFailedJobs, PassHasRoom
<1>2. ASSUME NEW t \in Slots, NEW d \in 0..MaxDay PROVE Bounded(t, d)'
  <2> DEFINE n == Len(jobs[t]) + 1
             new == NewJob(pass[e])
  <2>0. Bounded(t, d)
    BY BoundedIsBounds DEF BoundInv
  <2>1. CASE t \notin pass[e].chosen
    <3>1. SlotKept(t)
      <4>1. jobs'[t] = jobs[t]
        BY <1>0, <2>1, CommitAppends
      <4>2. \A i \in DOMAIN jobs[t] : jobs[t][i] \in Job
        BY <1>0, LenProperties, ElementOfSeq DEF TypeOK
      <4> QED
        BY <4>1, <4>2 DEF SlotKept, Keeps
    <3> QED
      BY <1>0, <2>0, <3>1, KeptIsBounded
  <2>2. CASE t \in pass[e].chosen
    <3>1. /\ n \notin DOMAIN jobs[t]
          /\ DOMAIN jobs'[t] = DOMAIN jobs[t] \cup {n}
          /\ \A i \in DOMAIN jobs[t] : jobs'[t][i] = jobs[t][i]
          /\ jobs'[t][n] = new
      BY <1>0, <2>2, CommitAppends
    <3>2. new.day = pass[e].start /\ new.due = pass[e].due
      BY DEF NewJob
    <3> HIDE DEF n, new
    <3>3. CASE d # pass[e].start
      <4>1. JobsOn(t, d)' = JobsOn(t, d)
        BY <3>1, <3>2, <3>3 DEF JobsOn
      <4>2. Steady(t, d)' <=> Steady(t, d)
        BY <3>1, <4>1 DEF Steady, JobsOn
      <4>3. {i \in JobsOn(t, d)' : jobs'[t][i].status # "failed"}
              = {i \in JobsOn(t, d) : jobs[t][i].status # "failed"}
        BY <3>1, <4>1 DEF JobsOn
      <4> QED
        BY <2>0, <4>1, <4>2, <4>3 DEF Bounded
    <3>4. CASE d = pass[e].start /\ d # pass[e].due
      <4>1. n \in JobsOn(t, d)' /\ jobs'[t][n].due # d
        BY <3>1, <3>2, <3>4 DEF JobsOn
      <4>2. ~Steady(t, d)'
        BY <4>1 DEF Steady
      <4> QED
        BY <4>2 DEF Bounded
    <3>5. CASE d = pass[e].start /\ d = pass[e].due
      <4> SUFFICES ASSUME Steady(t, d)'
                   PROVE  /\ Cardinality(JobsOn(t, d)') <= MaxRetries
                          /\ Cardinality({i \in JobsOn(t, d)' :
                               jobs'[t][i].status # "failed"}) <= 1
        BY DEF Bounded
      <4>1. JobsOn(t, d)' = JobsOn(t, d) \cup {n} /\ n \notin JobsOn(t, d)
        BY <3>1, <3>2, <3>5 DEF JobsOn
      <4>2. Steady(t, d)
        BY <3>1, <4>1 DEF Steady, JobsOn
      <4>3. \A i \in JobsOn(t, d) : jobs[t][i].status = "failed"
        BY <1>0, <2>2, <3>5, <4>2 DEF BoundInv, OverFailedJobs
      <4>4. Cardinality(JobsOn(t, d)) < MaxRetries
        BY <1>0, <2>2, <3>5, <4>2 DEF BoundInv, PassHasRoom
      <4>5. IsFiniteSet(JobsOn(t, d)) /\ Cardinality(JobsOn(t, d)) \in Nat
        BY <1>0, JobsOfSlotFinite DEF JobsOn
      <4>6. Cardinality(JobsOn(t, d)') = Cardinality(JobsOn(t, d)) + 1
        BY <4>1, <4>5, FS_AddElement
      <4>7. {i \in JobsOn(t, d)' : jobs'[t][i].status # "failed"} \subseteq {n}
        BY <3>1, <4>1, <4>3 DEF JobsOn
      <4>8. Cardinality({n}) = 1 /\ IsFiniteSet({n})
        BY FS_Singleton
      <4>9. Cardinality({i \in JobsOn(t, d)' :
                           jobs'[t][i].status # "failed"}) <= 1
        BY <4>7, <4>8, FS_Subset
      <4> QED
        BY <4>4, <4>5, <4>6, <4>9, ConstantsOK
    <3> QED
      BY <3>3, <3>4, <3>5
  <2> QED
    BY <2>1, <2>2
<1> QED
  BY <1>1, <1>2, BoundedIsBounds DEF BoundInv

(* Every other step is quiet.                                              *)
LEMMA WorkerIsQuiet == ASSUME TypeOK, NEW w \in Workers, Worker(w) PROVE Quiet
<1>1. CASE jobs' = jobs
  <2>1. pass' = pass
    BY DEF Worker, WorkerMachines, WorkerPatches, WorkerPending, WorkerRunning,
           WorkerStart, WorkerHost, WorkerFinish, WorkerLog
  <2> QED
    BY <1>1, <2>1, SameJobsKept DEF Quiet
<1>2. CASE WorkerStart(w)
  <2>1. /\ worker[w].job \in JobId
        /\ Writes(worker[w].job, "running", FALSE, TRUE)
    BY <1>2, WorkerTyped DEF WorkerStart, Writes
  <2> QED
    BY <1>2, <2>1, WritesKeepJobs DEF WorkerStart, Quiet, TypeOK
<1>3. CASE WorkerFinish(w)
  <2>1. /\ worker[w].job \in JobId /\ worker[w].loaded \in BOOLEAN
        /\ Writes(worker[w].job, FinalStatus(worker[w].result), FALSE,
                  worker[w].loaded)
        /\ FinalStatus(worker[w].result) \in {"completed", "failed"}
    BY <1>3, WorkerTyped DEF WorkerFinish, Writes, FinalStatus, InHandStates
  <2> QED
    BY <1>3, <2>1, WritesKeepJobs DEF WorkerFinish, Quiet, TypeOK
<1>4. QED
  BY <1>1, <1>2, <1>3 DEF Worker, WorkerMachines, WorkerPatches, WorkerPending,
     WorkerRunning, WorkerHost, WorkerLog

(* Agents create no job.                                                    *)
LEMMA AgentIsQuiet ==
  ASSUME TypeOK, NEW a \in Procs,
         \/ ClaimRead(a) \/ ClaimCommit(a) \/ ClaimLost(a)
         \/ Report(a) \/ GiveUp(a) \/ ReportLost(a)
  PROVE  Quiet
<1>1. CASE ClaimRead(a) \/ Report(a) \/ GiveUp(a) \/ ReportLost(a)
  BY <1>1, SameJobsKept DEF ClaimRead, Report, GiveUp, ReportLost, Quiet
<1>2. CASE ClaimCommit(a) \/ ClaimLost(a)
  <2>1. /\ agent[a].job \in JobId
        /\ Writes(agent[a].job, "running", TRUE, FALSE)
    BY <1>2 DEF TypeOK, ClaimCommit, ClaimLost, Idle, Writes
  <2>2. QED
    BY <1>2, <2>1, WritesKeepJobs DEF ClaimCommit, ClaimLost, Quiet, TypeOK
<1>3. QED
  BY <1>1, <1>2

(* Results create no job.                                                   *)
LEMMA HandleIsQuiet == TypeOK /\ Handle => Quiet
<1> SUFFICES ASSUME TypeOK, NEW r \in results,
                    ResultJob(r) \/ ResultLog(r) \/ ResultPatch(r)
             PROVE  Quiet
  BY DEF Handle
<1>1. CASE ResultJob(r)
  <2>1. /\ r.job \in JobId
        /\ Writes(r.job, FinalStatus(r.outcome), FALSE, FALSE)
        /\ FinalStatus(r.outcome) \in {"completed", "failed"}
    BY <1>1 DEF TypeOK, ResultJob, Writes, FinalStatus
  <2> QED
    BY <1>1, <2>1, WritesKeepJobs DEF ResultJob, Quiet, TypeOK
<1>2. CASE ResultLog(r) \/ ResultPatch(r)
  BY <1>2, SameJobsKept DEF ResultLog, ResultPatch, Quiet
<1>3. QED
  BY <1>1, <1>2

(* The environment creates no job, and at midnight no job changes its day.  *)
LEMMA EnvironmentIsQuiet == TypeOK /\ Environment => Quiet
BY SameJobsKept
   DEF Environment, Review, Discover, Forget, SetMachine, NewDay, Quiet

(* A crash drops undecided passes and creates no job.                       *)
LEMMA CrashIsQuiet == TypeOK /\ ApiCrash => Quiet
BY SameJobsKept DEF ApiCrash, Quiet

(* The decisions of a pass fit into the room that is left on the day it     *)
(* decides for, and rest on failed jobs only: the inductive invariant       *)
(* behind the two bounds, when passes do not overlap.                       *)
THEOREM BoundInvHolds ==
  ASSUME SerialPasses PROVE Spec => []BoundInv
<1>1. Init /\ TypeOK => BoundInv
  <2> SUFFICES ASSUME Init, TypeOK PROVE BoundInv
    OBVIOUS
  <2>1. \A t \in Slots : DOMAIN jobs[t] = {}
    BY EmptySeq, LenProperties DEF Init
  <2>2. ASSUME NEW t \in Slots, NEW d \in 0..MaxDay PROVE Bounded(t, d)
    <3>1. /\ JobsOn(t, d) = {}
          /\ {i \in JobsOn(t, d) : jobs[t][i].status # "failed"} = {}
      BY <2>1 DEF JobsOn
    <3>2. Cardinality({}) = 0
      BY FS_EmptySet
    <3> QED
      BY <3>1, <3>2, ConstantsOK DEF Bounded
  <2>3. OverFailedJobs /\ PassHasRoom
    BY DEF Init, OverFailedJobs, PassHasRoom, Idle
  <2> QED
    BY <2>2, <2>3, BoundedIsBounds DEF BoundInv
<1>2. BoundInv /\ TypeOK' /\ [Next]_vars => BoundInv'
  <2> SUFFICES ASSUME BoundInv, TypeOK', [Next]_vars PROVE BoundInv'
    OBVIOUS
  <2>0. TypeOK
    BY DEF BoundInv
  <2>1. ASSUME NEW e \in Passes, Pass(e) PROVE BoundInv'
    BY <2>1, PassOpensKeepsBound, PassExistsKeepsBound, PassCountKeepsBound,
       PassCommitKeepsBound DEF Pass
  <2>2. CASE UNCHANGED vars
    BY <2>0, <2>2, SameJobsKept, QuietKeepsBound DEF vars, Quiet
  <2>3. CASE Quiet
    BY <2>3, QuietKeepsBound
  <2> QED
    BY <2>0, <2>1, <2>2, <2>3, WorkerIsQuiet, AgentIsQuiet, HandleIsQuiet,
       EnvironmentIsQuiet, CrashIsQuiet DEF Next, Enqueue, AgentStep, Fault
<1>3. QED
  BY <1>1, <1>2, TypeCorrect, PTL DEF Spec

(* However results, worker ticks, faults, clones and reviews interleave,   *)
(* also over midnight, a slot gets at most MaxRetries jobs of a day, unless *)
(* a failed job of that day came back or a job was dated back, provided     *)
(* that enqueue passes do not overlap.                                     *)
THEOREM RetryBoundHolds ==
  ASSUME SerialPasses PROVE Spec => []RetryBound
BY BoundInvHolds, PTL DEF BoundInv

(* Under the same condition at most one of those jobs did not fail.        *)
THEOREM NoDuplicateHolds ==
  ASSUME SerialPasses PROVE Spec => []NoDuplicateWork
BY BoundInvHolds, PTL DEF BoundInv

-----------------------------------------------------------------------------
(* The statuses of the jobs.  One worker has one job in hand.  Where every *)
(* host runs one agent process, a job that only one of worker and agent    *)
(* takes is held by that one until its verdict, which is final and logged. *)

(* A job of the table is a slot and an index of that slot's sequence.      *)
LEMMA JobNames ==
  ASSUME TypeOK
  PROVE  /\ \A j \in AllJobs : /\ j \in JobId /\ j[1] \in Slots
                               /\ j[2] \in DOMAIN jobs[j[1]]
                               /\ j = <<j[1], j[2]>>
                               /\ JobOf(j) \in Job
         /\ \A t \in Slots : \A i \in DOMAIN jobs[t] : <<t, i>> \in AllJobs
<1>1. \A t \in Slots : \A i \in DOMAIN jobs[t] :
        i \in Nat \ {0} /\ jobs[t][i] \in Job
  BY LenProperties, ElementOfSeq DEF TypeOK
<1>2. \A t \in Slots : \A i \in DOMAIN jobs[t] : <<t, i>> \in AllJobs
  BY DEF AllJobs
<1>3. ASSUME NEW j \in AllJobs
      PROVE  /\ j \in JobId /\ j[1] \in Slots
             /\ j[2] \in DOMAIN jobs[j[1]]
             /\ j = <<j[1], j[2]>>
             /\ JobOf(j) \in Job
  <2>1. PICK t \in Slots : \E i \in DOMAIN jobs[t] : j = <<t, i>>
    BY DEF AllJobs
  <2>2. PICK i \in DOMAIN jobs[t] : j = <<t, i>>
    BY <2>1
  <2> QED
    BY <1>1, <2>2 DEF JobId, JobOf
<1> QED
  BY <1>2, <1>3

(* What a write of one job does to the table.                              *)
Rewrites(j, new) ==
  /\ AllJobs' = AllJobs
  /\ JobOf(j)' = new
  /\ \A k \in AllJobs : k # j => JobOf(k)' = JobOf(k)

(* A write of a job of the table is such a rewrite.                        *)
LEMMA WriteRewrites ==
  ASSUME TypeOK, NEW j \in AllJobs, NEW new, WriteJob(j, new)
  PROVE  Rewrites(j, new)
<1> DEFINE t == j[1]
           i == j[2]
<1>1. /\ t \in Slots /\ i \in DOMAIN jobs[t] /\ DOMAIN jobs = Slots
      /\ j = <<t, i>>
  BY JobNames DEF TypeOK
<1>2. jobs' = [jobs EXCEPT ![t][i] = new]
  BY DEF WriteJob
<1> HIDE DEF t, i
<1>3. /\ DOMAIN jobs'[t] = DOMAIN jobs[t]
      /\ jobs'[t][i] = new
      /\ \A k \in DOMAIN jobs[t] : k # i => jobs'[t][k] = jobs[t][k]
      /\ \A u \in Slots : u # t => jobs'[u] = jobs[u]
  BY <1>1, <1>2
<1>4. \A u \in Slots : DOMAIN jobs'[u] = DOMAIN jobs[u]
  BY <1>3
<1>5. AllJobs' = AllJobs
  BY <1>4 DEF AllJobs
<1>6. JobOf(j)' = new
  BY <1>3 DEF JobOf, t, i
<1>7. ASSUME NEW k \in AllJobs, k # j PROVE JobOf(k)' = JobOf(k)
  <2>1. /\ k[1] \in Slots /\ k[2] \in DOMAIN jobs[k[1]]
        /\ k = <<k[1], k[2]>>
    BY JobNames
  <2>2. k[1] # t \/ k[2] # i
    BY <1>1, <1>7, <2>1
  <2> QED
    BY <1>3, <2>1, <2>2 DEF JobOf
<1> QED
  BY <1>5, <1>6, <1>7 DEF Rewrites

(* Every write of the code is one that raises flags and sets the status.   *)
LEMMA WritesRewrite ==
  ASSUME TypeOK, NEW j \in AllJobs,
         NEW s \in {"running", "completed", "failed"},
         NEW c \in BOOLEAN, NEW k \in BOOLEAN, Writes(j, s, c, k)
  PROVE  /\ AllJobs' = AllJobs
         /\ JobOf(j)'.status = s
         /\ JobOf(j)'.claimed <=> JobOf(j).claimed \/ c
         /\ JobOf(j)'.taken <=> JobOf(j).taken \/ k
         /\ \A i \in AllJobs : i # j => JobOf(i)' = JobOf(i)
<1>1. JobOf(j) \in Job
  BY JobNames
<1>2. PICK new : WriteJob(j, new) /\ RowAfter(JobOf(j), new, s, c, k)
  BY <1>1, WritesRow
<1> QED
  BY <1>2, WriteRewrites DEF RowAfter, Rewrites

(* A pass adds pending jobs that nobody took and keeps the others.         *)
LEMMA CommitAdds ==
  ASSUME TypeOK, NEW e \in Passes, PassCommit(e)
  PROVE  /\ AllJobs \subseteq AllJobs'
         /\ \A j \in AllJobs : JobOf(j)' = JobOf(j)
         /\ \A j \in AllJobs' \ AllJobs :
              /\ JobOf(j)'.status = "pending"
              /\ ~JobOf(j)'.claimed /\ ~JobOf(j)'.taken
<1>1. ASSUME NEW t \in Slots
      PROVE  /\ DOMAIN jobs[t] \subseteq DOMAIN jobs'[t]
             /\ \A i \in DOMAIN jobs[t] : jobs'[t][i] = jobs[t][i]
             /\ \A i \in DOMAIN jobs'[t] \ DOMAIN jobs[t] :
                  jobs'[t][i] = NewJob(pass[e])
  BY CommitAppends
<1>2. AllJobs \subseteq AllJobs'
  BY <1>1 DEF AllJobs
<1>3. \A j \in AllJobs : JobOf(j)' = JobOf(j)
  BY <1>1, JobNames DEF JobOf
<1>4. ASSUME NEW j \in AllJobs', j \notin AllJobs
      PROVE  JobOf(j)' = NewJob(pass[e])
  <2>1. PICK t \in Slots : \E i \in DOMAIN jobs'[t] : j = <<t, i>>
    BY <1>4 DEF AllJobs
  <2>2. PICK i \in DOMAIN jobs'[t] : j = <<t, i>>
    BY <2>1
  <2>3. i \notin DOMAIN jobs[t]
    BY <1>4, <2>2 DEF AllJobs
  <2> QED
    BY <1>1, <2>2, <2>3 DEF JobOf
<1> QED
  BY <1>2, <1>3, <1>4 DEF NewJob

(* The worker's two writes of a job.                                       *)
LEMMA WorkerWritesRow ==
  ASSUME TypeOK, NEW w \in Workers, WorkerStart(w) \/ WorkerFinish(w)
  PROVE  \E s \in {"running", "completed", "failed"}, k \in BOOLEAN :
           /\ Writes(worker[w].job, s, FALSE, k)
           /\ WorkerStart(w) => s = "running" /\ k
           /\ WorkerFinish(w) => /\ s = FinalStatus(worker[w].result)
                                 /\ s # "running"
                                 /\ k = worker[w].loaded
<1>1. CASE WorkerStart(w)
  <2>1. Writes(worker[w].job, "running", FALSE, TRUE) /\ ~WorkerFinish(w)
    BY <1>1 DEF WorkerStart, WorkerFinish, Writes
  <2> QED
    BY <2>1
<1>2. CASE WorkerFinish(w)
  <2>1. /\ worker[w].loaded \in BOOLEAN
        /\ FinalStatus(worker[w].result) \in {"completed", "failed"}
        /\ ~WorkerStart(w)
        /\ Writes(worker[w].job, FinalStatus(worker[w].result), FALSE,
                  worker[w].loaded)
    BY <1>2, WorkerTyped
       DEF WorkerFinish, WorkerStart, FinalStatus, InHandStates, Writes
  <2> QED
    BY <2>1
<1> QED
  BY <1>1, <1>2

(* A claim's write.                                                        *)
LEMMA ClaimWritesRow ==
  ASSUME NEW a \in Procs, ClaimCommit(a) \/ ClaimLost(a)
  PROVE  Writes(agent[a].job, "running", TRUE, FALSE)
BY DEF ClaimCommit, ClaimLost, Writes

(* A result's write.                                                       *)
LEMMA ResultWritesRow ==
  ASSUME NEW r \in results, ResultJob(r)
  PROVE  /\ Writes(r.job, FinalStatus(r.outcome), FALSE, FALSE)
         /\ FinalStatus(r.outcome) \in {"completed", "failed"}
BY DEF ResultJob, Writes, FinalStatus

(* Which steps write the table of jobs.                                    *)
LEMMA JobWriters ==
  ASSUME [Next]_vars
  PROVE  \/ jobs' = jobs
         \/ \E e \in Passes : PassCommit(e)
         \/ \E w \in Workers : WorkerStart(w) \/ WorkerFinish(w)
         \/ \E a \in Procs : ClaimCommit(a) \/ ClaimLost(a)
         \/ \E r \in results : ResultJob(r)
<1>1. ASSUME NEW w \in Workers, Worker(w)
      PROVE  jobs' = jobs \/ WorkerStart(w) \/ WorkerFinish(w)
  BY <1>1 DEF Worker, WorkerMachines, WorkerPatches, WorkerPending,
              WorkerRunning, WorkerHost, WorkerLog
<1>2. CASE Enqueue \/ Handle \/ Environment \/ UNCHANGED vars
  BY <1>2 DEF Enqueue, Pass, PassStart, PassMachines, PassExists, PassCount,
              Handle, ResultLog, ResultPatch, Environment, Review, Discover,
              Forget, SetMachine, NewDay, vars
<1>3. CASE Fault \/ \E a \in Procs : AgentStep(a)
  BY <1>3 DEF AgentStep, ClaimRead, Report, Fault, GiveUp, ReportLost, ApiCrash
<1> QED
  BY <1>1, <1>2, <1>3 DEF Next

(* Which steps change what agents, results, the worker and the log hold.   *)
LEMMA Movers ==
  ASSUME [Next]_vars
  PROVE  /\ \/ agent' = agent
            \/ \E a \in Procs : \/ ClaimRead(a) \/ ClaimCommit(a) \/ Report(a)
                                \/ ClaimLost(a) \/ GiveUp(a) \/ ReportLost(a)
            \/ \E r \in results : Respond(r)
            \/ ApiCrash
         /\ \/ results' = results
            \/ \E a \in Procs : Report(a)
            \/ \E r \in results : ResultJob(r) \/ ResultLog(r) \/ ResultPatch(r)
            \/ ApiCrash
         /\ worker' = worker \/ (\E w \in Workers : Worker(w)) \/ ApiCrash
         /\ \/ logs' = logs
            \/ \E w \in Workers : WorkerLog(w)
            \/ \E r \in results : ResultLog(r)
<1>1. ASSUME NEW w \in Workers, Worker(w)
      PROVE  /\ agent' = agent /\ results' = results
             /\ logs' = logs \/ WorkerLog(w)
  BY <1>1 DEF Worker, WorkerMachines, WorkerPatches, WorkerPending,
              WorkerRunning, WorkerStart, WorkerHost, WorkerFinish, WorkerLog
<1>2. CASE Enqueue \/ Environment \/ UNCHANGED vars
  BY <1>2 DEF Enqueue, Pass, PassStart, PassMachines, PassExists, PassCount,
              PassCommit, Environment, Review, Discover, Forget, SetMachine,
              NewDay, vars
<1>3. CASE Fault \/ \E a \in Procs : AgentStep(a)
  BY <1>3 DEF AgentStep, ClaimRead, ClaimCommit, Report, Fault, ClaimLost,
              GiveUp, ReportLost, ApiCrash
<1>4. CASE Handle
  BY <1>4 DEF Handle, ResultJob, ResultLog, ResultPatch
<1> QED
  BY <1>1, <1>2, <1>3, <1>4 DEF Next

(* What an agent process holds, by the point it is at.                     *)
LEMMA AgentTyped ==
  ASSUME TypeOK, NEW a \in Procs
  PROVE  /\ agent[a].pc \in {"idle", "claiming", "executing", "reporting"}
         /\ agent[a] = Idle <=> agent[a].pc = "idle"
         /\ agent[a] # Idle =>
              agent[a] \in [pc : {"claiming", "executing", "reporting"},
                            job : JobId]
<1>1. \/ agent[a] = Idle
      \/ agent[a] \in [pc : {"claiming", "executing", "reporting"},
                       job : JobId]
  BY DEF TypeOK
<1> QED
  BY <1>1 DEF Idle

-----------------------------------------------------------------------------
(* What agents, results, the worker and the log name is a job of the table. *)
WorkerNames(w) ==
  /\ worker[w].pc \in {"start", "finish", "write", "log"} =>
       worker[w].job \in AllJobs
  /\ worker[w].pc = "running" => worker[w].pending \subseteq AllJobs
Named ==
  /\ \A a \in Procs : agent[a] # Idle => agent[a].job \in AllJobs
  /\ \A r \in results : r.job \in AllJobs
  /\ \A w \in Workers : WorkerNames(w)
  /\ \A l \in logs : l.job \in AllJobs

(* No step removes a job.                                                  *)
LEMMA JobsStay ==
  ASSUME TypeOK, Named, [Next]_vars PROVE AllJobs \subseteq AllJobs'
<1>1. CASE jobs' = jobs
  BY <1>1 DEF AllJobs
<1>2. ASSUME NEW e \in Passes, PassCommit(e) PROVE AllJobs \subseteq AllJobs'
  BY <1>2, CommitAdds
<1>3. ASSUME NEW w \in Workers, WorkerStart(w) \/ WorkerFinish(w)
      PROVE  AllJobs \subseteq AllJobs'
  <2>1. worker[w].job \in AllJobs
    BY <1>3 DEF Named, WorkerNames, WorkerStart, WorkerFinish
  <2> QED
    BY <1>3, <2>1, WorkerWritesRow, WritesRewrite
<1>4. ASSUME NEW a \in Procs, ClaimCommit(a) \/ ClaimLost(a)
      PROVE  AllJobs \subseteq AllJobs'
  <2>1. agent[a].job \in AllJobs
    BY <1>4, AgentTyped DEF Named, ClaimCommit, ClaimLost
  <2> QED
    BY <1>4, <2>1, ClaimWritesRow, WritesRewrite
<1>5. ASSUME NEW r \in results, ResultJob(r) PROVE AllJobs \subseteq AllJobs'
  BY <1>5, ResultWritesRow, WritesRewrite DEF Named
<1> QED
  BY <1>1, <1>2, <1>3, <1>4, <1>5, JobWriters

(* What the worker names after one of its steps.                           *)
LEMMA WorkerStepNames ==
  ASSUME TypeOK, Named, NEW w \in Workers, Worker(w), NEW v \in Workers
  PROVE  /\ worker'[v].pc \in {"start", "finish", "write", "log"} =>
              worker'[v].job \in AllJobs
         /\ worker'[v].pc = "running" => worker'[v].pending \subseteq AllJobs
<1>0. DOMAIN worker = Workers /\ WorkerNames(v) /\ WorkerNames(w)
  BY DEF TypeOK, Named
<1>1. CASE v # w
  <2>1. worker'[v] = worker[v]
    BY <1>0, <1>1 DEF Worker, WorkerMachines, WorkerPatches, WorkerPending,
              WorkerRunning, WorkerStart, WorkerHost, WorkerFinish, WorkerLog
  <2> QED
    BY <1>0, <2>1 DEF WorkerNames
<1>2. CASE v = w /\ (WorkerMachines(w) \/ WorkerPatches(w) \/ WorkerPending(w))
  BY <1>0, <1>2 DEF WorkerMachines, WorkerPatches, WorkerPending, WithStatus
<1>3. CASE v = w /\ WorkerRunning(w)
  <2>1. worker[w].pending \subseteq AllJobs
    BY <1>0, <1>3 DEF WorkerRunning, WorkerNames
  <2>2. ASSUME NEW j \in BackendJobs(worker[w]),
               worker' = [worker EXCEPT ![w] =
                 [pc |-> "finish", job |-> j,
                  result |-> BackendResult(worker[w], j),
                  loaded |-> Loaded(worker[w], j)]]
        PROVE  worker'[w].pc = "finish" /\ worker'[w].job \in AllJobs
    BY <1>0, <2>2 DEF BackendJobs, WithStatus
  <2>3. ASSUME NEW j \in Oldest(Startable(worker[w])),
               worker' = [worker EXCEPT ![w] = [pc |-> "start", job |-> j]]
        PROVE  worker'[w].pc = "start" /\ worker'[w].job \in AllJobs
    BY <1>0, <2>1, <2>3 DEF Oldest, Startable
  <2>4. worker' = [worker EXCEPT ![w] = Idle] => worker'[w].pc = "idle"
    BY <1>0 DEF Idle
  <2>5. \/ worker'[w].pc \in {"finish", "start"} /\ worker'[w].job \in AllJobs
        \/ worker'[w].pc = "idle"
    BY <1>3, <2>2, <2>3, <2>4 DEF WorkerRunning
  <2> QED
    BY <1>3, <2>5
<1>4. CASE v = w /\ (WorkerStart(w) \/ WorkerLog(w))
  <2>1. worker'[v] = Idle
    BY <1>0, <1>4 DEF WorkerStart, WorkerLog
  <2> QED
    BY <2>1 DEF Idle
<1>5. CASE v = w /\ (WorkerHost(w) \/ WorkerFinish(w))
  <2>1. worker[w] \in InHandStates
    BY <1>5, WorkerTyped DEF WorkerHost, WorkerFinish
  <2>2. worker[w].job \in AllJobs
    BY <1>0, <2>1 DEF WorkerNames, InHandStates
  <2>3. \/ worker'[w] = Idle
        \/ \E c \in {"write", "log"} : worker'[w] = [worker[w] EXCEPT !.pc = c]
    BY <1>0, <1>5 DEF WorkerHost, WorkerFinish
  <2> QED
    BY <1>5, <2>1, <2>2, <2>3 DEF InHandStates, Idle
<1> QED
  BY <1>1, <1>2, <1>3, <1>4, <1>5 DEF Worker

(* What an agent names after one of its steps.                             *)
LEMMA AgentStepNames ==
  ASSUME TypeOK, Named, NEW b \in Procs,
         \/ ClaimRead(b) \/ ClaimCommit(b) \/ ClaimLost(b)
         \/ Report(b) \/ GiveUp(b) \/ ReportLost(b),
         NEW a \in Procs, agent'[a] # Idle
  PROVE  agent'[a].job \in AllJobs
<1>0. DOMAIN agent = Procs /\ (agent[a] # Idle => agent[a].job \in AllJobs)
  BY DEF TypeOK, Named
<1>1. CASE a # b
  BY <1>0, <1>1
     DEF ClaimRead, ClaimCommit, ClaimLost, Report, GiveUp, ReportLost
<1>2. CASE a = b /\ ClaimRead(b)
  <2>1. PICK j \in AllJobs : agent'[a] = [pc |-> "claiming", job |-> j]
    BY <1>0, <1>2 DEF ClaimRead, Oldest, Claimable
  <2> QED
    BY <2>1
<1>3. CASE a = b /\ (ClaimLost(b) \/ GiveUp(b) \/ ReportLost(b))
  BY <1>0, <1>3 DEF ClaimLost, GiveUp, ReportLost
<1>4. CASE a = b /\ (ClaimCommit(b) \/ Report(b))
  <2>1. agent[a] # Idle
    BY <1>4 DEF ClaimCommit, Report, Idle
  <2>2. agent[a] \in [pc : {"claiming", "executing", "reporting"},
                      job : JobId]
    BY <2>1, AgentTyped
  <2> QED
    BY <1>0, <1>4, <2>1, <2>2 DEF ClaimCommit, Report
<1> QED
  BY <1>1, <1>2, <1>3, <1>4

(* Every step keeps the names good.                                        *)
LEMMA NamedStep ==
  ASSUME TypeOK, Named, [Next]_vars PROVE Named'
<1>0. /\ AllJobs \subseteq AllJobs'
      /\ DOMAIN agent = Procs /\ DOMAIN worker = Workers
      /\ \A r \in results : r.by \in Procs
  BY JobsStay DEF TypeOK
<1>1. ASSUME NEW a \in Procs, agent'[a] # Idle
      PROVE  agent'[a].job \in AllJobs'
  <2>1. CASE (\E r \in results : Respond(r)) \/ ApiCrash \/ agent' = agent
    <3>1. agent'[a] = agent[a]
      BY <1>0, <1>1, <2>1 DEF Respond, ApiCrash
    <3> QED
      BY <1>0, <1>1, <3>1 DEF Named
  <2> QED
    BY <1>0, <1>1, <2>1, AgentStepNames, Movers
<1>2. ASSUME NEW r \in results' PROVE r.job \in AllJobs'
  <2>1. ASSUME NEW a \in Procs, Report(a)
        PROVE  r \in results \/ (r.job = agent[a].job /\ agent[a] # Idle)
    BY <2>1 DEF Report, Idle
  <2>2. ASSUME NEW q \in results,
               ResultJob(q) \/ ResultLog(q) \/ ResultPatch(q)
        PROVE  \E p \in results : r.job = p.job
    <3>1. q \in [job : JobId, by : Procs, outcome : Outcome,
                 step : {"job", "log", "patch"}, seen : Approval,
                 host : BOOLEAN]
      BY DEF TypeOK
    <3> QED
      BY <2>2, <3>1 DEF ResultJob, ResultLog, ResultPatch, Respond
  <2> QED
    BY <1>0, <1>2, <2>1, <2>2, Movers DEF Named, ApiCrash
<1>3. ASSUME NEW w \in Workers PROVE WorkerNames(w)'
  <2>1. /\ worker'[w].pc \in {"start", "finish", "write", "log"} =>
             worker'[w].job \in AllJobs
        /\ worker'[w].pc = "running" => worker'[w].pending \subseteq AllJobs
    <3>1. CASE worker' = worker
      BY <3>1 DEF Named, WorkerNames
    <3>2. CASE ApiCrash
      BY <3>2 DEF ApiCrash, Idle
    <3> QED
      BY <3>1, <3>2, WorkerStepNames, Movers
  <2> QED
    BY <1>0, <2>1 DEF WorkerNames
<1>4. ASSUME NEW l \in logs' PROVE l.job \in AllJobs'
  <2>1. ASSUME NEW w \in Workers, WorkerLog(w) PROVE l.job \in AllJobs
    <3>1. l \in logs \/ l.job = worker[w].job
      BY <2>1 DEF WorkerLog
    <3> QED
      BY <2>1, <3>1 DEF WorkerLog, Named, WorkerNames
  <2>2. ASSUME NEW r \in results, ResultLog(r) PROVE l.job \in AllJobs
    <3>1. l \in logs \/ l.job = r.job
      BY <2>2 DEF ResultLog
    <3> QED
      BY <3>1 DEF Named
  <2> QED
    BY <1>0, <2>1, <2>2, Movers DEF Named
<1> QED
  BY <1>1, <1>2, <1>3, <1>4 DEF Named

-----------------------------------------------------------------------------
(* The worker.  Its ticks do not overlap.                                  *)
SerialTicks == \A v, w \in Workers : v = w

(* Jobs in the worker's hand.  It starts one only when there is none.      *)
InHand == {j \in AllJobs : JobOf(j).status = "running" /\ ~JobOf(j).claimed}
HandInv ==
  /\ TypeOK /\ Named
  /\ \A j, k \in InHand : j = k
  /\ \A w \in Workers : worker[w].pc = "start" => InHand = {}

(* A step other than the start of a job puts none into the worker's hand.  *)
LEMMA NoneTaken ==
  ASSUME TypeOK, Named, [Next]_vars, ~\E w \in Workers : WorkerStart(w)
  PROVE  InHand' \subseteq InHand
<1>1. CASE jobs' = jobs
  BY <1>1 DEF InHand, AllJobs, JobOf
<1>2. ASSUME NEW e \in Passes, PassCommit(e) PROVE InHand' \subseteq InHand
  <2>1. /\ \A j \in AllJobs : JobOf(j)' = JobOf(j)
        /\ \A j \in AllJobs' \ AllJobs : JobOf(j)'.status = "pending"
    BY <1>2, CommitAdds
  <2> QED
    BY <2>1 DEF InHand, JobOf
<1>3. ASSUME NEW j \in AllJobs, NEW s \in {"running", "completed", "failed"},
             NEW c \in BOOLEAN, NEW k \in BOOLEAN, Writes(j, s, c, k),
             s # "running" \/ c
      PROVE  InHand' \subseteq InHand
  <2>1. /\ AllJobs' = AllJobs
        /\ JobOf(j)'.status # "running" \/ JobOf(j)'.claimed
        /\ \A i \in AllJobs : i # j => JobOf(i)' = JobOf(i)
    BY <1>3, WritesRewrite
  <2> QED
    BY <2>1 DEF InHand, JobOf
<1>4. ASSUME NEW w \in Workers, WorkerFinish(w) PROVE InHand' \subseteq InHand
  <2>1. worker[w].job \in AllJobs
    BY <1>4 DEF Named, WorkerNames, WorkerFinish
  <2> QED
    BY <1>3, <1>4, <2>1, WorkerWritesRow
<1>5. ASSUME NEW a \in Procs, ClaimCommit(a) \/ ClaimLost(a)
      PROVE  InHand' \subseteq InHand
  <2>1. agent[a].job \in AllJobs
    BY <1>5, AgentTyped DEF Named, ClaimCommit, ClaimLost
  <2> QED
    BY <1>3, <1>5, <2>1, ClaimWritesRow
<1>6. ASSUME NEW r \in results, ResultJob(r) PROVE InHand' \subseteq InHand
  <2>1. r.job \in AllJobs
    BY DEF Named
  <2> QED
    BY <1>3, <1>6, <2>1, ResultWritesRow
<1> QED
  BY <1>1, <1>2, <1>4, <1>5, <1>6, JobWriters

(* A tick decides to start a job only when none is running.                *)
LEMMA StartsWhenFree ==
  ASSUME HandInv, [Next]_vars, ~\E w \in Workers : WorkerStart(w),
         NEW w \in Workers, worker'[w].pc = "start"
  PROVE  InHand = {}
<1>0. TypeOK /\ DOMAIN worker = Workers
  BY DEF HandInv, TypeOK
<1>1. CASE worker'[w] = worker[w]
  BY <1>1 DEF HandInv
<1>2. CASE ApiCrash
  BY <1>2 DEF ApiCrash, Idle
<1>3. ASSUME NEW v \in Workers, Worker(v), worker'[w] # worker[w]
      PROVE  InHand = {}
  <2>1. v = w
    BY <1>0, <1>3 DEF Worker, WorkerMachines, WorkerPatches, WorkerPending,
              WorkerRunning, WorkerStart, WorkerHost, WorkerFinish, WorkerLog
  <2>2. CASE WorkerRunning(w)
    <3>1. WithStatus("running") = {} \/ worker'[w].pc \in {"idle", "finish"}
      BY <1>0, <2>2 DEF WorkerRunning, Idle
    <3> QED
      BY <3>1 DEF WithStatus, InHand
  <2>3. CASE WorkerHost(w) \/ WorkerFinish(w)
    <3>1. worker[w] \in InHandStates
      BY <1>0, <2>3, WorkerTyped DEF WorkerHost, WorkerFinish
    <3>2. worker'[w].pc \in {"idle", "write", "log"}
      BY <1>0, <2>3, <3>1 DEF WorkerHost, WorkerFinish, InHandStates, Idle
    <3> QED
      BY <3>2
  <2> QED
    BY <1>0, <1>3, <2>1, <2>2, <2>3
       DEF Worker, WorkerMachines, WorkerPatches, WorkerPending, WorkerLog, Idle
<1> QED
  BY <1>1, <1>2, <1>3, Movers

(* Every step keeps the worker at one job in hand.                         *)
LEMMA HandStep ==
  ASSUME SerialTicks, HandInv, TypeOK', [Next]_vars PROVE HandInv'
<1>1. TypeOK /\ Named /\ Named' /\ DOMAIN worker = Workers
  BY NamedStep DEF HandInv, TypeOK
<1>2. ASSUME NEW w \in Workers, WorkerStart(w)
      PROVE  /\ \A j, k \in InHand' : j = k
             /\ \A v \in Workers : worker'[v].pc # "start"
  <2>1. InHand = {} /\ worker[w].job \in AllJobs
    BY <1>1, <1>2 DEF HandInv, WorkerStart, Named, WorkerNames
  <2>2. /\ AllJobs' = AllJobs
        /\ \A k \in AllJobs : k # worker[w].job => JobOf(k)' = JobOf(k)
    BY <1>1, <1>2, <2>1, WorkerWritesRow, WritesRewrite
  <2>3. InHand' \subseteq {worker[w].job}
    BY <2>1, <2>2 DEF InHand, JobOf
  <2>4. \A v \in Workers : worker'[v].pc # "start"
    BY <1>1, <1>2 DEF SerialTicks, WorkerStart, Idle
  <2> QED
    BY <2>3, <2>4
<1>3. ASSUME ~\E w \in Workers : WorkerStart(w)
      PROVE  /\ \A j, k \in InHand' : j = k
             /\ \A w \in Workers : worker'[w].pc = "start" => InHand' = {}
  <2>1. InHand' \subseteq InHand
    BY <1>1, <1>3, NoneTaken
  <2> QED
    BY <1>3, <2>1, StartsWhenFree DEF HandInv
<1> QED
  BY <1>1, <1>2, <1>3 DEF HandInv

(* While worker ticks do not overlap, the worker has at most one job in    *)
(* hand, whatever agents, clones among them, claim and report meanwhile.   *)
THEOREM OneBackendJobHolds ==
  ASSUME SerialTicks PROVE Spec => []OneBackendJob
<1>1. Init /\ TypeOK => HandInv
  <2> SUFFICES ASSUME Init, TypeOK PROVE HandInv
    OBVIOUS
  <2>1. AllJobs = {}
    BY EmptySeq, LenProperties DEF Init, AllJobs
  <2> QED
    BY <2>1 DEF Init, HandInv, Named, WorkerNames, InHand, Idle
<1>2. HandInv /\ TypeOK' /\ [Next]_vars => HandInv'
  BY HandStep
<1>3. HandInv => OneBackendJob
  <2> SUFFICES ASSUME HandInv PROVE Cardinality(InHand) <= 1
    BY DEF OneBackendJob, InHand
  <2>1. CASE InHand = {}
    BY <2>1, FS_EmptySet
  <2>2. ASSUME NEW j \in InHand PROVE Cardinality(InHand) = 1
    <3>1. InHand = {j}
      BY <2>2 DEF HandInv
    <3> QED
      BY <3>1, FS_Singleton
  <2> QED
    BY <2>1, <2>2
<1> QED
  BY <1>1, <1>2, <1>3, TypeCorrect, PTL DEF Spec

-----------------------------------------------------------------------------
(* Who holds a job.  Where every host runs one agent process, a job that   *)
(* only the agent or only the worker takes is written by its holder alone. *)
OneProcess == \A a, b \in Procs : Host[a] = Host[b] => a = b

Claimed(j) == JobOf(j).claimed
Taken(j) == JobOf(j).taken
Has(j, s) == JobOf(j).status = s

AgentHolds ==
  \A a \in Procs : agent[a] # Idle =>
    /\ MachineOf(agent[a].job) = Host[a]
    /\ agent[a].pc = "claiming" =>
         /\ ~Claimed(agent[a].job)
         /\ Taken(agent[a].job) \/ Has(agent[a].job, "pending")
    /\ agent[a].pc # "claiming" => Claimed(agent[a].job)
    /\ agent[a].pc = "executing" =>
         /\ Taken(agent[a].job) \/ Has(agent[a].job, "running")
         /\ \A r \in results : r.job # agent[a].job
ResultHolds ==
  /\ \A r \in results :
       /\ MachineOf(r.job) = Host[r.by]
       /\ Claimed(r.job)
       /\ r.step = "job" => Taken(r.job) \/ Has(r.job, "running")
       /\ r.step # "job" => Taken(r.job) \/ Has(r.job, FinalStatus(r.outcome))
  /\ \A q, r \in results : q.job = r.job => q = r
WorkerHolds ==
  \A w \in Workers :
    /\ worker[w].pc = "running" =>
         \A j \in worker[w].pending : Claimed(j) \/ Has(j, "pending")
    /\ worker[w].pc = "start" =>
         Claimed(worker[w].job) \/ Has(worker[w].job, "pending")
    /\ worker[w].pc \in {"finish", "write"} =>
         /\ worker[w].loaded
         /\ Claimed(worker[w].job) \/ Has(worker[w].job, "running")
    /\ worker[w].pc = "log" =>
         /\ Taken(worker[w].job)
         /\ \/ Claimed(worker[w].job)
            \/ Has(worker[w].job, FinalStatus(worker[w].result))
Stamped ==
  /\ \A j \in AllJobs : Claimed(j) \/ Taken(j) \/ Has(j, "pending")
  /\ \A l \in logs : /\ l.by = "agent" => Claimed(l.job)
                     /\ l.by = "worker" => Taken(l.job)

HeldInv == /\ TypeOK /\ Named
           /\ AgentHolds /\ ResultHolds /\ WorkerHolds /\ Stamped /\ LogAgrees

(* The verdict of a job with one master is final.                          *)
Final == \A j \in AllJobs :
           JobOf(j).status \in {"completed", "failed"} =>
             JobOf(j)'.status = JobOf(j).status \/ Contested(j)'
Held == AgentHolds' /\ ResultHolds' /\ WorkerHolds' /\ Stamped' /\ LogAgrees'
          /\ Final

(* A write of one job, as the holders see it.                              *)
Written(j, s, c, k) ==
  /\ j \in AllJobs /\ AllJobs' = AllJobs
  /\ Has(j, s)'
  /\ Claimed(j)' <=> Claimed(j) \/ c
  /\ Taken(j)' <=> Taken(j) \/ k
  /\ \A i \in AllJobs : i # j =>
       /\ JobOf(i)' = JobOf(i)
       /\ Claimed(i)' = Claimed(i) /\ Taken(i)' = Taken(i)
       /\ \A t \in {"pending", "running", "completed", "failed"} :
            Has(i, t)' <=> Has(i, t)

(* Every write is one.                                                     *)
LEMMA WritesWritten ==
  ASSUME TypeOK, NEW j \in AllJobs,
         NEW s \in {"running", "completed", "failed"},
         NEW c \in BOOLEAN, NEW k \in BOOLEAN, Writes(j, s, c, k)
  PROVE  Written(j, s, c, k)
BY WritesRewrite DEF Written, Claimed, Taken, Has, JobOf

(* What is logged is finished or contested.                                *)
LEMMA LoggedIsFinal ==
  ASSUME HeldInv, NEW l \in logs
  PROVE  /\ l.job \in AllJobs
         /\ l.by \in {"agent", "worker"}
         /\ \/ Claimed(l.job) /\ Taken(l.job)
            \/ ~Has(l.job, "pending") /\ ~Has(l.job, "running")
BY DEF HeldInv, TypeOK, Named, LogAgrees, Contested, Claimed, Taken, Has

(* The log and the verdicts after a write of a job that a log may not yet  *)
(* tell: it was not finished, or is contested now.                         *)
LEMMA WriteAgrees ==
  ASSUME HeldInv, NEW j, NEW s, NEW c, NEW k, Written(j, s, c, k),
         \/ Has(j, "pending") \/ Has(j, "running")
         \/ Claimed(j)' /\ Taken(j)',
         UNCHANGED logs
  PROVE  /\ LogAgrees' /\ Final
         /\ \A l \in logs : /\ l.by = "agent" => Claimed(l.job)'
                            /\ l.by = "worker" => Taken(l.job)'
<1>1. ASSUME NEW l \in logs
      PROVE  /\ l.by = "agent" => Claimed(l.job)'
             /\ l.by = "worker" => Taken(l.job)'
  <2>1. /\ l.by = "agent" => Claimed(l.job)
        /\ l.by = "worker" => Taken(l.job)
    BY DEF HeldInv, Stamped
  <2> QED
    BY <2>1, LoggedIsFinal DEF Written
<1>2. ASSUME NEW l \in logs
      PROVE  \/ Contested(l.job)'
             \/ JobOf(l.job)'.status = (IF l.result = "applied" THEN "completed"
                                                               ELSE "failed")
  <2>1. CASE l.job = j
    <3>1. Claimed(j)' /\ Taken(j)'
      BY <2>1, LoggedIsFinal DEF Written
    <3> QED
      BY <2>1, <3>1 DEF Contested, Claimed, Taken, JobOf
  <2>2. CASE l.job # j
    <3>1. l.job \in AllJobs /\ JobOf(l.job)' = JobOf(l.job)
      BY <2>2, LoggedIsFinal DEF Written
    <3> QED
      BY <3>1 DEF HeldInv, LogAgrees, Contested, JobOf
  <2> QED
    BY <2>1, <2>2
<1>3. LogAgrees'
  BY <1>2 DEF LogAgrees, Contested, JobOf
<1>4. Final
  <2> SUFFICES ASSUME NEW i \in AllJobs,
                      JobOf(i).status \in {"completed", "failed"}
               PROVE  JobOf(i)'.status = JobOf(i).status \/ Contested(i)'
    BY DEF Final
  <2>1. CASE i = j
    BY <2>1 DEF Has, Contested, Claimed, Taken, JobOf
  <2>2. CASE i # j
    BY <2>2 DEF Written
  <2> QED
    BY <2>1, <2>2
<1> QED
  BY <1>1, <1>3, <1>4

(* What an agent claimed, the worker asks nothing of.                      *)
LEMMA ClaimedKeepsWorker ==
  ASSUME HeldInv, NEW j, NEW s, NEW c, NEW k, Written(j, s, c, k),
         Claimed(j)', UNCHANGED worker
  PROVE  WorkerHolds'
<1> SUFFICES ASSUME NEW w \in Workers
             PROVE  (/\ worker[w].pc = "running" =>
                          \A i \in worker[w].pending :
                            Claimed(i) \/ Has(i, "pending")
                     /\ worker[w].pc = "start" =>
                          \/ Claimed(worker[w].job)
                          \/ Has(worker[w].job, "pending")
                     /\ worker[w].pc \in {"finish", "write"} =>
                          /\ worker[w].loaded
                          /\ \/ Claimed(worker[w].job)
                             \/ Has(worker[w].job, "running")
                     /\ worker[w].pc = "log" =>
                          /\ Taken(worker[w].job)
                          /\ \/ Claimed(worker[w].job)
                             \/ Has(worker[w].job,
                                    FinalStatus(worker[w].result)))'
  BY DEF WorkerHolds
<1> QED
  BY DEF HeldInv, Named, WorkerNames, WorkerHolds, Claimed, Taken, Has, JobOf,
         Written, FinalStatus

(* An agent that claims a job is the only one to hold it.                  *)
LEMMA ClaimHolds ==
  ASSUME OneProcess, HeldInv, NEW a \in Procs, ClaimCommit(a) \/ ClaimLost(a)
  PROVE  Held
<1>0. PICK j : j = agent[a].job
  OBVIOUS
<1>1. /\ TypeOK /\ j \in AllJobs /\ DOMAIN agent = Procs
      /\ MachineOf(j) = Host[a]
      /\ ~Claimed(j) /\ (Taken(j) \/ Has(j, "pending"))
      /\ agent[a] # Idle /\ Writes(j, "running", TRUE, FALSE)
      /\ UNCHANGED <<results, worker, logs>>
  BY <1>0, AgentTyped, ClaimWritesRow
     DEF HeldInv, Named, AgentHolds, ClaimCommit, ClaimLost, TypeOK
<1>2. Written(j, "running", TRUE, FALSE)
  BY <1>1, WritesWritten
<1>3. \A b \in Procs : b # a /\ agent[b] # Idle => agent[b].job # j
  BY <1>1 DEF OneProcess, HeldInv, AgentHolds
<1>4. \A r \in results : r.job # j
  BY <1>1 DEF HeldInv, ResultHolds
<1>5. /\ LogAgrees' /\ Final
      /\ \A l \in logs : /\ l.by = "agent" => Claimed(l.job)'
                         /\ l.by = "worker" => Taken(l.job)'
  <2>1. Has(j, "pending") \/ (Claimed(j)' /\ Taken(j)')
    BY <1>1, <1>2 DEF Written
  <2> QED
    BY <1>1, <1>2, <2>1, WriteAgrees
<1>6. /\ \A b \in Procs : b # a => agent'[b] = agent[b]
      /\ \/ agent'[a] = Idle
         \/ agent'[a].pc = "executing" /\ agent'[a].job = j
  <2>1. agent[a] \in [pc : {"claiming", "executing", "reporting"}, job : JobId]
    BY <1>1, AgentTyped
  <2> QED
    BY <1>0, <1>1, <2>1 DEF ClaimCommit, ClaimLost
<1>7. AgentHolds'
  <2> SUFFICES ASSUME NEW b \in Procs, agent'[b] # Idle,
                      NEW i, i = agent'[b].job
               PROVE  /\ MachineOf(i) = Host[b]
                      /\ agent'[b].pc = "claiming" =>
                           ~Claimed(i)' /\ (Taken(i)' \/ Has(i, "pending")')
                      /\ agent'[b].pc # "claiming" => Claimed(i)'
                      /\ agent'[b].pc = "executing" =>
                           /\ Taken(i)' \/ Has(i, "running")'
                           /\ \A r \in results' : r.job # i
    BY DEF AgentHolds, MachineOf, Claimed, Taken, Has, JobOf
  <2>1. CASE b = a
    BY <1>1, <1>2, <1>4, <1>6, <2>1 DEF Written
  <2>2. CASE b # a
    <3>1. /\ agent'[b] = agent[b] /\ agent[b] # Idle /\ i = agent[b].job
          /\ i \in AllJobs /\ i # j
      BY <1>3, <1>6, <2>2 DEF HeldInv, Named
    <3> QED
      BY <1>1, <1>2, <3>1 DEF HeldInv, AgentHolds, Written
  <2> QED
    BY <2>1, <2>2
<1>8. ResultHolds'
  BY <1>1, <1>2, <1>4
     DEF HeldInv, Named, ResultHolds, MachineOf, Claimed, Taken, Has, JobOf,
         Written, FinalStatus
<1>9. WorkerHolds'
  BY <1>1, <1>2, ClaimedKeepsWorker DEF Written
<1>10. Stamped'
  BY <1>1, <1>2, <1>5 DEF HeldInv, Stamped, Written, Claimed, Taken, Has, JobOf
<1> QED
  BY <1>5, <1>7, <1>8, <1>9, <1>10 DEF Held

(* A result that writes the status is the only one, of the only agent that *)
(* executed the job.                                                       *)
LEMMA VerdictHolds ==
  ASSUME HeldInv, NEW r \in results, ResultJob(r) PROVE Held
<1>0. PICK j : j = r.job
  OBVIOUS
<1> DEFINE next == [r EXCEPT !.step = "log", !.seen = approval[PatchOf(r.job)],
                             !.host = machine[MachineOf(r.job)] # "absent"]
           s == FinalStatus(r.outcome)
<1>1. /\ TypeOK /\ j \in AllJobs /\ r.by \in Procs
      /\ MachineOf(j) = Host[r.by]
      /\ Claimed(j) /\ (Taken(j) \/ Has(j, "running"))
      /\ Writes(j, s, FALSE, FALSE) /\ s \in {"completed", "failed"}
      /\ results' = (results \ {r}) \cup {next}
      /\ UNCHANGED <<agent, worker, logs>>
  BY <1>0, ResultWritesRow DEF HeldInv, Named, ResultHolds, ResultJob, TypeOK
<1>2. /\ next.job = j /\ next.by = r.by /\ next.step = "log"
      /\ next.outcome = r.outcome
  <2>1. r \in [job : JobId, by : Procs, outcome : Outcome,
               step : {"job", "log", "patch"}, seen : Approval, host : BOOLEAN]
    BY <1>1 DEF TypeOK
  <2> QED
    BY <1>0, <2>1
<1> HIDE DEF next, s
<1>3. Written(j, s, FALSE, FALSE)
  BY <1>1, WritesWritten
<1>4. /\ \A q \in results : q # r => q.job # j
      /\ \A a \in Procs : agent[a] # Idle /\ agent[a].job = j =>
                            agent[a].pc = "reporting"
  <2>1. \A q \in results : q # r => q.job # j
    BY <1>0 DEF HeldInv, ResultHolds
  <2>2. ASSUME NEW a \in Procs, agent[a] # Idle, agent[a].job = j
        PROVE  agent[a].pc = "reporting"
    BY <1>0, <1>1, <2>2, AgentTyped DEF HeldInv, AgentHolds
  <2> QED
    BY <2>1, <2>2
<1>5. /\ LogAgrees' /\ Final
      /\ \A l \in logs : /\ l.by = "agent" => Claimed(l.job)'
                         /\ l.by = "worker" => Taken(l.job)'
  <2>1. Has(j, "running") \/ (Claimed(j)' /\ Taken(j)')
    BY <1>1, <1>3 DEF Written
  <2> QED
    BY <1>1, <1>3, <2>1, WriteAgrees
<1>6. AgentHolds'
  <2> SUFFICES ASSUME NEW b \in Procs, agent[b] # Idle
               PROVE  /\ MachineOf(agent[b].job) = Host[b]
                      /\ agent[b].pc = "claiming" =>
                           /\ ~Claimed(agent[b].job)'
                           /\ \/ Taken(agent[b].job)'
                              \/ Has(agent[b].job, "pending")'
                      /\ agent[b].pc # "claiming" => Claimed(agent[b].job)'
                      /\ agent[b].pc = "executing" =>
                           /\ \/ Taken(agent[b].job)'
                              \/ Has(agent[b].job, "running")'
                           /\ \A q \in results' : q.job # agent[b].job
    BY <1>1 DEF AgentHolds, MachineOf, Claimed, Taken, Has, JobOf
  <2>1. /\ agent[b].job \in AllJobs
        /\ agent[b].job = j => agent[b].pc = "reporting"
    BY <1>4 DEF HeldInv, Named
  <2>2. CASE agent[b].job = j
    BY <1>1, <1>3, <2>1, <2>2 DEF HeldInv, AgentHolds, Written
  <2>3. CASE agent[b].job # j
    BY <1>1, <1>2, <1>3, <2>1, <2>3 DEF HeldInv, AgentHolds, Written
  <2> QED
    BY <2>2, <2>3
<1>7. ResultHolds'
  <2>1. ASSUME NEW q \in results', q # next
        PROVE  q \in results /\ q.job # j /\ q.job \in AllJobs
    BY <1>1, <1>4, <2>1 DEF HeldInv, Named
  <2>2. ASSUME NEW q \in results'
        PROVE  /\ MachineOf(q.job) = Host[q.by]
               /\ Claimed(q.job)'
               /\ q.step = "job" => Taken(q.job)' \/ Has(q.job, "running")'
               /\ q.step # "job" =>
                    Taken(q.job)' \/ Has(q.job, FinalStatus(q.outcome))'
    <3>1. CASE q = next
      BY <1>1, <1>2, <1>3, <3>1 DEF Written, s
    <3>2. CASE q # next
      <4>1. q \in results /\ q.job # j /\ q.job \in AllJobs
        BY <2>1, <3>2
      <4>2. FinalStatus(q.outcome) \in {"completed", "failed"}
        BY DEF FinalStatus
      <4> QED
        BY <1>3, <4>1, <4>2 DEF HeldInv, ResultHolds, Written
    <3> QED
      BY <3>1, <3>2
  <2>3. \A p, q \in results' : p.job = q.job => p = q
    BY <1>1, <1>2, <2>1 DEF HeldInv, ResultHolds
  <2> QED
    BY <2>2, <2>3 DEF ResultHolds, MachineOf, Claimed, Taken, Has, JobOf
<1>8. WorkerHolds'
  BY <1>1, <1>3, ClaimedKeepsWorker DEF Written
<1>9. Stamped'
  BY <1>1, <1>3, <1>5 DEF HeldInv, Stamped, Written, Claimed, Taken, Has, JobOf
<1> QED
  BY <1>5, <1>6, <1>7, <1>8, <1>9 DEF Held

(* The worker writes a job that no agent claimed before anybody finished   *)
(* it; what it takes of a claimed job is contested from then on.           *)
LEMMA TickHolds ==
  ASSUME SerialTicks, HeldInv, NEW w \in Workers,
         WorkerStart(w) \/ WorkerFinish(w)
  PROVE  Held
<1>0. PICK j : j = worker[w].job
  OBVIOUS
<1>1. /\ TypeOK /\ j \in AllJobs /\ DOMAIN worker = Workers
      /\ Claimed(j) \/ Has(j, "pending") \/ Has(j, "running")
      /\ UNCHANGED <<agent, results, logs>>
  BY <1>0 DEF HeldInv, Named, WorkerNames, WorkerHolds, WorkerStart,
              WorkerFinish, TypeOK
<1>2. PICK s \in {"running", "completed", "failed"} :
        /\ Writes(j, s, FALSE, TRUE)
        /\ WorkerFinish(w) => s = FinalStatus(worker[w].result)
  <2>1. WorkerFinish(w) => worker[w].loaded
    BY DEF WorkerFinish, HeldInv, WorkerHolds
  <2>2. ASSUME NEW s \in {"running", "completed", "failed"},
               NEW k \in BOOLEAN,
               /\ Writes(j, s, FALSE, k)
               /\ WorkerStart(w) => s = "running" /\ k
               /\ WorkerFinish(w) => /\ s = FinalStatus(worker[w].result)
                                     /\ s # "running"
                                     /\ k = worker[w].loaded
        PROVE  /\ Writes(j, s, FALSE, TRUE)
               /\ WorkerFinish(w) => s = FinalStatus(worker[w].result)
    <3>1. k = TRUE
      BY <2>1, <2>2
    <3> QED
      BY <2>2, <3>1
  <2> QED
    BY <1>0, <1>1, <2>2, WorkerWritesRow
<1>3. Written(j, s, FALSE, TRUE)
  BY <1>1, <1>2, WritesWritten
<1>4. /\ LogAgrees' /\ Final
      /\ \A l \in logs : /\ l.by = "agent" => Claimed(l.job)'
                         /\ l.by = "worker" => Taken(l.job)'
  <2>1. Has(j, "pending") \/ Has(j, "running") \/ (Claimed(j)' /\ Taken(j)')
    BY <1>1, <1>3 DEF Written
  <2> QED
    BY <1>1, <1>3, <2>1, WriteAgrees
<1>5. AgentHolds'
  <2> SUFFICES ASSUME NEW b \in Procs, agent[b] # Idle,
                      NEW i, i = agent[b].job
               PROVE  /\ MachineOf(i) = Host[b]
                      /\ agent[b].pc = "claiming" =>
                           ~Claimed(i)' /\ (Taken(i)' \/ Has(i, "pending")')
                      /\ agent[b].pc # "claiming" => Claimed(i)'
                      /\ agent[b].pc = "executing" =>
                           /\ Taken(i)' \/ Has(i, "running")'
                           /\ \A q \in results : q.job # i
    BY <1>1 DEF AgentHolds, MachineOf, Claimed, Taken, Has, JobOf
  <2>1. i \in AllJobs
    BY DEF HeldInv, Named
  <2>2. CASE i = j
    <3>1. Taken(i)' /\ (Claimed(i)' <=> Claimed(i))
      BY <1>3, <2>2 DEF Written
    <3> QED
      BY <3>1 DEF HeldInv, AgentHolds
  <2>3. CASE i # j
    <3>1. /\ Taken(i)' = Taken(i) /\ Claimed(i)' = Claimed(i)
          /\ Has(i, "pending")' <=> Has(i, "pending")
          /\ Has(i, "running")' <=> Has(i, "running")
      BY <1>3, <2>1, <2>3 DEF Written
    <3> QED
      BY <3>1 DEF HeldInv, AgentHolds
  <2> QED
    BY <2>2, <2>3
<1>6. ResultHolds'
  <2>1. ASSUME NEW q \in results
        PROVE  /\ MachineOf(q.job) = Host[q.by]
               /\ Claimed(q.job)'
               /\ q.step = "job" => Taken(q.job)' \/ Has(q.job, "running")'
               /\ q.step # "job" =>
                    Taken(q.job)' \/ Has(q.job, FinalStatus(q.outcome))'
    <3>1. q.job \in AllJobs
      BY DEF HeldInv, Named
    <3>2. FinalStatus(q.outcome) \in {"completed", "failed"}
      BY DEF FinalStatus
    <3> QED
      BY <1>3, <3>1, <3>2 DEF HeldInv, ResultHolds, Written
  <2> QED
    BY <1>1, <2>1
       DEF HeldInv, ResultHolds, MachineOf, Claimed, Taken, Has, JobOf
<1>7. WorkerHolds'
  <2>1. \A v \in Workers : v = w
    BY DEF SerialTicks
  <2>2. \/ worker'[w] = Idle
        \/ /\ WorkerFinish(w)
           /\ worker'[w].pc = "log" /\ worker'[w].job = j
           /\ worker'[w].result = worker[w].result
    <3>1. CASE WorkerStart(w)
      BY <1>1, <3>1 DEF WorkerStart
    <3>2. CASE WorkerFinish(w)
      <4>1. worker[w] \in InHandStates
        BY <1>1, <3>2, WorkerTyped DEF WorkerFinish
      <4> QED
        BY <1>0, <1>1, <3>2, <4>1 DEF WorkerFinish, InHandStates
    <3> QED
      BY <3>1, <3>2
  <2> QED
    BY <1>2, <1>3, <2>1, <2>2
       DEF WorkerHolds, Written, Claimed, Taken, Has, JobOf, Idle
<1>8. Stamped'
  BY <1>1, <1>3, <1>4 DEF HeldInv, Stamped, Written, Claimed, Taken, Has, JobOf
<1> QED
  BY <1>4, <1>5, <1>6, <1>7, <1>8 DEF Held

(* A step that writes no job keeps what is said of jobs, and each part     *)
(* whose own state it leaves alone.                                        *)
LEMMA JobsUnwritten ==
  ASSUME HeldInv, jobs' = jobs
  PROVE  /\ Final /\ AllJobs' = AllJobs
         /\ \A j : /\ JobOf(j)' = JobOf(j) /\ Claimed(j)' = Claimed(j)
                   /\ Taken(j)' = Taken(j)
         /\ \A j, s : Has(j, s)' <=> Has(j, s)
         /\ UNCHANGED <<agent, results>> => AgentHolds'
         /\ UNCHANGED results => ResultHolds'
         /\ UNCHANGED worker => WorkerHolds'
         /\ UNCHANGED logs => LogAgrees' /\ Stamped'
<1>1. /\ AllJobs' = AllJobs
      /\ \A j : /\ JobOf(j)' = JobOf(j) /\ Claimed(j)' = Claimed(j)
                /\ Taken(j)' = Taken(j)
      /\ \A j, s : Has(j, s)' <=> Has(j, s)
  BY DEF AllJobs, JobOf, Claimed, Taken, Has
<1>2. Final
  BY DEF Final, JobOf
<1>3. ASSUME UNCHANGED <<agent, results>> PROVE AgentHolds'
  BY <1>3 DEF HeldInv, AgentHolds, JobOf, MachineOf, Claimed, Taken, Has
<1>4. ASSUME UNCHANGED results PROVE ResultHolds'
  BY <1>4 DEF HeldInv, ResultHolds, JobOf, MachineOf, Claimed, Taken, Has
<1>5. ASSUME UNCHANGED worker PROVE WorkerHolds'
  BY <1>5 DEF HeldInv, WorkerHolds, JobOf, Claimed, Taken, Has
<1>6. ASSUME UNCHANGED logs PROVE LogAgrees' /\ Stamped'
  BY <1>1, <1>6 DEF HeldInv, LogAgrees, Stamped, JobOf, Claimed, Taken, Has,
                    Contested
<1> QED
  BY <1>1, <1>2, <1>3, <1>4, <1>5, <1>6

(* A pass adds jobs nobody holds.                                          *)
LEMMA CommitHolds ==
  ASSUME HeldInv, NEW e \in Passes, PassCommit(e) PROVE Held
<1>1. /\ TypeOK /\ Named
      /\ \A j \in AllJobs :
           /\ JobOf(j)' = JobOf(j) /\ Claimed(j)' = Claimed(j)
           /\ Taken(j)' = Taken(j)
           /\ \A s \in {"pending", "running", "completed", "failed"} :
                Has(j, s)' <=> Has(j, s)
      /\ \A j \in AllJobs' \ AllJobs : Has(j, "pending")'
      /\ UNCHANGED <<agent, results, worker, logs>>
  BY CommitAdds DEF HeldInv, PassCommit, Claimed, Taken, Has, JobOf
<1>2. AgentHolds'
  BY <1>1 DEF Named, HeldInv, AgentHolds, MachineOf, Claimed, Taken, Has, JobOf
<1>3. ResultHolds'
  BY <1>1 DEF Named, HeldInv, ResultHolds, MachineOf, Claimed, Taken, Has,
              JobOf, FinalStatus
<1>4. WorkerHolds'
  BY <1>1 DEF Named, WorkerNames, HeldInv, WorkerHolds, Claimed, Taken, Has,
              JobOf, FinalStatus
<1>5. Stamped'
  BY <1>1 DEF Named, HeldInv, Stamped, Claimed, Taken, Has, JobOf
<1>6. LogAgrees'
  BY <1>1 DEF Named, HeldInv, LogAgrees, Contested, JobOf
<1>7. Final
  BY <1>1 DEF Final
<1> QED
  BY <1>2, <1>3, <1>4, <1>5, <1>6, <1>7 DEF Held

(* The agent reads a job, reports it, or loses it.                         *)
LEMMA AgentKeeps ==
  ASSUME OneProcess, HeldInv, NEW a \in Procs,
         ClaimRead(a) \/ Report(a) \/ GiveUp(a) \/ ReportLost(a)
  PROVE  AgentHolds' /\ ResultHolds'
<1>1. /\ TypeOK /\ Named /\ DOMAIN agent = Procs /\ jobs' = jobs
      /\ \A b \in Procs : b # a => agent'[b] = agent[b]
  BY DEF HeldInv, TypeOK, ClaimRead, Report, GiveUp, ReportLost
<1>2. CASE ClaimRead(a)
  <2>1. PICK j \in AllJobs : /\ agent'[a] = [pc |-> "claiming", job |-> j]
                             /\ MachineOf(j) = Host[a]
                             /\ Has(j, "pending") /\ ~Claimed(j)
    BY <1>1, <1>2 DEF ClaimRead, Oldest, Claimable, Has, Claimed
  <2>2. results' = results
    BY <1>2 DEF ClaimRead
  <2>3. AgentHolds'
    <3> SUFFICES ASSUME NEW b \in Procs, agent'[b] # Idle
                 PROVE  AgentHolds!(b)!2'
      BY DEF AgentHolds, MachineOf
    <3>1. CASE b = a
      BY <3>1, <2>1, <1>1, JobsUnwritten DEF MachineOf
    <3>2. CASE b # a
      <4>1. agent'[b] = agent[b] /\ AgentHolds!(b)!2
        BY <3>2, <1>1 DEF HeldInv, AgentHolds
      <4> QED
        BY <4>1, <2>2, <1>1, JobsUnwritten DEF MachineOf
    <3> QED
      BY <3>1, <3>2
  <2> QED
    BY <1>1, <2>2, <2>3, JobsUnwritten
<1>3. CASE GiveUp(a) \/ ReportLost(a)
  <2>1. agent'[a] = Idle /\ results' = results
    BY <1>1, <1>3 DEF GiveUp, ReportLost
  <2>2. AgentHolds'
    <3> SUFFICES ASSUME NEW b \in Procs, agent'[b] # Idle
                 PROVE  AgentHolds!(b)!2'
      BY DEF AgentHolds, MachineOf
    <3>1. agent'[b] = agent[b] /\ AgentHolds!(b)!2
      BY <1>1, <2>1 DEF HeldInv, AgentHolds
    <3> QED
      BY <3>1, <2>1, <1>1, JobsUnwritten DEF MachineOf
  <2> QED
    BY <1>1, <2>1, <2>2, JobsUnwritten
<1>4. CASE Report(a)
  <2>1. PICK j : j = agent[a].job
    OBVIOUS
  <2>2. /\ agent[a] # Idle /\ agent[a].pc = "executing" /\ j \in AllJobs
        /\ MachineOf(j) = Host[a] /\ Claimed(j)
        /\ Taken(j) \/ Has(j, "running")
        /\ \A r \in results : r.job # j
    BY <1>1, <1>4, <2>1, AgentTyped DEF HeldInv, Named, AgentHolds, Report
  <2>3. agent'[a].pc = "reporting" /\ agent'[a].job = j
    <3>1. agent[a] \in [pc : {"claiming", "executing", "reporting"},
                        job : JobId]
      BY <1>1, <2>2, AgentTyped
    <3> QED
      BY <1>1, <1>4, <2>1, <3>1 DEF Report
  <2>4. PICK r : /\ results' = results \cup {r}
                 /\ r.job = j /\ r.by = a /\ r.step = "job"
    <3>1. PICK o \in Outcome : results' = results \cup
            {[job |-> j, by |-> a, outcome |-> o, step |-> "job",
              seen |-> "absent", host |-> FALSE]}
      BY <1>4, <2>1 DEF Report
    <3>2. PICK q : q = [job |-> j, by |-> a, outcome |-> o, step |-> "job",
                        seen |-> "absent", host |-> FALSE]
      OBVIOUS
    <3>3. q.job = j /\ q.by = a /\ q.step = "job"
      BY <3>2
    <3> QED
      BY <3>1, <3>2, <3>3
  <2>5. \A b \in Procs : b # a /\ agent[b] # Idle => agent[b].job # j
    BY <2>2 DEF OneProcess, HeldInv, AgentHolds
  <2>6. AgentHolds'
    BY <1>1, <2>2, <2>3, <2>4, <2>5
       DEF HeldInv, AgentHolds, MachineOf, Claimed, Taken, Has, JobOf
  <2>7. ResultHolds'
    BY <1>1, <2>2, <2>4
       DEF HeldInv, ResultHolds, MachineOf, Claimed, Taken, Has, JobOf
  <2> QED
    BY <2>6, <2>7
<1> QED
  BY <1>2, <1>3, <1>4

(* The rest of a result's handling, with the row of the log it adds.       *)
LEMMA ResultKeeps ==
  ASSUME HeldInv, NEW r \in results, ResultLog(r) \/ ResultPatch(r)
  PROVE  AgentHolds' /\ ResultHolds' /\ LogAgrees' /\ Stamped'
<1>1. /\ TypeOK /\ Named /\ DOMAIN agent = Procs /\ jobs' = jobs
      /\ r \in [job : JobId, by : Procs, outcome : Outcome,
                step : {"job", "log", "patch"}, seen : Approval,
                host : BOOLEAN]
  BY DEF HeldInv, TypeOK, ResultLog, ResultPatch
<1>2. \A a \in Procs : agent'[a] \in {agent[a], Idle}
  BY <1>1 DEF ResultLog, ResultPatch, Respond
<1>3. \/ results' = results \ {r}
      \/ results' = (results \ {r}) \cup {[r EXCEPT !.step = "patch"]}
  BY DEF ResultLog, ResultPatch, Respond
<1>4. /\ r.step # "job" /\ Claimed(r.job)
      /\ Taken(r.job) \/ Has(r.job, FinalStatus(r.outcome))
  BY DEF HeldInv, ResultHolds, ResultLog, ResultPatch
<1>5. AgentHolds'
  BY <1>1, <1>2, <1>3
     DEF HeldInv, AgentHolds, MachineOf, Claimed, Taken, Has, JobOf
<1>6. ResultHolds'
  <2>1. PICK p : p = [r EXCEPT !.step = "patch"]
    OBVIOUS
  <2>2. /\ p.job = r.job /\ p.by = r.by /\ p.step = "patch"
        /\ p.outcome = r.outcome
    BY <1>1, <2>1
  <2>3. results' \subseteq (results \ {r}) \cup {p}
    BY <1>3, <2>1
  <2>4. ASSUME NEW q \in results'
        PROVE  /\ MachineOf(q.job) = Host[q.by]
               /\ Claimed(q.job)
               /\ q.step = "job" => Taken(q.job) \/ Has(q.job, "running")
               /\ q.step # "job" =>
                    Taken(q.job) \/ Has(q.job, FinalStatus(q.outcome))
    BY <1>4, <2>2, <2>3 DEF HeldInv, ResultHolds
  <2>5. \A q, s \in results' : q.job = s.job => q = s
    BY <2>2, <2>3 DEF HeldInv, ResultHolds
  <2> QED
    BY <1>1, <2>4, <2>5
       DEF ResultHolds, MachineOf, Claimed, Taken, Has, JobOf
<1>7. PICK l : /\ logs' \subseteq logs \cup {l}
               /\ l.job = r.job /\ l.result = LogResult(r.outcome)
               /\ l.by = "agent"
  <2>1. PICK l : l = [job |-> r.job, result |-> LogResult(r.outcome),
                      by |-> "agent"]
    OBVIOUS
  <2>2. /\ l.job = r.job /\ l.result = LogResult(r.outcome)
        /\ l.by = "agent"
    BY <2>1
  <2>3. logs' \subseteq logs \cup {l}
    BY <2>1 DEF ResultLog, ResultPatch
  <2> QED
    BY <2>2, <2>3
<1>8. LogAgrees'
  <2>1. Contested(r.job)' \/ JobOf(r.job)'.status = FinalStatus(r.outcome)
    BY <1>1, <1>4 DEF Contested, Claimed, Taken, Has, JobOf
  <2>2. (IF LogResult(r.outcome) = "applied" THEN "completed" ELSE "failed")
          = FinalStatus(r.outcome)
    BY <1>1 DEF LogResult, FinalStatus, Outcome
  <2>3. ASSUME NEW m \in logs'
        PROVE  \/ Contested(m.job)'
               \/ JobOf(m.job)'.status = (IF m.result = "applied"
                                            THEN "completed" ELSE "failed")
    <3>1. CASE m \in logs
      BY <1>1, <3>1 DEF HeldInv, LogAgrees, Contested, JobOf
    <3>2. CASE m = l
      <4>1. m.job = r.job /\ m.result = LogResult(r.outcome)
        BY <1>7, <3>2
      <4> QED
        BY <2>1, <2>2, <4>1
    <3> QED
      BY <1>7, <3>1, <3>2
  <2> QED
    BY <2>3 DEF LogAgrees, Contested, JobOf
<1>9. Stamped'
  <2>1. \A m \in logs' : /\ m.by = "agent" => Claimed(m.job)
                         /\ m.by = "worker" => Taken(m.job)
    BY <1>4, <1>7 DEF HeldInv, Stamped
  <2> QED
    BY <1>1, <2>1 DEF HeldInv, Stamped, AllJobs, Claimed, Taken, Has, JobOf
<1> QED
  BY <1>5, <1>6, <1>8, <1>9

(* What a step of a tick that writes no job holds afterwards.              *)
LEMMA TickReads ==
  ASSUME HeldInv, NEW w \in Workers,
         \/ WorkerMachines(w) \/ WorkerPatches(w) \/ WorkerPending(w)
         \/ WorkerRunning(w) \/ WorkerHost(w) \/ WorkerLog(w)
  PROVE  WorkerHolds'
<1>1. /\ TypeOK /\ Named /\ DOMAIN worker = Workers /\ jobs' = jobs
      /\ \A v \in Workers : v # w => worker'[v] = worker[v]
  BY DEF HeldInv, TypeOK, WorkerMachines, WorkerPatches, WorkerPending,
         WorkerRunning, WorkerHost, WorkerLog
<1>2. \A j : /\ Claimed(j)' = Claimed(j) /\ Taken(j)' = Taken(j)
             /\ \A s : Has(j, s)' <=> Has(j, s)
  BY <1>1, JobsUnwritten
<1> DEFINE Good(u) ==
      /\ u.pc = "running" =>
           \A j \in u.pending : Claimed(j) \/ Has(j, "pending")
      /\ u.pc = "start" => Claimed(u.job) \/ Has(u.job, "pending")
      /\ u.pc \in {"finish", "write"} =>
           u.loaded /\ (Claimed(u.job) \/ Has(u.job, "running"))
      /\ u.pc = "log" =>
           /\ Taken(u.job)
           /\ Claimed(u.job) \/ Has(u.job, FinalStatus(u.result))
<1>3. \A v \in Workers : Good(worker[v])
  BY DEF HeldInv, WorkerHolds
<1>4. ASSUME Good(worker'[w]) PROVE WorkerHolds'
  <2>1. \A v \in Workers : Good(worker'[v])
    BY <1>1, <1>3, <1>4
  <2> QED
    BY <1>1, <2>1 DEF WorkerHolds, Claimed, Taken, Has, JobOf
<1> SUFFICES Good(worker'[w])
  BY <1>4
<1>5. CASE WorkerMachines(w) \/ WorkerPatches(w) \/ WorkerLog(w)
  <2>1. worker'[w].pc \in {"patches", "pending", "idle"}
    BY <1>1, <1>5 DEF WorkerMachines, WorkerPatches, WorkerLog, Idle
  <2> QED
    BY <2>1
<1>6. CASE WorkerPending(w)
  <2>1. worker'[w].pc = "running" /\ worker'[w].pending = WithStatus("pending")
    BY <1>1, <1>6 DEF WorkerPending
  <2> QED
    BY <2>1 DEF WithStatus, Has
<1>7. CASE WorkerRunning(w)
  <2>0. worker[w].pc = "running"
    BY <1>7 DEF WorkerRunning
  <2>1. ASSUME NEW j \in BackendJobs(worker[w]),
               worker' = [worker EXCEPT ![w] =
                 [pc |-> "finish", job |-> j,
                  result |-> BackendResult(worker[w], j),
                  loaded |-> Loaded(worker[w], j)]]
        PROVE  /\ worker'[w].pc = "finish" /\ worker'[w].job = j
               /\ worker'[w].loaded /\ Has(j, "running")
    BY <1>1, <2>1 DEF BackendJobs, WithStatus, Has
  <2>2. ASSUME NEW j \in Oldest(Startable(worker[w])),
               worker' = [worker EXCEPT ![w] = [pc |-> "start", job |-> j]]
        PROVE  /\ worker'[w].pc = "start" /\ worker'[w].job = j
               /\ Claimed(j) \/ Has(j, "pending")
    BY <1>1, <1>3, <2>0, <2>2 DEF Oldest, Startable
  <2>3. worker' = [worker EXCEPT ![w] = Idle] => worker'[w].pc = "idle"
    BY <1>1 DEF Idle
  <2>4. ASSUME NEW j \in BackendJobs(worker[w]),
               worker' = [worker EXCEPT ![w] =
                 [pc |-> "finish", job |-> j,
                  result |-> BackendResult(worker[w], j),
                  loaded |-> Loaded(worker[w], j)]]
        PROVE  Good(worker'[w])
    BY <2>1, <2>4
  <2>5. ASSUME NEW j \in Oldest(Startable(worker[w])),
               worker' = [worker EXCEPT ![w] = [pc |-> "start", job |-> j]]
        PROVE  Good(worker'[w])
    BY <2>2, <2>5
  <2>6. worker' = [worker EXCEPT ![w] = Idle] => Good(worker'[w])
    BY <2>3
  <2> HIDE DEF Good
  <2> QED
    BY <1>7, <2>4, <2>5, <2>6 DEF WorkerRunning
<1>8. CASE WorkerHost(w)
  <2>1. worker[w] \in InHandStates /\ worker[w].pc = "finish"
    BY <1>1, <1>8, WorkerTyped DEF WorkerHost
  <2>2. \/ worker'[w].pc = "idle"
        \/ /\ worker'[w].pc = "write" /\ worker'[w].job = worker[w].job
           /\ worker'[w].loaded = worker[w].loaded
    BY <1>1, <1>8, <2>1 DEF WorkerHost, InHandStates, Idle
  <2> QED
    BY <1>3, <2>1, <2>2
<1> QED
  BY <1>5, <1>6, <1>7, <1>8

(* A tick logs the verdict it wrote.                                       *)
LEMMA TickLogs ==
  ASSUME HeldInv, NEW w \in Workers, WorkerLog(w)
  PROVE  LogAgrees' /\ Stamped'
<1>1. /\ TypeOK /\ jobs' = jobs /\ worker[w].pc = "log"
      /\ worker[w].result \in {"applied", "failed"}
  BY WorkerTyped DEF HeldInv, WorkerLog
<1>2. PICK j : j = worker[w].job
  OBVIOUS
<1>3. /\ Taken(j)
      /\ Claimed(j) \/ Has(j, FinalStatus(worker[w].result))
  BY <1>1, <1>2 DEF HeldInv, WorkerHolds
<1>4. PICK l : /\ logs' = logs \cup {l} /\ l.job = j
               /\ l.result = worker[w].result /\ l.by = "worker"
  <2>1. PICK l : l = [job |-> j, result |-> worker[w].result,
                      by |-> "worker"]
    OBVIOUS
  <2>2. l.job = j /\ l.result = worker[w].result /\ l.by = "worker"
    BY <2>1
  <2> QED
    BY <1>2, <2>1, <2>2 DEF WorkerLog
<1>5. LogAgrees'
  <2>1. \/ Contested(j)
        \/ JobOf(j).status = (IF l.result = "applied" THEN "completed"
                                                      ELSE "failed")
    BY <1>1, <1>3, <1>4 DEF Contested, Claimed, Taken, Has, FinalStatus
  <2>2. \A m \in logs' :
          \/ Contested(m.job)
          \/ JobOf(m.job).status = (IF m.result = "applied" THEN "completed"
                                                            ELSE "failed")
    BY <1>4, <2>1 DEF HeldInv, LogAgrees
  <2> QED
    BY <1>1, <2>2 DEF LogAgrees, Contested, JobOf
<1>6. Stamped'
  <2>1. \A m \in logs' : /\ m.by = "agent" => Claimed(m.job)
                         /\ m.by = "worker" => Taken(m.job)
    BY <1>3, <1>4 DEF HeldInv, Stamped
  <2> QED
    BY <1>1, <2>1 DEF HeldInv, Stamped, AllJobs, Claimed, Taken, Has, JobOf
<1> QED
  BY <1>5, <1>6

(* Every step keeps who holds what, and verdicts with one master.          *)
LEMMA HeldStep ==
  ASSUME OneProcess, SerialTicks, HeldInv, [Next]_vars PROVE Held
<1>1. ASSUME NEW e \in Passes, Pass(e) PROVE Held
  <2>1. CASE PassCommit(e)
    BY <2>1, CommitHolds
  <2>2. CASE ~PassCommit(e)
    <3>1. UNCHANGED <<jobs, agent, results, worker, logs>>
      BY <1>1, <2>2 DEF Pass, PassStart, PassMachines, PassExists, PassCount
    <3> QED
      BY <3>1, JobsUnwritten DEF Held
  <2> QED
    BY <2>1, <2>2
<1>2. ASSUME NEW w \in Workers, Worker(w) PROVE Held
  <2>1. CASE WorkerStart(w) \/ WorkerFinish(w)
    BY <2>1, TickHolds
  <2>2. CASE WorkerLog(w)
    <3>1. UNCHANGED <<jobs, agent, results>>
      BY <2>2 DEF WorkerLog
    <3> QED
      BY <2>2, <3>1, TickReads, TickLogs, JobsUnwritten DEF Held
  <2>3. CASE \/ WorkerMachines(w) \/ WorkerPatches(w) \/ WorkerPending(w)
             \/ WorkerRunning(w) \/ WorkerHost(w)
    <3>1. UNCHANGED <<jobs, agent, results, logs>>
      BY <2>3 DEF WorkerMachines, WorkerPatches, WorkerPending, WorkerRunning,
                  WorkerHost
    <3> QED
      BY <2>3, <3>1, TickReads, JobsUnwritten DEF Held
  <2> QED
    BY <1>2, <2>1, <2>2, <2>3 DEF Worker
<1>3. ASSUME NEW a \in Procs,
             \/ ClaimRead(a) \/ ClaimCommit(a) \/ ClaimLost(a)
             \/ Report(a) \/ GiveUp(a) \/ ReportLost(a)
      PROVE  Held
  <2>1. CASE ClaimCommit(a) \/ ClaimLost(a)
    BY <2>1, ClaimHolds
  <2>2. CASE ClaimRead(a) \/ Report(a) \/ GiveUp(a) \/ ReportLost(a)
    <3>1. UNCHANGED <<jobs, worker, logs>>
      BY <2>2 DEF ClaimRead, Report, GiveUp, ReportLost
    <3> QED
      BY <2>2, <3>1, AgentKeeps, JobsUnwritten DEF Held
  <2> QED
    BY <1>3, <2>1, <2>2
<1>4. ASSUME NEW r \in results, ResultJob(r) \/ ResultLog(r) \/ ResultPatch(r)
      PROVE  Held
  <2>1. CASE ResultJob(r)
    BY <2>1, VerdictHolds
  <2>2. CASE ResultLog(r) \/ ResultPatch(r)
    <3>1. UNCHANGED <<jobs, worker>>
      BY <2>2 DEF ResultLog, ResultPatch
    <3> QED
      BY <2>2, <3>1, ResultKeeps, JobsUnwritten DEF Held
  <2> QED
    BY <1>4, <2>1, <2>2
<1>5. CASE Environment \/ UNCHANGED vars
  <2>1. UNCHANGED <<jobs, agent, results, worker, logs>>
    BY <1>5 DEF Environment, Review, Discover, Forget, SetMachine, NewDay, vars
  <2> QED
    BY <2>1, JobsUnwritten DEF Held
<1>6. CASE ApiCrash
  <2>1. /\ jobs' = jobs /\ logs' = logs /\ results' = {}
        /\ \A a \in Procs : agent'[a] \in {agent[a], Idle}
        /\ \A w \in Workers : worker'[w] = Idle
    BY <1>6 DEF ApiCrash
  <2>2. AgentHolds'
    <3> SUFFICES ASSUME NEW a \in Procs, agent'[a] # Idle
                 PROVE  AgentHolds!(a)!2'
      BY DEF AgentHolds, MachineOf
    <3>1. agent'[a] = agent[a] /\ AgentHolds!(a)!2
      BY <2>1 DEF HeldInv, AgentHolds
    <3> QED
      BY <3>1, <2>1, JobsUnwritten DEF MachineOf
  <2>3. ResultHolds'
    BY <2>1 DEF ResultHolds
  <2>4. WorkerHolds'
    BY <2>1 DEF WorkerHolds, Idle
  <2> QED
    BY <2>1, <2>2, <2>3, <2>4, JobsUnwritten DEF Held
<1> HIDE DEF Held
<1> QED
  BY <1>1, <1>2, <1>3, <1>4, <1>5, <1>6
     DEF Next, Enqueue, AgentStep, Handle, Fault

(* The inductive invariant: who may still write a job, and what its flags  *)
(* and its log say of who did.                                             *)
THEOREM HeldInvariant ==
  ASSUME OneProcess, SerialTicks PROVE Spec => []HeldInv
<1>1. Init /\ TypeOK => HeldInv
  <2> SUFFICES ASSUME Init, TypeOK PROVE HeldInv
    OBVIOUS
  <2>1. AllJobs = {}
    BY EmptySeq, LenProperties DEF Init, AllJobs
  <2> QED
    BY <2>1 DEF Init, HeldInv, Named, WorkerNames, AgentHolds, ResultHolds,
                WorkerHolds, Stamped, LogAgrees, Idle
<1>2. HeldInv /\ TypeOK' /\ [Next]_vars => HeldInv'
  BY HeldStep, NamedStep DEF HeldInv, Held
<1> QED
  BY <1>1, <1>2, TypeCorrect, PTL DEF Spec

(* Where every host runs one agent process and worker ticks do not overlap, *)
(* a log tells the outcome of its job unless the job had two masters, over *)
(* any passes, losses, crashes and deletions, on Linux and on Windows.     *)
THEOREM LogAgreesHolds ==
  ASSUME OneProcess, SerialTicks PROVE Spec => []LogAgrees
<1>1. HeldInv => LogAgrees
  BY DEF HeldInv
<1> QED
  BY HeldInvariant, <1>1, PTL

(* Under the same conditions a finished job keeps its status.              *)
THEOREM TerminalHolds ==
  ASSUME OneProcess, SerialTicks PROVE Spec => TerminalIsFinal
<1>1. HeldInv /\ [Next]_vars =>
        [\A j \in AllJobs : JobOf(j).status \in {"completed", "failed"} =>
           JobOf(j)'.status = JobOf(j).status \/ Contested(j)']_jobs
  BY HeldStep DEF Held, Final
<1> QED
  BY HeldInvariant, <1>1, PTL DEF Spec, TerminalIsFinal
=============================================================================
