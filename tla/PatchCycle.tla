----------------------------- MODULE PatchCycle -----------------------------
(***************************************************************************)
(* The patch job cycle: the scheduler's enqueue pass, the background       *)
(* worker, the agents that claim jobs and report results, and the operator *)
(* and inventory actions that change patches and machines meanwhile.       *)
(*                                                                         *)
(* Every repository call of the code commits on its own, so a handler is   *)
(* one step per commit, and every query reads what is committed at that    *)
(* moment, so a handler is one step per query it decides on, too.  A job   *)
(* is <<slot, i>>: the i-th job created for a slot, which is a (schedule,  *)
(* machine, patch) the enqueue pass selects.                               *)
(***************************************************************************)
EXTENDS Naturals, Sequences, FiniteSets

CONSTANTS
  Schedules, Machines, Patches,
  Scope,            \* machines of a schedule: Schedules -> SUBSET Machines
  Target,           \* machines of a patch: Patches -> SUBSET Machines
  Windows,          \* the machines that are not Linux
  Procs,            \* agent processes; clones of one host share its agent id
  Host,             \* the machine whose agent id a process presents
  MachineStates,    \* what a machine row may become: "absent" after deletion
  Verdicts,         \* what an operator's review may decide
  Passes,           \* threads that may run an enqueue pass
  Workers,          \* threads that may run a worker tick
  MaxRetries,       \* MAX_RETRIES_PER_WINDOW
  MaxDay,           \* bound: last day of a behaviour
  MaxFaults         \* bound: crashes and lost messages of a behaviour

ASSUME ConstantsOK ==
  /\ Scope \in [Schedules -> SUBSET Machines]
  /\ Target \in [Patches -> SUBSET Machines]
  /\ Host \in [Procs -> Machines]
  /\ MachineStates \subseteq {"online", "offline", "absent"}
  /\ Verdicts \subseteq {"approved", "rejected"}
  /\ MaxRetries \in Nat \ {0}
  /\ MaxDay \in Nat
  /\ MaxFaults \in Nat

VARIABLES
  day,       \* calendar day in America/Sao_Paulo
  batch,     \* number of committed add_many calls
  approval,  \* approval_status of each patch, or "absent"
  machine,   \* stored status of each machine, or "absent"
  jobs,      \* per slot, the sequence of its jobs
  logs,      \* execution_logs rows
  pass,      \* per enqueue thread, the pass in progress
  worker,    \* per worker thread, the tick in progress
  agent,     \* the agent processes
  results,   \* result requests the API is handling
  faults     \* crashes and losses so far

vars == <<day, batch, approval, machine, jobs, logs, pass, worker, agent,
          results, faults>>

Slots == {t \in [schedule : Schedules, machine : Machines, patch : Patches] :
            t.machine \in Scope[t.schedule] \cap Target[t.patch]}

JobId == Slots \X (Nat \ {0})

(* created_at is the start of the inserting transaction, which a pass opens *)
(* with its first query: its day, and the number of commits before it.      *)
(* Jobs with an equal batch may have been created in either order.  The     *)
(* last three fields are history and no columns: the day whose window the   *)
(* pass decided on, whether a worker tick that loaded the job before any    *)
(* claim wrote it, and whether a write took it out of "failed".             *)
Job == [day : Nat, batch : Nat,
        status : {"pending", "running", "completed", "failed"},
        claimed : BOOLEAN,
        due : Nat, taken : BOOLEAN, reopened : BOOLEAN]
Approval == {"absent", "pending", "approved", "rejected"}
Idle == [pc |-> "idle"]
Outcome == {"applied", "failed", "guardrail"}

FinalStatusLenient(o) ==     \* mutant: a guardrail refusal counts as done
  IF o = "failed" THEN "failed" ELSE "completed"

FinalStatus(o) == IF o = "applied" THEN "completed" ELSE "failed"

AllJobs == UNION {{<<t, i>> : i \in DOMAIN jobs[t]} : t \in Slots}
JobOf(j) == jobs[j[1]][j[2]]
MachineOf(j) == j[1].machine
PatchOf(j) == j[1].patch
WriteJob(j, new) == jobs' = [jobs EXCEPT ![j[1]][j[2]] = new]
Reopens(j, s) ==
  JobOf(j).reopened \/ (JobOf(j).status = "failed" /\ s # "failed")
SetStatus(j, s) ==
  WriteJob(j, [JobOf(j) EXCEPT !.status = s, !.reopened = Reopens(j, s)])
WorkerWrites(j, s, loaded) ==
  WriteJob(j, [JobOf(j) EXCEPT !.status = s, !.reopened = Reopens(j, s),
                               !.taken = @ \/ loaded])

Oldest(S) == {j \in S : \A k \in S : JobOf(j).batch <= JobOf(k).batch}
JobsSince(t, d) == {i \in DOMAIN jobs[t] : jobs[t][i].day >= d}
HasLogOfHost(j) ==           \* mutant: log id derived from the machine
  \E l \in logs : l.job[1].machine = j[1].machine /\ l.by = "agent"
HasLog(j) == \E l \in logs : l.job = j /\ l.by = "agent"

Init ==
  /\ day = 0
  /\ batch = 0
  /\ approval = [p \in Patches |-> "pending"]
  /\ machine = [m \in Machines |-> "online"]
  /\ jobs = [t \in Slots |-> <<>>]
  /\ logs = {}
  /\ pass = [e \in Passes |-> Idle]
  /\ worker = [w \in Workers |-> Idle]
  /\ agent = [a \in Procs |-> Idle]
  /\ results = {}
  /\ faults = 0

-----------------------------------------------------------------------------
(* The enqueue pass.  It reads patches and machines, asks two questions     *)
(* about every slot that is due, then commits all new jobs at once; which   *)
(* install windows are due is left open.  The reboot commands it queues     *)
(* next belong to another component.                                        *)

Approved == {p \in Patches : approval[p] = "approved"}

PassStart(e) ==     \* the transaction opens here, which dates the new jobs
  /\ pass[e] = Idle
  /\ pass' = [pass EXCEPT ![e] = [pc |-> "machines", start |-> day,
                                  stamp |-> batch, approved |-> Approved]]
  /\ UNCHANGED <<day, batch, approval, machine, jobs, logs, worker, agent,
                 results, faults>>

PassMachines(e) ==  \* and the clock, which decides on the windows
  /\ pass[e].pc = "machines"
  /\ \E open \in SUBSET Schedules :
       pass' = [pass EXCEPT
         ![e] = [pc |-> "slots", start |-> pass[e].start,
                 stamp |-> pass[e].stamp, due |-> day,
                 todo |-> {t \in Slots : /\ t.schedule \in open
                                        /\ t.patch \in pass[e].approved
                                        /\ machine[t.machine] # "absent"},
                 failed |-> {}, chosen |-> {}]]
  /\ UNCHANGED <<day, batch, approval, machine, jobs, logs, worker, agent,
                 results, faults>>

BlockedByOpenJob(t, d) ==    \* mutant: exists_open_job used for deduplication
  \E i \in JobsSince(t, d) : jobs[t][i].status \in {"pending", "running"}
BlockedByJob(t, d) == \E i \in JobsSince(t, d) : jobs[t][i].status # "failed"

PassExists(e) ==    \* exists_active_or_completed_job_since, for the next slot
  /\ pass[e].pc = "slots"
  /\ pass[e].failed = {}
  /\ \E t \in pass[e].todo :
       pass' = [pass EXCEPT
                  ![e].todo = @ \ {t},
                  ![e].failed = IF BlockedByJob(t, pass[e].due) THEN {}
                                                                ELSE {t}]
  /\ UNCHANGED <<day, batch, approval, machine, jobs, logs, worker, agent,
                 results, faults>>

FailedCount(t, d) ==
  Cardinality({i \in JobsSince(t, d) : jobs[t][i].status = "failed"})

ExhaustedLate(t, d) == FailedCount(t, d) > MaxRetries  \* mutant: off by one
Exhausted(t, d) == FailedCount(t, d) >= MaxRetries

PassCount(e) ==     \* count_failed_jobs_since, for the slot that has no other
  /\ pass[e].pc = "slots"
  /\ \E t \in pass[e].failed :
       pass' = [pass EXCEPT
                  ![e].failed = {},
                  ![e].chosen = IF Exhausted(t, pass[e].due)
                                  THEN @ ELSE @ \cup {t}]
  /\ UNCHANGED <<day, batch, approval, machine, jobs, logs, worker, agent,
                 results, faults>>

NewJob(q) == [day |-> q.start, batch |-> q.stamp, status |-> "pending",
              claimed |-> FALSE, due |-> q.due, taken |-> FALSE,
              reopened |-> FALSE]

PassCommit(e) ==
  /\ pass[e].pc = "slots"
  /\ pass[e].todo = {} /\ pass[e].failed = {}
  /\ jobs' = [t \in Slots |-> IF t \in pass[e].chosen
                                THEN Append(jobs[t], NewJob(pass[e]))
                                ELSE jobs[t]]
  /\ batch' = IF pass[e].chosen = {} THEN batch ELSE batch + 1
  /\ pass' = [pass EXCEPT ![e] = Idle]
  /\ UNCHANGED <<day, approval, machine, logs, worker, agent, results,
                 faults>>

-----------------------------------------------------------------------------
(* The worker tick: four queries, then at most one job.  It completes a     *)
(* running job that no agent claimed, and starts a pending job that is not  *)
(* Linux only when nothing is running.  The session keeps the rows it       *)
(* loaded, so a job it read as pending still counts as unclaimed when an    *)
(* agent claims it before the running jobs are read.                        *)

WorkerMachines(w) ==
  /\ worker[w] = Idle
  /\ worker' = [worker EXCEPT ![w] = [pc |-> "patches", machines |-> machine]]
  /\ UNCHANGED <<day, batch, approval, machine, jobs, logs, pass, agent,
                 results, faults>>

WorkerPatches(w) ==
  /\ worker[w].pc = "patches"
  /\ worker' = [worker EXCEPT ![w] = [pc |-> "pending",
                                      machines |-> worker[w].machines,
                                      approved |-> Approved]]
  /\ UNCHANGED <<day, batch, approval, machine, jobs, logs, pass, agent,
                 results, faults>>

WithStatus(s) == {j \in AllJobs : JobOf(j).status = s}

WorkerPending(w) ==
  /\ worker[w].pc = "pending"
  /\ worker' = [worker EXCEPT ![w] = [pc |-> "running",
                                      machines |-> worker[w].machines,
                                      approved |-> worker[w].approved,
                                      pending |-> WithStatus("pending")]]
  /\ UNCHANGED <<day, batch, approval, machine, jobs, logs, pass, agent,
                 results, faults>>

(* What the tick makes of a job, from the machines and patches it read.     *)
BackendResult(q, j) ==
  IF q.machines[MachineOf(j)] = "absent" \/ PatchOf(j) \notin q.approved
    THEN "missing"
    ELSE IF q.machines[MachineOf(j)] = "offline" THEN "failed" ELSE "applied"

Startable(q) == {j \in q.pending : MachineOf(j) \in Windows}

Loaded(q, j) == ~JobOf(j).claimed \/ j \in q.pending

BackendJobsAny(q) == WithStatus("running")  \* mutant: claimed jobs not skipped
BackendJobs(q) == {j \in WithStatus("running") : Loaded(q, j)}

WorkerRunning(w) ==
  /\ worker[w].pc = "running"
  /\ LET q == worker[w]
     IN  \/ \E j \in BackendJobs(q) :
              worker' = [worker EXCEPT ![w] =
                [pc |-> "finish", job |-> j, result |-> BackendResult(q, j),
                 loaded |-> Loaded(q, j)]]
         \/ /\ WithStatus("running") = {}
            /\ \E j \in Oldest(Startable(q)) :
                 worker' = [worker EXCEPT ![w] = [pc |-> "start", job |-> j]]
         \/ /\ BackendJobs(q) = {}
            /\ WithStatus("running") # {} \/ Startable(q) = {}
            /\ worker' = [worker EXCEPT ![w] = Idle]
  /\ UNCHANGED <<day, batch, approval, machine, jobs, logs, pass, agent,
                 results, faults>>

WorkerStart(w) ==
  /\ worker[w].pc = "start"
  /\ WorkerWrites(worker[w].job, "running", TRUE)
  /\ worker' = [worker EXCEPT ![w] = Idle]
  /\ UNCHANGED <<day, batch, approval, machine, logs, pass, agent, results,
                 faults>>

(* A success first updates the machine row it read, which fails the tick   *)
(* when the machine was deleted meanwhile.                                 *)
WorkerHost(w) ==
  /\ worker[w].pc = "finish"
  /\ worker[w].result = "applied"
  /\ worker' = IF machine[MachineOf(worker[w].job)] = "absent"
                  THEN [worker EXCEPT ![w] = Idle]
                  ELSE [worker EXCEPT ![w].pc = "write"]
  /\ UNCHANGED <<day, batch, approval, machine, jobs, logs, pass, agent,
                 results, faults>>

WorkerFinish(w) ==
  /\ \/ worker[w].pc = "write"
     \/ worker[w].pc = "finish" /\ worker[w].result # "applied"
  /\ WorkerWrites(worker[w].job, FinalStatus(worker[w].result),
                  worker[w].loaded)
  /\ worker' = IF worker[w].result = "missing"
                  THEN [worker EXCEPT ![w] = Idle]
                  ELSE [worker EXCEPT ![w].pc = "log"]
  /\ UNCHANGED <<day, batch, approval, machine, logs, pass, agent, results,
                 faults>>

WorkerLog(w) ==
  /\ worker[w].pc = "log"
  /\ logs' = logs \cup {[job |-> worker[w].job, result |-> worker[w].result,
                         by |-> "worker"]}
  /\ worker' = [worker EXCEPT ![w] = Idle]
  /\ UNCHANGED <<day, batch, approval, machine, jobs, pass, agent, results,
                 faults>>

-----------------------------------------------------------------------------
(* Agents.  claim-job reads the oldest pending job of the caller's machine *)
(* and then writes it unconditionally.  The agent executes and reports     *)
(* once; it keeps nothing over a restart and repeats no request.           *)

ClaimableRetry(a) ==         \* mutant: a claim also takes failed jobs
  {j \in AllJobs : /\ MachineOf(j) = Host[a]
                   /\ JobOf(j).status \in {"pending", "failed"}}
ClaimableApproved(a) ==      \* mutant: jobs of unapproved patches skipped
  {j \in AllJobs : /\ MachineOf(j) = Host[a]
                   /\ JobOf(j).status = "pending"
                   /\ approval[PatchOf(j)] = "approved"}
Claimable(a) == {j \in AllJobs : /\ MachineOf(j) = Host[a]
                                 /\ JobOf(j).status = "pending"
                                 /\ ~JobOf(j).claimed}

ClaimRead(a) ==
  /\ agent[a] = Idle
  /\ machine[Host[a]] # "absent"
  /\ \E j \in Oldest(Claimable(a)) :
       agent' = [agent EXCEPT ![a] = [pc |-> "claiming", job |-> j]]
  /\ UNCHANGED <<day, batch, approval, machine, jobs, logs, pass, worker,
                 results, faults>>

ClaimUnstamped(j) ==        \* mutant: claimed_at is not written
  WriteJob(j, [JobOf(j) EXCEPT !.status = "running",
                               !.reopened = Reopens(j, "running")])
ClaimWrite(j) ==
  WriteJob(j, [JobOf(j) EXCEPT !.status = "running", !.claimed = TRUE,
                               !.reopened = Reopens(j, "running")])

ClaimCommit(a) ==
  /\ agent[a].pc = "claiming"
  /\ ClaimWrite(agent[a].job)
  /\ agent' = [agent EXCEPT ![a].pc = "executing"]
  /\ UNCHANGED <<day, batch, approval, machine, logs, pass, worker, results,
                 faults>>

ClaimLost(a) ==     \* committed, but the response never reaches the agent
  /\ faults < MaxFaults
  /\ agent[a].pc = "claiming"
  /\ ClaimWrite(agent[a].job)
  /\ agent' = [agent EXCEPT ![a] = Idle]
  /\ faults' = faults + 1
  /\ UNCHANGED <<day, batch, approval, machine, logs, pass, worker, results>>

Report(a) ==
  /\ agent[a].pc = "executing"
  /\ machine[Host[a]] # "absent"
  /\ \E o \in Outcome :
       results' = results \cup
         {[job |-> agent[a].job, by |-> a, outcome |-> o, step |-> "job",
           seen |-> "absent", host |-> FALSE]}
  /\ agent' = [agent EXCEPT ![a].pc = "reporting"]
  /\ UNCHANGED <<day, batch, approval, machine, jobs, logs, pass, worker,
                 faults>>

GiveUp(a) ==        \* the client times out while the API still handles it
  /\ faults < MaxFaults
  /\ agent[a].pc = "reporting"
  /\ agent' = [agent EXCEPT ![a] = Idle]
  /\ faults' = faults + 1
  /\ UNCHANGED <<day, batch, approval, machine, jobs, logs, pass, worker,
                 results>>

ReportLost(a) ==    \* host or agent crash, lost request, or 401 after deletion
  /\ agent[a].pc = "executing"
  /\ \/ machine[Host[a]] = "absent" /\ UNCHANGED faults
     \/ faults < MaxFaults /\ faults' = faults + 1
  /\ agent' = [agent EXCEPT ![a] = Idle]
  /\ UNCHANGED <<day, batch, approval, machine, jobs, logs, pass, worker,
                 results>>

-----------------------------------------------------------------------------
(* The result handler: three commits, with no check that the job is        *)
(* running or that the sender claimed it.  The log id is derived from the  *)
(* job id, so a second agent result for a job dies at the log insert; a    *)
(* success dies there too when the machine it read has been deleted.       *)

(* The response releases the agent, unless it gave up waiting.             *)
Respond(r) ==
  /\ results' = results \ {r}
  /\ agent' = IF agent[r.by] = [pc |-> "reporting", job |-> r.job]
                THEN [agent EXCEPT ![r.by] = Idle] ELSE agent

ResultJob(r) ==
  /\ r.step = "job"
  /\ SetStatus(r.job, FinalStatus(r.outcome))
  /\ results' = (results \ {r})
       \cup {[r EXCEPT !.step = "log", !.seen = approval[PatchOf(r.job)],
                       !.host = machine[MachineOf(r.job)] # "absent"]}
  /\ UNCHANGED <<day, batch, approval, machine, logs, pass, worker, agent,
                 faults>>

LogGuardrail(o) == o         \* mutant: the failure class logged as the result
LogResult(o) == IF o = "applied" THEN "applied" ELSE "failed"

HostLost(r) == r.outcome = "applied" /\ r.host
               /\ machine[MachineOf(r.job)] = "absent"

ResultLog(r) ==
  /\ r.step = "log"
  /\ IF HasLog(r.job) \/ HostLost(r)
       THEN Respond(r) /\ UNCHANGED logs
       ELSE /\ logs' = logs \cup
                 {[job |-> r.job, result |-> LogResult(r.outcome),
                   by |-> "agent"]}
            /\ results' = (results \ {r}) \cup {[r EXCEPT !.step = "patch"]}
            /\ UNCHANGED agent
  /\ UNCHANGED <<day, batch, approval, machine, jobs, pass, worker, faults>>

(* A patch row read as "pending" is not written back by a guardrail        *)
(* failure: the ORM finds no changed column.                               *)
PatchAfter(r) ==
  LET now == approval[PatchOf(r.job)]
  IN  CASE r.outcome = "applied" /\ r.seen # "absent" -> "absent"
        [] r.outcome = "guardrail" /\ r.seen \notin {"absent", "pending"}
             /\ now # "absent" -> "pending"
        [] OTHER -> now

ResultPatch(r) ==
  /\ r.step = "patch"
  /\ approval' = [approval EXCEPT ![PatchOf(r.job)] = PatchAfter(r)]
  /\ Respond(r)
  /\ UNCHANGED <<day, batch, machine, jobs, logs, pass, worker, faults>>

-----------------------------------------------------------------------------
(* The environment: operators, inventories, the calendar, API restarts.    *)

Review(p) ==
  /\ approval[p] # "absent"
  /\ \E v \in Verdicts : approval' = [approval EXCEPT ![p] = v]
  /\ UNCHANGED <<day, batch, machine, jobs, logs, pass, worker, agent,
                 results, faults>>

Discover(p) ==
  /\ approval[p] = "absent"
  /\ approval' = [approval EXCEPT ![p] = "pending"]
  /\ UNCHANGED <<day, batch, machine, jobs, logs, pass, worker, agent,
                 results, faults>>

Forget(p) ==
  /\ approval[p] # "absent"
  /\ approval' = [approval EXCEPT ![p] = "absent"]
  /\ UNCHANGED <<day, batch, machine, jobs, logs, pass, worker, agent,
                 results, faults>>

SetMachine(m) ==    \* edited by an operator, deleted, or added by an inventory
  /\ \E s \in MachineStates \ {machine[m]} :
       machine' = [machine EXCEPT ![m] = s]
  /\ UNCHANGED <<day, batch, approval, jobs, logs, pass, worker, agent,
                 results, faults>>

NewDay ==
  /\ day < MaxDay
  /\ day' = day + 1
  /\ UNCHANGED <<batch, approval, machine, jobs, logs, pass, worker, agent,
                 results, faults>>

ApiCrash ==         \* every request and pass in progress stops where it is
  /\ faults < MaxFaults
  /\ faults' = faults + 1
  /\ pass' = [e \in Passes |-> Idle]
  /\ worker' = [w \in Workers |-> Idle]
  /\ results' = {}
  /\ agent' = [a \in Procs |-> IF agent[a].pc = "executing" THEN agent[a]
                                                            ELSE Idle]
  /\ UNCHANGED <<day, batch, approval, machine, jobs, logs>>

-----------------------------------------------------------------------------
Pass(e) == \/ PassStart(e) \/ PassMachines(e) \/ PassExists(e)
           \/ PassCount(e) \/ PassCommit(e)
Enqueue == \E e \in Passes : Pass(e)
Worker(w) == \/ WorkerMachines(w) \/ WorkerPatches(w) \/ WorkerPending(w)
             \/ WorkerRunning(w) \/ WorkerStart(w) \/ WorkerHost(w)
             \/ WorkerFinish(w) \/ WorkerLog(w)
AgentStep(a) == ClaimRead(a) \/ ClaimCommit(a) \/ Report(a)
Handle == \E r \in results : ResultJob(r) \/ ResultLog(r) \/ ResultPatch(r)
Environment ==
  \/ \E p \in Patches : Review(p) \/ Discover(p) \/ Forget(p)
  \/ \E m \in Machines : SetMachine(m)
  \/ NewDay
Fault == \/ ApiCrash
         \/ \E a \in Procs : ClaimLost(a) \/ GiveUp(a) \/ ReportLost(a)

Next == \/ Enqueue
        \/ \E w \in Workers : Worker(w)
        \/ \E a \in Procs : AgentStep(a)
        \/ Handle
        \/ Environment
        \/ Fault

Spec == Init /\ [][Next]_vars

(* The scheduler and worker run on timers, an agent polls in a loop, and   *)
(* the API finishes the requests it took unless it crashes.  Operators,    *)
(* the calendar and faults owe nothing.                                    *)
Fairness == /\ WF_vars(Enqueue)
            /\ \A w \in Workers : WF_vars(Worker(w))
            /\ \A a \in Procs : WF_vars(AgentStep(a))
            /\ WF_vars(Handle)

FairSpec == Spec /\ Fairness

-----------------------------------------------------------------------------
(* Every variable stays in its type.                                       *)
MachineMap == [Machines -> {"online", "offline", "absent"}]
PassStates ==
  {Idle} \cup [pc : {"machines"}, start : Nat, stamp : Nat,
               approved : SUBSET Patches]
         \cup [pc : {"slots"}, start : Nat, stamp : Nat, due : Nat,
               todo : SUBSET Slots, failed : SUBSET Slots,
               chosen : SUBSET Slots]
WorkerStates ==
  {Idle} \cup [pc : {"patches"}, machines : MachineMap]
         \cup [pc : {"pending"}, machines : MachineMap,
               approved : SUBSET Patches]
         \cup [pc : {"running"}, machines : MachineMap,
               approved : SUBSET Patches, pending : SUBSET JobId]
         \cup [pc : {"start"}, job : JobId]
         \cup [pc : {"finish", "write", "log"}, job : JobId,
               result : {"missing", "applied", "failed"},
               loaded : BOOLEAN]

TypeOK ==
  /\ day \in 0..MaxDay
  /\ batch \in Nat
  /\ approval \in [Patches -> Approval]
  /\ machine \in MachineMap
  /\ jobs \in [Slots -> Seq(Job)]
  /\ logs \subseteq [job : JobId, result : {"applied", "failed"},
                     by : {"agent", "worker"}]
  /\ pass \in [Passes -> PassStates]
  /\ worker \in [Workers -> WorkerStates]
  /\ \A w \in Workers :
       worker[w].pc = "log" => worker[w].result \in {"applied", "failed"}
  /\ agent \in [Procs -> {Idle} \cup
                 [pc : {"claiming", "executing", "reporting"}, job : JobId]]
  /\ results \subseteq [job : JobId, by : Procs, outcome : Outcome,
                        step : {"job", "log", "patch"}, seen : Approval,
                        host : BOOLEAN]
  /\ faults \in 0..MaxFaults

JobsOn(t, d) == {i \in DOMAIN jobs[t] : jobs[t][i].day = d}

(* The slot's jobs of a day were all decided on for that day, and none left *)
(* "failed" again.  A pass that opens before midnight and looks at the      *)
(* clock after it dates its jobs back; a late claim, result or worker write *)
(* reopens a failed job under a pass that is counting.                      *)
Steady(t, d) == \A i \in JobsOn(t, d) : /\ jobs[t][i].due = d
                                       /\ ~jobs[t][i].reopened

(* "Failed jobs can be retried, but only up to MAX_RETRIES_PER_WINDOW       *)
(* times": a slot gets at most that many jobs dated on one day.  The two    *)
(* queries of a pass guarantee it for a slot none of whose failed jobs came *)
(* back, however results, ticks, crashes, clones and reviews interleave     *)
(* with them, also when a pass commits after midnight.                      *)
RetryBound == \A t \in Slots, d \in 0..MaxDay :
                Steady(t, d) => Cardinality(JobsOn(t, d)) <= MaxRetries

(* Of the jobs created for a slot on one day at most one is not failed: the *)
(* scheduler retries failures without duplicating pending, running or       *)
(* completed work (exists_active_or_completed_job_since), again unless a    *)
(* failed job came back.                                                    *)
NoDuplicateWork ==
  \A t \in Slots, d \in 0..MaxDay :
    Steady(t, d) =>
      Cardinality({i \in JobsOn(t, d) : jobs[t][i].status # "failed"}) <= 1

(* A job that an agent claimed and that the worker wrote in a tick that had *)
(* loaded it before the claim: each of the two writes its own outcome.      *)
Contested(j) == JobOf(j).taken /\ JobOf(j).claimed

(* A job that completed or failed keeps that status: no late claim, result  *)
(* or worker tick reopens or reverses it, so that nothing but a job with    *)
(* two masters escapes the retry bound.                                     *)
TerminalIsFinal ==
  [][\A j \in AllJobs :
       JobOf(j).status \in {"completed", "failed"} =>
         JobOf(j)'.status = JobOf(j).status \/ Contested(j)']_jobs

(* The execution log, which reports and dashboards read, tells the same     *)
(* outcome as the job row, for every job with one master that has a log.    *)
LogAgrees ==
  \A l \in logs :
    \/ Contested(l.job)
    \/ JobOf(l.job).status = (IF l.result = "applied" THEN "completed"
                                                      ELSE "failed")

(* One worker never has two jobs in hand: it starts one only when nothing   *)
(* runs, and a job reopened by the late claim of a clone stays the clone's. *)
OneBackendJob ==
  Cardinality({j \in AllJobs : /\ JobOf(j).status = "running"
                               /\ ~JobOf(j).claimed}) <= 1

(* Bookkeeping of the two bounds, for the slots a pass has asked about: the *)
(* jobs of its day all failed, and there is room for one more.              *)
OverFailedJobs ==
  \A e \in Passes : pass[e].pc = "slots" =>
    \A t \in pass[e].failed \cup pass[e].chosen :
      Steady(t, pass[e].due) =>
        \A i \in JobsOn(t, pass[e].due) : jobs[t][i].status = "failed"

PassHasRoom ==
  \A e \in Passes : pass[e].pc = "slots" =>
    \A t \in pass[e].chosen :
      Steady(t, pass[e].due) =>
        Cardinality(JobsOn(t, pass[e].due)) < MaxRetries

BoundInv == /\ TypeOK /\ OverFailedJobs /\ PassHasRoom
            /\ RetryBound /\ NoDuplicateWork

MaxJobs == MaxRetries * (MaxDay + 1)
HasStatus(t, i, S) == i \in DOMAIN jobs[t] /\ jobs[t][i].status \in S

(* A pending job of a host whose agent keeps polling is eventually taken,   *)
(* unless the host is deleted: oldest-first claims starve no job.           *)
PendingIsTaken ==
  \A t \in Slots, i \in 1..MaxJobs :
    HasStatus(t, i, {"pending"})
      ~> (~HasStatus(t, i, {"pending"}) \/ machine[t.machine] = "absent")

(* Without crashes and losses every result an agent sends ends in the       *)
(* execution log, unless its machine is deleted meanwhile: the log id keeps *)
(* no other job's result out.                                               *)
ResultIsLogged ==
  \A t \in Slots, i \in 1..MaxJobs :
    (\E r \in results : r.job = <<t, i>>)
      ~> (machine[t.machine] = "absent" \/ \E l \in logs : l.job = <<t, i>>)

(* Jobs stuck in running are expired as failed, which unblocks the          *)
(* deduplication and the retry of the scheduler.                            *)
StuckJobsExpire ==
  \A t \in Slots, i \in 1..MaxJobs :
    HasStatus(t, i, {"running"}) ~> ~HasStatus(t, i, {"running"})
=============================================================================
