# Formal verification of Patch Manager

TLA+ models of Patch Manager (the API under `src/apps/api`, its Linux and
Windows agents under `src/apps/agent-linux` and `src/apps/agent-windows`), the
configurations that model-check them with TLC, and theorems that TLAPS proves.

Patch Manager is a FastAPI server over PostgreSQL, two background timers inside
the API process, agents that poll the API over HTTP, and a React console. What
makes it hard is not one algorithm but the interleaving of these actors: every
repository call commits on its own (`add`, `update`, `upsert_request` and so on
end in `session.commit()`), objects stay loaded after a commit
(`expire_on_commit=False`, `core/database.py`), and an `UPDATE` writes only the
columns that changed since the load. A query does not refresh a row that the
session already has, and `created_at` is the start of the transaction that
inserts the row. A handler is therefore a sequence of queries and commits, each
of which sees the database of its own moment through rows loaded earlier, and
every other request may run in between. Cloned virtual machines, which present one agent id from several
hosts, add actors nobody planned for. The models keep exactly this: one action
per commit, and per query where two of them decide together, decisions taken on
what was loaded, writes column by column.

## 1. Inventory

### Components and the state they keep

| component | state | operations |
|---|---|---|
| Patch job cycle: `services/patch_cycle_service.py`, `repositories/patch_job_repository.py` | `patch_jobs`, `execution_logs`; reads `patches`, `machines`, `schedules` | `enqueue_jobs`, `process_pending_jobs` (start, complete, log), `expire_stuck_running_jobs`, `run_once` |
| Job endpoints: `api/v1/agents.py` 1957-2029, 2188-2402 | the same rows | `claim-job`, `jobs/{id}/result` |
| Scheduler: `services/scheduler_service.py` | APScheduler with two interval jobs | start, stop, trigger, enqueue tick, worker tick |
| Command queue: `repositories/agent_command_repository.py`, `agents.py` 1297-1493 and 2032-2185 | `agent_commands` | request reboot, upgrade, force-reidentify; claim; result; expiry of claims |
| Scheduled reboots: `patch_cycle_service.py` 118-196 | `agent_commands`, `post_patch_state` of `agent_inventory_snapshots` | `enqueue_due_reboot_commands` |
| Enrollment and credentials: `agents.py` 947-1018, 1209-1294, 1612-1694, repositories of enrollments and credentials, `api/deps.py` | `agent_enrollments`, `agent_credentials`, registry | enroll, approve, reject, reopen, requeue, revoke, reintegrate, authenticate |
| Machine identity: `agents.py` 206-291 and 1834-1890, `machines.py` 412-437 | identity columns of `machines` | adopt, auto-resolve, flag, review, resolve, delete |
| Inventory synchronisation: `agents.py` 294-340, 1717-1942, repositories of snapshots, items, machines, patches | `patches`, `machines`, snapshots, item tables | inventory upload: snapshot, items, machine row, patches, count |
| Agent main loop: `agent-linux/agent/main.py`, `agent-windows/agent/main.py` | key in the env file, nothing else | enroll, heartbeat, check-in, inventory, poll command, claim job, execute, report |
| Agent registry: `services/agent_registry_service.py` | in-memory presence, 120 s | heartbeat, check-in, disconnect |
| Patch and machine catalogue: `patches.py`, `machines.py` | `patches`, `machines` | approve, reject, delete, edit |
| Schedules and windows: `schedules.py`, `schemas/schedule.py`, `patch_cycle_service.py` 381-529 | `schedules` | create, edit, pause, delete; which windows are due, period keys |
| Execution settings: `settings.py`, `services/settings_service.py` | rows of `system_settings`, one of which is the list of operational events | update, show, getters that store defaults, record an event |
| Executors: `agent-linux/agent/executor.py`, `agent-windows/agent/executor.py` | the packages of the host | dry run, guardrails, install, reboot afterwards |
| Users, identity history, dashboard, reports, console, migrations, installers | rows or text | CRUD, queries, shell scripts |

### How they interact

- The scheduler's timers call the patch cycle in their own threads; `POST
  run-cycle` and `POST process-jobs` (`agents.py` 1032, 1041) call the same code
  in request threads, so passes and ticks may overlap.
- An enqueue pass reads patches, machines and earlier jobs, and inserts all new
  jobs in one commit. Jobs of Linux machines are taken by agents only; jobs of
  other machines by an agent or by the background worker, whichever comes first.
- Agents claim jobs and commands over HTTP, execute once, report once and keep
  nothing over a restart. A response that is lost leaves its commit behind.
- Results of jobs and commands, inventories and the reboot pass all write
  `post_patch_state`, which decides whether the next window reboots the host.
- An inventory creates and deletes patch rows and moves the identity of its
  machine row, both of which other handlers have loaded.
- A claim hands the host its orders: the settings of its platform, read one
  query at a time, and the reboot policy of the job's schedule. The executor
  obeys these, and its result deletes the patch, returns it to review or leaves
  it approved.
- Operators' requests change approvals, schedules and settings, delete machines,
  revoke keys and queue commands at any point of all this.

### What is hard, and what makes each component correct

Concurrency and failure are everywhere, so the properties below relate several
actors' steps. `PROJECT.json` lists each hazard at its line.

- **Patch job cycle**: never more than `MAX_RETRIES_PER_WINDOW` jobs a day for a
  slot, and no second job beside an unfinished or successful one, as long as no
  failed job comes back; a finished job stays finished and its log agrees with
  it, as long as it had one master; a pending job is eventually taken
  and a reported result eventually logged; a stuck job is expired.
- **Command queue**: one host per command; a reserved identity is never taken by
  two hosts; at most one active force-reidentify; verdicts stand; a host that
  saw its reboot accepted is not rebooted again in the window; a claim overtakes
  nothing that was queued before the claimed command was asked for; a pending
  command is eventually claimed.
- **Enrollment**: the key handed out is the key accepted; an approved host comes
  back; hosts settle instead of taking the key from one another for ever.
- **Machine identity**: clones are brought to an operator; a flagged machine can
  always be resolved; its baseline does not move while it is under review.
- **Schedules and windows**: a window opens on the days its row describes; every
  window of a dated schedule gets one reboot command; a pause is not undone by
  an edit that never saw it.
- **Execution policy**: at most one guardrail is on; the event list tells how
  the real-apply switch stands; a host installs, refuses and schedules reboots
  only as settings that stood during its claim allowed.
- **Inventory**: snapshot, items, patches and count end agreeing; an operator's
  verdict survives every inventory; a revoked agent leaves the registry.

## 2. Modules

| module | models | composed with |
|---|---|---|
| `PatchCycle` | patch job cycle, job endpoints, the agents' job loop | operators, inventories and calendar as environment actions |
| `MCPatchCycle` | constants for TLC | EXTENDS `PatchCycle` |
| `PatchCycleProofs` | types, retry bound, duplicates, the worker's one job, masters of jobs | EXTENDS `PatchCycle` |
| `AgentCommands` | command queue, reboot pass, hosts, installer, post-patch state | refines `CommandLedger` |
| `MCAgentCommands` | host symmetry for TLC | EXTENDS `AgentCommands` |
| `AgentCommandsProofs` | types, reservations and active reidentifications, for any passes | EXTENDS `AgentCommands` |
| `AgentAttemptsProofs` | reboots, verdicts and the refinement of `CommandLedger`, for passes that do not overlap | EXTENDS `AgentCommandsProofs` |
| `CommandLedger` | abstract promise of the queue: no overtaking, one holder, only retryable commands return | |
| `Enrollment` | enrollments, credentials, operators' decisions, agents' bootstrap | |
| `EnrollmentProofs` | types and keys, for any hosts and operator threads | EXTENDS `Enrollment` |
| `IdentityConflict` | the identity columns of a machine row shared by clones | |
| `IdentityConflictProofs` | theorems about `IdentityConflict` | EXTENDS `IdentityConflict` |
| `ScheduleWindow` | a schedule row, its editors, its windows and period keys, the reboot pass | |
| `MCScheduleWindow` | a calendar and a request body per recurrence | EXTENDS `ScheduleWindow` |
| `ScheduleWindowProofs` | types, opening hours, period keys, pauses | EXTENDS `ScheduleWindow` |
| `ExecutionPolicy` | settings, events, claim, executors, result | a job's patch only; the queue is `PatchCycle`'s |
| `MCExecutionPolicy` | hosts, first rows and request bodies | EXTENDS `ExecutionPolicy` |
| `ExecutionPolicyProofs` | types, guardrails, orders of a claim, events of the switch | EXTENDS `ExecutionPolicy` |
| `AgentInventory` | registry, snapshot, items, machine row, patches; the inventory request | the identity columns are `IdentityConflict`'s, the post-patch state `AgentCommands`' |
| `MCAgentInventory` | the reports of a host and its clone | EXTENDS `AgentInventory` |
| `AgentInventoryProofs` | types, verdicts, and what a lone inventory leaves | EXTENDS `AgentInventory` |

### PatchCycle

A slot is a (schedule, machine, patch) that the target selection of the enqueue
pass can pick; `jobs[slot]` is the sequence of its jobs in order of insertion and
a job is named `<<slot, i>>`. `created_at` is the start of the inserting
transaction, which a pass opens with its first query: a job has the `day` and
the `batch`, the number of `add_many` commits, of that moment, and "oldest
first" picks any of those with the least batch. `approval` and `machine` are the
columns other components write; `"absent"` is a deleted row.

| code | actions |
|---|---|
| `enqueue_jobs` | `PassStart` (patches), `PassMachines` (machines, clock, windows), for each slot `PassExists` and `PassCount`, `PassCommit` (`add_many`) |
| `process_pending_jobs` | `WorkerMachines`, `WorkerPatches`, `WorkerPending`, `WorkerRunning` (the four queries), `WorkerStart` |
| `_complete_running_job` | `WorkerHost` (machine row), `WorkerFinish`, `WorkerLog` |
| `claim_job_for_agent` | `ClaimRead`, `ClaimCommit`; `ClaimLost` when the answer never arrives |
| agent: execute and report | `Report`, `ReportLost`, `GiveUp` |
| `submit_agent_job_result` | `ResultJob`, `ResultLog`, `ResultPatch`: three commits |
| approve and reject, inventory's discover and forget, machine edits and deletion, midnight | `Review`, `Discover`, `Forget`, `SetMachine`, `NewDay` |
| restart of the API | `ApiCrash`: every pass, tick and handler stops where it is |

The worker's session keeps the rows of `list_pending` when `list_running` finds
them again, so a job claimed in between still has no claimer for it (`Loaded`),
and the worker finishes what the agent executes. History fields of a job say
when that has happened: `taken`, the worker wrote it in a tick that had loaded it
before any claim; `reopened`, some write took it out of failed; `due`, the day
whose windows its pass decided on, which midnight can make another than its
`day`. The properties say in these terms what the code guarantees: `Contested`
jobs, claimed and taken, have two masters, each of which writes its own outcome;
a slot's day is `Steady` if none of its jobs came back or was dated back.

Abstracted: which windows are due is any subset of the schedules (so every
outcome of `ScheduleWindow` is covered); execution on the host reports any
outcome it can (`ExecutionPolicy` says which); severity, categories and texts
are gone.

### AgentCommands

One agent id and the hosts that present it. A command is its index in the order
of inserting commits; `found` says how many commands there were when its
transaction began, which is its `created_at`. A request that committed late may
so be claimed before one that was in the queue when it committed (`Oldest`), and
`CommandLedger` promises only that none is claimed ahead of one that was queued
before its own request began. A host may accept a reboot whose command then
times out in the executor (`_run`, which turns a timeout into a failure):
`Execute` chooses acceptance apart from outcome, and `rebooted` counts what was
accepted from the first acceptance on that the executor saw. Requests, the reboot pass and the result handler are one
action per commit, with what they decided in `request`, `pass` and `results`.
`Claim` is atomic, as the single `UPDATE ... RETURNING` is
(`agent_command_repository.py` 96-107). `stale` abstracts the 15-minute claim
timeout; `period` the period key. `Install` restarts the host's service under
the reserved id, after which it polls another queue. An inventory reads the
post-patch state and clears it in a later commit (`InventoryRead`,
`InventoryClear`).

### Enrollment

One agent id; key 0 is "no key", keys are numbered in the order they are
generated. `Commit(row, seen, new)` is the ORM's write: the columns that differ
from what was loaded. `EnrollRead ... EnrollActivate` are the enroll handler,
`Call` any authenticated request of an agent, with its reaction to 401;
`OperatorRead`, `OperatorCredential`, `OperatorEnrollment` the operator
endpoints, whose two commits differ by operation. Enrolls of clones, automatic
renewals and operators' decisions overlap freely; `split` is a history variable
that says the last issuing of a key overlapped another, or was cut by a restart
between its two commits.

### IdentityConflict

One machine row; a host is its hardware fingerprint. An inventory locks the row
from load to commit (`with_for_update`, `agents.py` 1837) and is one action; a
resolution loads without a lock and commits later. `resolved` is the age of
`auto_resolved_at` against the oscillation window: never, recent or old.

### ScheduleWindow

A day is a number, a month is named by its first day (`Month`), a week counts
seven days from a Monday. `DueDay` and `OpenAt` are `_is_schedule_window_due`,
`PeriodKey` is `_schedule_period_key`, `Occurs` the reference definition written
from what an operator reads in the row: days counted, neighbours of the same
month compared. A PUT and a pause load the row and commit the columns that differ
(`UpdateRead`, `ToggleRead`, `EditCommit`). `revision` counts rewritings of the
windows, so that a command knows which version of the row it belongs to. The
seeded schedules have no dates and are paused.

A row without a date is anchored at the day it is asked about. Daily, weekly and
monthly windows of such a row therefore open every day, but a weekly period key
names the week and a monthly one the month: the row reboots at most once in it.
`OneCommandPerWindow` speaks of the others (`Dated`).

### ExecutionPolicy

A request is the list of its remaining queries and commits (`calls`), so that
any two interleave at every one. `Update` and `Show` spell out PUT and GET of
`/settings` in the order of the code; `Switch` reads the old value, stores the
new one and records an event, `Guardrail` stores its row and turns the other one
off. Rows are unset on a fresh install; most getters store the default they find
missing (`Fill`). An event is recorded by loading the list and storing it again
(`ReadEvents`, `SaveEvents`). A step that cannot change anything or be noticed is
passed over (`NoOp`): settings rows are never deleted, so a getter that finds
its row, and whose value nobody uses, does nothing whenever it runs.

`Claim` starts the reads of `claim_job_for_agent`, `Execute` is the executor of
either platform as an ordered list of checks (`LinuxOutcome`,
`WindowsOutcome`), apt, Windows Update and shutdown answering anything; `Result`
is the fate of the patch and the events it records. `stored` remembers which
values each row had since the claim began. `crossed` marks updates that
overlapped and commits over something not read, `cut` a restart in the middle of
an update. Agents' env-file switches are fallbacks for values a claim does not
carry; since every claim carries them, they decide nothing, which `HostObeys`
relies on. Timeouts, grace minutes and the enabled-by and enabled-at rows are
not kept, and the unique-key error of two first inserts is not told apart from
an overwrite.

### AgentInventory

The agent's row in five places: registry entry, snapshot, items, machine row,
patches. `InventoryStep` is `submit_agent_inventory` with one action per query
or commit that another request can notice, in its order; `Fails` is an exception
in the middle. The session's view is in `handler`: `seen` what was loaded,
`row` whether the machine row the session holds already has the count (a row
the handler inserted is read again, one it updated is not), `alone` whether no
other inventory overlapped it. A commit and the refresh of its row are one step.

A report lists updates and gives a total (`upgradable_packages`), which is stored
as it comes and counted anew from the patches at the end: the Windows agent
lists 25 at most and sends the number it found. An update is the patch it
becomes, so several items of one KB are one; the model writes it once. The form
of the machine takes any count, and the worker takes one from the count it
loaded (`Entered`); a review's verdict and a deletion also stand for those of a
job's result.

History: `torn` is raised by an inventory that overlaps another, fails or is cut
by a restart, and lowered by one that runs alone to its end; `drift` notes that
patches changed after an inventory counted them, or the machine row after one
loaded it; `deleted` the patches an operator or a job's result deleted since. They are exactly
what `CatalogueFollows` and `CountAgrees` exempt: what two overlapping inventories
leave, and what a change after the count leaves, is not promised by any property.

## 3. Runs

Distinct states are those of a complete search; every passing run finishes in
about three minutes or less with two workers.

| run | instance | checks | shows |
|---|---|---|---|
| `CycleWindows` | 1 Windows slot, 1 agent, 1 worker, 1 pass, 1 retry, 1 fault (1.1 M states) | `BoundInv`, `OneBackendJob`, `LogAgrees`, `TerminalIsFinal` | worker and agent take, finish and report the same jobs in every order, a tick and a pass interrupted between any two queries, a crash or loss anywhere; `BoundInv` is the invariant of the proof |
| `CycleQueue` | 1 Linux slot, 1 agent, 1 pass, 2 retries, 2 days, the machine may go (131 k states) | `TypeOK`, `RetryBound`, `NoDuplicateWork`, `PendingIsTaken`, `ResultIsLogged` | failed jobs retried up to the limit and over midnight; the jobs of two days share the queue, where oldest-first starves none and the log id lets every job's first result in |
| `CycleStuck` | 1 slot, 1 fault | `StuckJobsExpire` (violated) | see section 6 |
| `CycleTwoPasses` | 1 slot, 2 passes | `NoDuplicateWork` (violated) | see section 6 |
| `CommandsReidentify` | 2 hosts, 2 operator threads, 2 commands, 1 fault | `TypeOK`, `ReservedOnce`, `OneActiveReidentify`, `LedgerSpec` | claims that expire under a live installer, overlapping requests, refinement of `CommandLedger` |
| `CommandsReboot` | 1 host, 1 pass, 2 windows, 2 commands, policy "if-needed", 1 fault (786 k states) | `RebootOncePerPeriod`, `VerdictStands`, `LedgerSpec`, `PendingIsClaimed` | failed, lost and timed-out reboots, manual reboots that overtake, inventories that clear the state; a reboot that is queued again in front of others starves none |
| `EnrollClones` | 2 hosts, 1 operator, 3 operations, 1 fault (128 k states) | `TypeOK`, `HandedKeyWorks`, `ApprovalConnects`, `HostsSettle` | decisions over two clones overlapping with enrolls and automatic renewals, lost keys and answers, a restart anywhere |
| `EnrollRevoked` | 1 host, 3 operations | `RevokedReturnsPending` (violated) | see section 6 |
| `IdentityClones` | 2 reporting clones and a silent one, 2 operators, 4 operations, 3 windows | `TypeOK`, `FlagIsResolvable`, `ReviewStands`, `ClonesAreFlagged` | inventories interleaved with stale resolutions, deletion and the window |
| `Schedules` | 2 operators, 2 edits, 7 request bodies, 29 January to 1 March, 3 ticks a day, 2 commands (1.4 M states) | `TypeOK`, `OpensAsDescribed`, `OneCommandPerWindow`, `ResumeIsAsked` | every recurrence over month ends and a short month, windows cut at midnight, edits that mix two bodies, pauses raced by edits |
| `Policy` | a Linux or a Windows host, 2 operators, 4 bodies, 2 operations, 1 job, fresh upgrade or used console (1.4 M states) | `TypeOK`, `GuardrailsExclusive`, `SwitchTraced`, `HostObeys`, `RebootAuthorised` | updates that cross one another, a claim, a result's events or a restart at every query and commit |
| `Inventory` | a host and a clone, 2 updates, 1 operation (1.2 M states) | `TypeOK`, `CatalogueFollows`, `CountAgrees`, `ReviewSurvives`, `RevokedFades` | overlapping inventories, one of which lists fewer updates than it counts, with a review, deletion, edit, revocation or restart between any two of their commits |

### Bounds, and why they are enough

- `MaxRetries` is 2 in `CycleQueue`, so a slot is retried and then refused, and
  1 in `CycleWindows`, where the worker multiplies the states; the code's 3 is
  covered by the theorem. `MaxDay = 1` gives one midnight, which a pass, a claim
  and a result can each straddle.
- One slot is enough, since no query of the enqueue pass looks at another one;
  jobs of two days compete for the host's queue in `CycleQueue`.
- `CycleQueue` has no worker and lets the machine be deleted; `CycleWindows` has
  a worker race one agent and leaves the machine online, so that the worker
  fails a job only when its patch is approved no more. With clones, or with a machine that
  goes offline or away under the worker, the complete search takes too long;
  `BoundInvHolds` is proved for any number of agent processes and workers and
  any change of the machine.
- `MaxFaults = 1` puts one crash or loss at every point. Runs that state
  liveness of results use 0 because a lost message is lost for good: the agents
  retry nothing.
- `MaxCommands = 2` holds a stale command and its successor, or one reboot
  command for each of two windows. The bound guards only the start of a request
  or pass, so two overlapping requests may still insert.
- Two hosts are the smallest number of clones; `IdentityClones` has a third,
  silent one because its fingerprint is empty. `MaxOperations` and `MaxWindows`
  bound operators and the clock only; hosts never stop.
- The calendar of `Schedules` holds the end of a month of 31 days, a February of
  28 and a day of March: day 31, four and five of one weekday, the last of a
  month, weeks that straddle months. A day has three ticks and a window two, so
  that one window fits and another is cut at midnight.
- In `Policy` two updates, or an update and a restart, meet one job: the
  properties relate at most two updates and a claim. The event list holds two
  instead of fifty, so that it overflows. Bodies enable each guardrail, both
  platforms' switches, an unknown mode and a group's mode.
- `Inventory` has two updates, one that both reports may lack and one that they
  exchange, and one operator's request; approvals of a revoked agent and
  inventories are not bounded.
- `HostSymmetry`, `OperatorSymmetry` and `Symmetry` permute hosts or operators
  that the specifications treat alike and are used only in runs without
  liveness properties.
- `CHECK_DEADLOCK FALSE`: once operations and faults are used up, a rejected
  agent's process really stops (`EnrollClones`, `EnrollRevoked`), the calendar
  ends (`Schedules`), and there is no job left to claim (`Policy`).

### Fairness

`PatchCycle!FairSpec` assumes weak fairness of the enqueue pass and the worker
(interval timers), of each agent's steps (a polling loop) and of the result
handler; `AgentCommands!FairSpec` of hosts, handler and the closing of windows
(time passes); `Enrollment!FairSpec` of hosts and of operations the API has
begun; `IdentityConflict!FairSpec` of inventories and commits the API has begun;
`AgentInventory!FairSpec` of requests the API has begun and of the registry's age
(time passes). `ScheduleWindow` and `ExecutionPolicy` state safety only.
Operators, inventories' findings, faults and midnight are never assumed.

`PendingIsTaken` and `ResultIsLogged` except a deleted machine, whose agent can
no longer claim and whose log row has no host; `PendingIsClaimed` excepts an id
that all hosts have left.

## 4. What is proved

Every safety property a passing run checks is a theorem, for every value of the
constants (any schedules, machines, patches, agent processes, clones, operator
threads, request bodies, calendars and bounds). Some need a hypothesis on how
many actors of a kind there are; each is named in the statement.

| theorems | hypothesis | state |
|---|---|---|
| `PatchCycleProofs!TypeCorrect` | | `[]TypeOK` |
| `BoundInvHolds`, `RetryBoundHolds`, `NoDuplicateHolds` | `SerialPasses` | `[]BoundInv`, `[]RetryBound`, `[]NoDuplicateWork` |
| `OneBackendJobHolds` | `SerialTicks` | `[]OneBackendJob` |
| `HeldInvariant`, `LogAgreesHolds`, `TerminalHolds` | `OneProcess`, `SerialTicks` | `[]HeldInv`, `[]LogAgrees`, `TerminalIsFinal` |
| `AgentCommandsProofs!TypeCorrect`, `ReservedHolds`, `OneActiveHolds` | | `[]TypeOK`, `[]ReservedOnce`, `[]OneActiveReidentify` |
| `AgentAttemptsProofs!RebootOnceHolds`, `LedgerHolds` | `SerialPasses` | `[]RebootOncePerPeriod`, `LedgerSpec` |
| `VerdictHolds` | `SerialPasses`, no reidentification requested | `VerdictStands` |
| `EnrollmentProofs!TypeCorrect`, `KeyInvariant`, `HandedKeyHolds` | | `[]TypeOK`, `[]KeyInv`, `[]HandedKeyWorks` |
| `IdentityConflictProofs!TypeCorrect`, `FlagResolvable`, `ReviewHolds` | | `[]TypeOK`, `[]FlagIsResolvable`, `ReviewStands` |
| `ScheduleWindowProofs!TypeCorrect`, `OpensHolds`, `WindowsApart`, `ResumeHolds` | | `[]TypeOK`, `[]OpensAsDescribed`, `[]OneCommandPerWindow`, `ResumeIsAsked` |
| `ExecutionPolicyProofs!TypeCorrect`, `HostObeysHolds`, `RebootHolds`, `SwitchTracedHolds` | | `[]TypeOK`, `[]HostObeys`, `[]RebootAuthorised`, `[]SwitchTraced` |
| `GuardrailsHold` | no first row has both guardrails on | `[]GuardrailsExclusive` |
| `AgentInventoryProofs!TypeCorrect`, `VerdictSurvives`, `CatalogueHolds`, `CountHolds` | | `[]TypeOK`, `ReviewSurvives`, `[]CatalogueFollows`, `[]CountAgrees` |

The only other assumptions are those the modules state of their constants
(`ConstantsOK`, `CalendarOK`), which TLC evaluates in the runs.

What the hypotheses say of the program:

- `SerialPasses`, `SerialTicks`: enqueue and reboot passes, or worker ticks, do
  not overlap. The scheduler runs each of its two jobs in one instance
  at a time; the hypothesis is that nobody calls `run-cycle` or `process-jobs`
  while one runs. `CycleTwoPasses` shows what happens otherwise.
- `OneProcess`: a host runs one agent process, so no clone of it claims and
  reports under its id. With a clone a late claim or result reopens a finished
  job (section 6) that the worker never took; types, the two bounds and the
  worker's one job do not need the hypothesis.
- `VerdictHolds` excepts reidentifications, whose expired claims do go from
  failed to completed (section 6).
- `GuardrailsHold` excepts a start with both guardrails on, which only a restart
  between the two commits of an update leaves behind (`cut` within the model).

*Retry bound.* `RetryBound` is not inductive: a pass asks two questions about a
slot and inserts later, so an arbitrary state could hold a decision for a slot
that is full. `BoundInv` adds what a pass knows of the slots it has asked about:
after the first question, that the jobs of its day all failed
(`OverFailedJobs`), after the second, that there is room for one more
(`PassHasRoom`). Both speak of slots that are `Steady`, since a claim, result or
tick may take a job out of failed between the questions and the insert; a slot
that is not steady never becomes so again, as the history fields only grow. Every
other action is `Quiet`: it creates no job and leaves creation days alone. The
commit of a pass uses up the room it saw, at most one job for each slot; that
the room is still there is where `SerialPasses` is needed. Worker ticks, clones
and claims may overlap as they like. `NoDuplicateHolds` comes from the same
invariant: over failed jobs one new job is the only one that did not fail.

*Masters of a job.* `OneBackendJob` is inductive once `HandInv` adds that a tick
that is about to start a job found nothing running. The log and the final
statuses rest on one idea, `HeldInv`: a job that was claimed is written by its
agent alone, one that was taken by the worker alone, unless it is both. A claim
in progress holds it while it is pending, a host that executes it while it is
running and no result of it is under way, a result until its commits are
through (`AgentHolds`, `ResultHolds`), the worker from the load of its tick to
the log (`WorkerHolds`); a log's author has its flag (`Stamped`). What is left to
write of a finished job with one master is then its log and its patch, with the
outcome its status already has, and no step writes the status again (`HeldStep`,
from which `LogAgrees` and `TerminalIsFinal` follow).

*Command queue.* Each step writes the queue in one of three ways (`QueueStep`):
not at all, one fresh command at its end, or one command whose status moves.
`QInv` adds to the types what makes the properties inductive: `References` (what
a handler, a pass or a host names is a command of its kind), `Reserved` (a
reidentification is in the hands of one host and never pending again) and
`OnePerKind`. `ReservedOnce` alone is not inductive, because a host that is
still executing has neither taken nor scheduled the identity. For
`RebootOncePerPeriod` the invariant `SInv` says that a command has one attempt
at a time, a host at work on it or a result not committed, and that it is
running meanwhile (`Attempts`); that a pass resets only what is still failed
(`Writers`); and that as long as the command can be claimed or executed, or its
answer is a failure, no executor has seen the reboot accepted (`Reboots`). `Writers` is
where `SerialPasses` is needed: with two passes that read the same failed
command, the second one resets it after the first one's retry is claimed, the
host executes it twice, and TLC finds the second reboot. `VerdictHolds` reads the
same invariant as an action: a commit finds the command still running, or
retries one that failed in its own period. `LedgerHolds` maps each
status to its phase and `found` to `before`; the command with the least `found`
overtakes none that was there when its request began, because a command finds
fewer than its own place (`References`); the same invariant shows that a commit closes only what is
held.

*Identity.* `FlagIsResolvable` is not inductive either: a resolution writes only
the columns that differ from what it loaded, so it might clear a conflict and
leave a flag raised after the load. `IInv` shows it cannot: conflict and flag
are set together, in the machine and in every row a resolution has loaded.
`ReviewHolds` follows from the same invariant.

*Windows.* That a window is not refused for another day's key is a matter of
arithmetic and of history. `OneDayPerKey` does the first: two days that a dated
row asks for and that have one key are one day, by the quotient and remainder by
seven for weeks, by the position in the month for months, and by
`OneNthOfMonth` for the nth weekday. `IInv` adds the second, `CommandsBelong`:
the commands queued since the row was last rewritten were queued for days the
row asks for, under its keys. An edit that changes a window raises `revision`,
which no command has yet; a pause changes neither.

`OpensHolds` compares the code's arithmetic with the words of the row, for every
calendar: `(day - 1) div 7 + 1` counts the days of that weekday the month has had
(`NthOfMonth`, by a bijection), a month that changes seven days later has no
further one (`LastOfMonth`). Two edits that mix may leave an nth-weekday row
without a weekday: it never opens, in the code as in the reference definition.

*Keys.* `KeyInv` has three parts. Keys are numbered when generated, and no row,
handler or host names one that was not (`Fresh`). Unless an issuing overlapped
another or was cut, at most one renewal or approval is issuing (`OneIssuer`);
when none is, the enrollment names the credential's key or none, and between the
two commits of one the credential names the key the issuer has in hand, if its
commit is the first one done (`InStep`). A stale enroll cannot disturb that: a
commit writes only the columns that changed.

*Execution policy.* A request is the list of its remaining steps, so the
invariants speak of the shape of that list (`WellFormed`). A write that turns a
guardrail on is followed at once by the one that turns the other off (`Paired`),
hence two that are on mean an off to come (`OffToCome`) or a cut (`PairInv`).
For a claim, `ClaimInv` says that each value it has read is in the history
`stored` of its row, is the default of a missing one or the policy its schedule
imposes, and that every value the executor will use has been read or still will
be, so that whatever it obeys stood at some moment of the claim. The switch's
three steps, store, load the list, store the list, stand together in every list
(`Framed`); while no update crossed another and none was cut, only one request
is between them (`OneTurns`), what it still has to write equals the row
(`Agrees`), and the newest event of a list at rest tells the row (`Accounted`).
The first step that meets a condition is found by the least-number principle,
cited from the library in a form without an operator parameter (`LeastOf`).

*Inventories.* `ReviewSurvives` needs only types: `StatusAfter` is the current
status because an UPDATE writes no column the request did not assign. The rest
is an invariant about an inventory that no other has overlapped
(`CatalogueInv`): how far it is decides what already tells its report, snapshot
and items first (`Saved`), then the patches it has walked, a growing part of the
report against a shrinking rest (`Synced`), then the count, which agrees with
what was counted unless `drift` says that an operator, the worker or a job's
result came between (`Recounted`); until then the row has the total of the
report, which need not be that of its list.
Operators and results only delete patches and say so in `deleted` (`Untouched`),
so they leave each part true. Where two inventories do overlap neither is alone, and
`torn` stands until one runs alone to its end.

What stays with TLC: liveness (`PendingIsTaken`, `ResultIsLogged`,
`PendingIsClaimed`, `ApprovalConnects`, `HostsSettle`, `ClonesAreFlagged`,
`RevokedFades`), since the prover handles neither fairness nor `ENABLED`. TLC
also evaluates `BoundInv` in a run, as it is an invariant of a theorem.

## 5. What is not modelled

- The composition of all modules in one: `PatchCycle` takes any set of due
  schedules and any outcome, `AgentCommands` a counter for the period, where
  `ScheduleWindow` and `ExecutionPolicy` say which there are.
- Starting and stopping the scheduler; `stop` does not wait for a pass in
  progress, and a following `start` makes passes overlap, which is the situation
  of `CycleTwoPasses`.
- Bootstrap token, its rotation and expiry; timeouts and grace minutes. Each is
  one row that one check reads.
- The registry's own command queue (`enqueue_command`, `pop_next_command`),
  which nothing calls, and its copy of the post-patch state, which no decision
  reads.
- A PUT that renames a patch or gives it another target; titles, severity and
  category of updates, which the handlers only copy.
- Users and tokens; audit and history rows no decision reads; dashboard and
  reports (read-only); the web console, whose requests are the operators'
  actions; migrations and deployment; apt, Windows Update and shutdown, which
  answer anything; how an inventory is collected; the text of installers.
- Clocks that run backwards, and database isolation beyond one atomic commit.

## 6. Disagreements between code and documentation

Three are kept as runs that TLC must find violated:

- `CycleStuck`: `patch_cycle_service.py` 409-410 says that jobs stuck in running
  are expired as failed. Only `run_once` calls `expire_stuck_running_jobs`, and
  nothing calls `run_once`: a job whose agent dies stays running, keeps its slot
  from being retried that day and keeps the worker from starting another job.
- `CycleTwoPasses`: the check `exists_active_or_completed_job_since` promises
  retries "without duplicating pending/running/completed ones", but check and
  insert are separate, so the timer's pass and `run-cycle` can both insert. This
  is also why `RetryBoundHolds` assumes `SerialPasses`. The reboot pass is part
  of the same pass (`patch_cycle_service.py` 118-196), and two that overlap may
  reboot a host twice in one window after a failure: the runs of `AgentCommands`
  have one pass and its theorem the same assumption.
- `EnrollRevoked`: `docs/windows-agent-test-checklist.md:51` says a revoked host
  returns to the pending list. Revocation leaves the enrollment active, so the
  host enrolls, is handed its old key and is refused, until an operator requeues
  it. Reintegration leaves the same loop.

Others met while modelling, which the models reach but no run keeps:

- `patch_cycle_service.py` 74-75 says that failed jobs can be retried up to
  `MAX_RETRIES_PER_WINDOW` times. The worker takes a job that an agent claims
  between its queries of pending and of running jobs (203, 204) and fails it
  because the machine is offline; the agent's result writes completed over it
  between the two questions of a pass (77, 81). The first one does not see it
  because it has failed, the second because it has not, and the slot gets one
  job too many. `RetryBound` and `NoDuplicateWork` speak of slots none of whose
  failed jobs came back, `LogAgrees` and `TerminalIsFinal` except the job with
  two masters (`Contested`).
- A force-reidentify claim that expires (`agents.py` 1390) while its result
  handler is between check (2095) and write (2102) goes from failed to
  completed, although `test_force_reidentify.py:234` expects a contradicting
  result to be refused: `VerdictStands` is claimed only for reboots, and
  `CommandsReidentify` checks that one identity per host survives this.
- A command queued between a force-reidentify's check (`agents.py` 1424) and
  insert (1455) is ahead of it; `docs/agent-installation-guide.md:79` says the
  first clone to poll gets the reidentification.
- A manual reboot sets the post-patch state (`agents.py` 2160-2180), so the next
  window reboots a host no patch cycle touched, which
  `patch_cycle_service.py:511` and `:522` exclude.
- The enroll handler can write back a status it loaded before an operator
  rejected the host (`agent_enrollment_repository.py` 69, 86), after which the
  key is renewed automatically, although `README.md:120` requires approval.
- Two overlapping approvals, two overlapping renewals, or a crash between the
  two commits of one (`agents.py` 984-1005, 1626-1646), leave a key that is
  handed out beside the hash of another one;
  `docs/linux-agent-test-checklist.md:72` says approval connects the host.
  `HandedKeyWorks` and `HostsSettle` except exactly these (`split`), and
  `HandedKeyHolds` proves the first for any number of operator threads.
  `EnrollClones` has one for the sake of liveness: with two, a revocation
  between the two commits of an approval leaves a revoked credential under an
  approved enrollment, and no host connects.
- Three reporting clones never show the previous fingerprint again and are never
  flagged (`agents.py` 255). `IdentityClones` has two reporting clones for that
  reason.
- A resolution (`machines.py` 419-437) commits over a conflict recorded after
  its load and so discards the newer fingerprint.
- The worker finishes a job that an agent executes when the claim falls between
  its two queries (`patch_cycle_service.py` 203, 204), or between its load and
  its start on Windows (251); with two clones a late claim or result reopens a
  finished job as well (`agents.py` 1973, 2214). Job and log may then differ, and
  a retry may stand beside a job that succeeds after all: `LogAgrees` and
  `TerminalIsFinal` except jobs with two masters (`Contested`), the two bounds
  slots with a job that came back (`Steady`).
- A pass that opens before midnight and reads the clock after it dates its jobs
  to the day before (`patch_cycle_service.py` 51, 56), so the next pass of the
  new day does not see them and makes others.
- A reboot the host accepted but whose command timed out
  (`agent-linux/agent/executor.py` 9-25, 155-163; `agent-windows/agent/executor.py`
  29-45, 135-143) is reported as failed and is queued again in its window
  (`patch_cycle_service.py` 153), so the host may reboot twice.
- A command whose request began earlier and committed later is claimed first
  (`models/agent_command.py` 32-36).
- The count of an inventory in progress is the host's own number (`agents.py`
  1853, 1869), and `schemas/machine.py:42` takes any integer: no bound on it
  holds, so none is stated.
- A guardrail failure whose patch row was loaded as pending writes nothing; an
  inventory that read reboot-scheduled overwrites a later failure
  (`agents.py` 1750-1788); the patch result of a Linux host never updates the
  post-patch state because its platform is a distribution name
  (`agents.py` 2256); a window that opens less than an hour before midnight is
  cut there (`patch_cycle_service.py` 445-447).
- The comment at `agents.py:2239` says that the patch was installed and leaves
  the catalogue. A dry run (`agent-linux/agent/executor.py` 249-257,
  `agent-windows/agent/executor.py` 247-255) and a Windows scan without
  installation (268-281) are "applied" as well: the approved patch is deleted,
  nothing was installed, and the next inventory brings it back unreviewed.
- With real apply disabled a failing simulation is reported as apt's error
  (`agent-linux/agent/executor.py` 197-204), so the patch stays approved and is
  tried again every day.
- The comment at `agents.py:1836` says inventories of one agent are serialised.
  The lock ends at the machine row's commit; items, patches and count of two
  clones mix until one inventory runs alone (`torn`). A request admitted before
  the agent's revocation or its machine's deletion brings both entry and row
  back.
- An inventory whose new count equals the one its session holds writes nothing,
  so a count an operator's form put back (`machines.py` 404) stays.
- Two operators who enable different guardrails at once can end with none on
  (`settings_service.py` 141-146, 156-161); a getter that stores a default can
  overwrite a first configuration (135); a restart between the two commits
  leaves both on; overlapping events are lost (369).
- A job whose schedule is deleted before the claim falls under the global reboot
  policy (`agents.py` 1986-1996).

## 7. What could follow

1. *Proofs.* What holds of the log when clones do claim: a finished job is
   reopened only by a claim or result loaded before it was finished.
2. *Scheduler.* Start and stop of the timers, and passes that outlive a stop.
3. *An abstract specification of the patch cycle*, a slot's day as seen by an
   operator, with `PatchCycle` refining it for one agent process.
