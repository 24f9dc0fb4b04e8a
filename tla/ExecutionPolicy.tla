-------------------------- MODULE ExecutionPolicy --------------------------
(***************************************************************************)
(* The execution settings and the patch job they govern: operators change  *)
(* setting rows one commit at a time, a claim reads them one query at a    *)
(* time, the host executes under what it was told, and the result removes  *)
(* the patch, sends it back to review or leaves it approved.  The queue of *)
(* jobs is that of PatchCycle; here a claim takes a job of one patch.      *)
(*                                                                         *)
(* A request is the list of the steps it still has to take, each one query *)
(* or one commit, and the values it has read.                              *)
(***************************************************************************)
EXTENDS Naturals, Sequences, FiniteSets

CONSTANTS
  Operators,    \* threads serving PUT and GET requests on the settings
  Agent,        \* the thread serving the agent's requests
  Bodies,       \* bodies of PUT /settings/execution-mode
  Machines,     \* hosts to choose from, with the package of the patch
  FirstRows,    \* setting rows at first: none on a fresh install, those an
                \* older version knew after an upgrade
  EventLimit,   \* length of the stored list of operational events
  MaxOperations,  \* bound: requests of operators and restarts
  MaxJobs       \* bound: jobs claimed

Switches == {"real_apply", "security_only", "security_and_critical",
             "scan_apply", "download_install"}
Keys == Switches \cup {"mode", "group", "patterns", "reboot_policy"}
Values(k) ==
  CASE k \in Switches -> {"on", "off"}
    [] k \in {"mode", "group"} -> {"dry-run", "apply"}
    [] k = "patterns" -> {"any", "listed"}
    [] k = "reboot_policy" -> {"manual", "notify", "maintenance-window"}
Texts == UNION {Values(k) : k \in Keys}

Machine == [platform : {"linux", "windows"},
            security : BOOLEAN, critical : BOOLEAN,  \* of the package
            listed : BOOLEAN, safe : BOOLEAN,        \* its name
            grouped : BOOLEAN,                       \* machine.group is set
            enable_real_apply : {"on", "off"},       \* env file of the agent
            reboots : BOOLEAN]                       \* enable_host_reboot
Body == [Keys -> Texts \cup {"unset", "other"}]

ASSUME ConstantsOK ==
  /\ Agent \notin Operators
  /\ Bodies \subseteq Body
  /\ \A b \in Bodies, k \in Keys \ {"mode", "reboot_policy"} :
       b[k] \in Values(k) \cup {"unset"}
  /\ Machines \subseteq Machine
  /\ FirstRows \subseteq [Keys -> Texts \cup {"unset"}]
  /\ \A rows \in FirstRows, k \in Keys : rows[k] \in Values(k) \cup {"unset"}
  /\ EventLimit \in Nat \ {0}
  /\ MaxOperations \in Nat /\ MaxJobs \in Nat

VARIABLES
  machine,    \* the host and its package
  settings,   \* system_settings rows
  events,     \* operational_events row: a list, newest first
  calls,      \* per thread, the steps left and the values read
  patch,      \* approval_status of the patch row, or "absent"
  agent,      \* what the agent is doing
  installed,  \* the host has the version the patch stands for
  stored,     \* history: values the rows had since the claim began
  crossed,    \* history: updates overlapped, or a commit overwrote what
              \* its request had not read
  cut,        \* history: a restart cut an update short
  operations, jobs   \* how many so far

vars == <<machine, settings, events, calls, patch, agent, installed, stored,
          crossed, cut, operations, jobs>>

Threads == Operators \cup {Agent}
Idle == [todo |-> <<>>, seen |-> <<>>]
NoValues == [k \in {} |-> {}]
Resting == [pc |-> "idle", under |-> "none", outcome |-> "none",
            reboot |-> "none"]

-----------------------------------------------------------------------------
(* Settings service.                                                       *)

Linux == machine.platform = "linux"
LinuxDefault(k) ==
  CASE k \in {"real_apply", "security_only", "security_and_critical"} -> "off"
    [] k = "mode" -> "dry-run"
    [] k = "group" -> "unset"
    [] k = "patterns" -> "any"
    [] k = "reboot_policy" -> "manual"
WindowsDefault(k) == IF k = "reboot_policy" THEN "manual" ELSE "on"
Default(k) ==
  IF k \in {"scan_apply", "download_install"} THEN WindowsDefault(k)
  ELSE LinuxDefault(k)
Filled == Keys \ {"mode", "group"}    \* a getter stores the default of these

ModeRaw(m) == m                       \* mutant: no normalisation
NormalizedMode(m) == IF m \in {"dry-run", "apply"} THEN m ELSE "dry-run"
NormalizedPolicy(r) ==
  IF r \in {"manual", "notify", "maintenance-window"} THEN r ELSE "manual"

Step(op, k, v) == <<[op |-> op, key |-> k, value |-> v, list |-> <<>>]>>
See(k) == Step("see", k, "")
Put(k, v) == Step("put", k, v)
Trace(k, v) == Step("trace", k, v)
Note(v) == Step("note", "job", v)

GuardrailAlone(k, other, v) == Put(k, v)   \* mutant: the other one stays on
Guardrail(k, other, v) ==
  Put(k, v) \o (IF v = "on" THEN Put(other, "off") ELSE <<>>)
SwitchReadLate(k, v) ==               \* mutant: the old value is read too late
  Put(k, v) \o See(k) \o Trace(k, v)
Switch(k, v) == See(k) \o Put(k, v) \o Trace(k, v)

Given(b, k, steps) == IF b[k] = "unset" THEN <<>> ELSE steps
Show == See("real_apply") \o See("security_only")
        \o See("security_and_critical") \o See("patterns")
        \o (IF Linux THEN See("reboot_policy") ELSE <<>>)
        \o See("scan_apply") \o See("download_install")
        \o (IF Linux THEN <<>> ELSE See("reboot_policy"))
RebootPolicy(r) ==
  IF Linux THEN Put("reboot_policy", NormalizedPolicy(r))
  ELSE See("reboot_policy") \o Put("reboot_policy", NormalizedPolicy(r))
       \o Trace("reboot_policy", r)

Update(b) ==
  (IF b["group"] # "unset" THEN Put("group", NormalizedMode(b["mode"]))
   ELSE See("scan_apply")
        \o Put("mode", NormalizedMode(b["mode"]))
        \o Given(b, "real_apply", Switch("real_apply", b["real_apply"]))
        \o Given(b, "security_only",
                 Guardrail("security_only", "security_and_critical",
                           b["security_only"]))
        \o Given(b, "security_and_critical",
                 Guardrail("security_and_critical", "security_only",
                           b["security_and_critical"]))
        \o Given(b, "patterns", Put("patterns", b["patterns"]))
        \o (IF Linux
            THEN Given(b, "reboot_policy", RebootPolicy(b["reboot_policy"]))
            ELSE <<>>)
        \o Given(b, "scan_apply", Put("scan_apply", b["scan_apply"])
                                  \o Trace("scan_apply", b["scan_apply"]))
        \o Given(b, "download_install",
                 Switch("download_install", b["download_install"]))
        \o (IF Linux THEN <<>>
            ELSE Given(b, "reboot_policy", RebootPolicy(b["reboot_policy"]))))
  \o Show

(* A step that changes nothing is passed over: a getter finds its row      *)
(* stored and nobody uses what it read, or an update finds that it left    *)
(* the value as it was.                                                    *)
UsedByHost ==
  {"reboot_policy"} \cup
  (IF Linux THEN Keys \ {"scan_apply", "download_install"}
   ELSE {"scan_apply", "download_install"})
Unused(p, todo, k) ==
  IF p = Agent THEN agent.pc # "claim" \/ k \notin UsedByHost
  ELSE \A j \in DOMAIN todo : ~(todo[j].op = "trace" /\ todo[j].key = k)
NoOp(p, todo, s, seen, rows) ==
  \/ s.op = "trace" /\ s.key \in DOMAIN seen /\ seen[s.key] = s.value
  \/ s.op = "see" /\ rows[s.key] # "unset" /\ Unused(p, todo, s.key)
Rest(p, todo, seen, rows) ==
  LET Passed(i) == NoOp(p, todo, todo[i], seen, rows)
      next == CHOOSE n \in 1..(Len(todo) + 1) :
                /\ \A i \in 1..(n - 1) : Passed(i)
                /\ n <= Len(todo) => ~Passed(n)
  IN  SubSeq(todo, next, Len(todo))

At(p, ops) == calls[p].todo # <<>> /\ Head(calls[p].todo).op \in ops
Writing(p) ==
  \E i \in DOMAIN calls[p].todo : calls[p].todo[i].op # "see"
Advance(p, seen, rows) ==
  LET todo == Rest(p, Tail(calls[p].todo), seen, rows)
  IN  calls' = [calls EXCEPT ![p] =
                  IF todo = <<>> /\ p # Agent THEN Idle
                  ELSE [todo |-> todo, seen |-> seen]]
Noticed(p, k, v) ==                   \* what p keeps of what it read
  IF Unused(p, calls[p].todo, k) THEN calls[p].seen
  ELSE [x \in DOMAIN calls[p].seen \cup {k} |->
          IF x = k THEN v ELSE calls[p].seen[x]]
Claiming == agent.pc = "claim" /\ calls[Agent].todo # <<>>
Store(k, v) ==
  /\ settings' = [settings EXCEPT ![k] = v]
  /\ stored' = IF Claiming THEN [stored EXCEPT ![k] = @ \cup {v}] ELSE stored

Recorded(list, k, v) ==
  LET all == <<[key |-> k, value |-> v]>> \o list
  IN  SubSeq(all, 1, IF Len(all) <= EventLimit THEN Len(all) ELSE EventLimit)

Init ==
  /\ machine \in Machines
  /\ settings \in FirstRows
  /\ events = IF settings["real_apply"] = "on"
              THEN Recorded(<<>>, "real_apply", "on") ELSE <<>>
  /\ calls = [p \in Threads |-> Idle]
  /\ patch = "approved"
  /\ agent = Resting
  /\ installed = FALSE
  /\ stored = NoValues
  /\ crossed = FALSE /\ cut = FALSE
  /\ operations = 0 /\ jobs = 0

-----------------------------------------------------------------------------
(* The steps of a request.                                                 *)

(* A getter reads its row; most getters then store a default that is       *)
(* missing.                                                                *)
Get(p) ==
  /\ At(p, {"see"})
  /\ LET k == Head(calls[p].todo).key
     IN  IF settings[k] = "unset" /\ k \in Filled
         THEN calls' = [calls EXCEPT ![p].todo[1].op = "fill"]
         ELSE Advance(p, Noticed(p, k, IF settings[k] = "unset"
                                       THEN Default(k) ELSE settings[k]),
                      settings)
  /\ UNCHANGED <<machine, settings, events, patch, agent, installed, stored,
                 crossed, cut, operations, jobs>>

Fill(p) ==
  /\ At(p, {"fill"})
  /\ LET k == Head(calls[p].todo).key
     IN  /\ Store(k, Default(k))
         /\ Advance(p, Noticed(p, k, Default(k)), settings')
         /\ crossed' = (crossed \/ settings[k] # "unset")
  /\ UNCHANGED <<machine, events, patch, agent, installed, cut, operations,
                 jobs>>

Set(p) ==
  /\ At(p, {"put"})
  /\ LET s == Head(calls[p].todo)
     IN  /\ Store(s.key, s.value)
         /\ Advance(p, calls[p].seen, settings')
  /\ UNCHANGED <<machine, events, patch, agent, installed, crossed, cut,
                 operations, jobs>>

(* record_operational_event loads the list of events and stores it again   *)
(* with the new one in front, cut to its limit.                            *)
ReadEvents(p) ==
  /\ At(p, {"trace", "note"})
  /\ calls' = [calls EXCEPT ![p].todo[1] =
                  [@ EXCEPT !.op = "save", !.list = events]]
  /\ UNCHANGED <<machine, settings, events, patch, agent, installed, stored,
                 crossed, cut, operations, jobs>>

SaveEvents(p) ==
  /\ At(p, {"save"})
  /\ LET s == Head(calls[p].todo)
     IN  /\ events' = Recorded(s.list, s.key, s.value)
         /\ crossed' = (crossed \/ events # s.list)
  /\ Advance(p, calls[p].seen, settings)
  /\ UNCHANGED <<machine, settings, patch, agent, installed, stored, cut,
                 operations, jobs>>

-----------------------------------------------------------------------------
(* Operators.                                                              *)

Begin(o, todo) ==
  /\ calls[o] = Idle
  /\ operations < MaxOperations
  /\ operations' = operations + 1
  /\ calls' = [calls EXCEPT ![o].todo = Rest(o, todo, <<>>, settings)]
  /\ UNCHANGED <<machine, settings, events, patch, agent, installed, stored,
                 cut, jobs>>

UpdateSettings(o, b) ==
  /\ Begin(o, Update(b))
  /\ crossed' = (crossed \/ \E q \in Operators \ {o} : Writing(q))

ShowSettings(o) ==
  /\ Begin(o, Show)
  /\ UNCHANGED crossed

Approve ==
  /\ patch = "pending"
  /\ patch' = "approved"
  /\ UNCHANGED <<machine, settings, events, calls, agent, installed, stored,
                 crossed, cut, operations, jobs>>

-----------------------------------------------------------------------------
(* The agent: claim, execution, result.                                    *)

(* The label of the schedule's reboot policy forbids it, or does not.      *)
PreventsNothing(s) == FALSE           \* mutant: the schedule is not asked
Prevents(s) == s = "forbids"

ClaimReads(schedule) ==
  (IF Prevents(schedule) THEN <<>> ELSE See("reboot_policy"))
  \o (IF ~Linux THEN <<>>
      ELSE See("mode") \o (IF machine.grouped THEN See("group") ELSE <<>>))
  \o See("real_apply") \o See("security_only")
  \o See("security_and_critical") \o See("patterns")
  \o See("scan_apply") \o See("download_install")

(* The schedule may have been edited since it made the job; a deleted one  *)
(* forbids nothing.                                                        *)
Claim ==
  /\ agent.pc = "idle"
  /\ patch = "approved"
  /\ jobs < MaxJobs
  /\ jobs' = jobs + 1
  /\ stored' = [k \in Keys |-> {settings[k]}]
  /\ \E schedule \in {"allows", "forbids"} :
       /\ agent' = [Resting EXCEPT !.pc = "claim", !.under = schedule]
       /\ calls' = [calls EXCEPT ![Agent] =
                      [todo |-> ClaimReads(schedule),
                       seen |-> IF Prevents(schedule)
                                THEN [k \in {"reboot_policy"} |-> "manual"]
                                ELSE <<>>]]
  /\ UNCHANGED <<machine, settings, events, patch, installed, crossed, cut,
                 operations>>

FlagOrFallback(v, fallback) ==        \* mutant: off falls back to the file
  IF v = "on" THEN "on" ELSE fallback
RuntimeFlag(v, fallback) == IF v = "unset" THEN fallback ELSE v

Told(k) == IF k \in DOMAIN calls[Agent].seen THEN calls[Agent].seen[k]
           ELSE "unset"
Mode ==
  IF ~Linux THEN "apply"
  ELSE IF Told("group") = "unset" THEN Told("mode") ELSE Told("group")
RealApply == RuntimeFlag(Told("real_apply"), machine.enable_real_apply) = "on"
Allowed(patterns) == patterns = "any" \/ machine.listed

(* What apt answers: works says that apt-cache policy does, done that the  *)
(* command that follows succeeds.                                          *)
HasSecurityCandidate(works) == works /\ machine.security
FirstOf(checks) ==
  checks[CHOOSE i \in DOMAIN checks :
           checks[i][1] /\ \A j \in 1..(i - 1) : ~checks[j][1]][2]
LinuxOutcome(works, done) ==
  FirstOf(<<
    <<Mode # "apply" /\ works, "dry-run">>,
    <<Mode # "apply", "error">>,
    <<~RealApply /\ done, "real-apply-disabled">>,
    <<~RealApply, "error">>,
    <<~machine.safe, "invalid-name">>,
    <<~Allowed(Told("patterns")), "not-allowed">>,
    <<works /\ installed, "latest">>,
    <<Told("security_only") = "on" /\ ~HasSecurityCandidate(works),
      "security-only">>,
    <<Told("security_and_critical") = "on" /\ ~machine.critical
        /\ ~HasSecurityCandidate(works), "security-and-critical">>,
    <<done, "installed">>,
    <<TRUE, "error">> >>)

(* The installation through Windows Update: what its search no longer      *)
(* finds, installed meanwhile or withdrawn, counts as applied.             *)
WuaInstall(found, done) ==
  FirstOf(<<
    <<~done, "error">>,
    <<installed \/ ~found, "latest">>,
    <<TRUE, "installed">> >>)

WindowsOutcome(found, done) ==
  FirstOf(<<
    <<RuntimeFlag(Told("scan_apply"), machine.enable_real_apply) # "on",
      "windows-disabled">>,
    <<RuntimeFlag(Told("download_install"), machine.enable_real_apply) # "on",
      IF done THEN "scan-only" ELSE "error">>,
    <<TRUE, WuaInstall(found, done)>> >>)

Applied == {"installed", "latest", "dry-run", "scan-only"}
Guardrails == {"real-apply-disabled", "invalid-name", "not-allowed",
               "security-only", "security-and-critical", "windows-disabled"}
(* handle_post_apply_reboot: shutdown says that the command succeeds.      *)
SchedulesReboot(shutdown) ==
  /\ Told("reboot_policy") = "maintenance-window"
  /\ machine.reboots
  /\ shutdown
AsksReboot == IF Linux THEN {"installed"} ELSE Applied \ {"dry-run"}
RebootAfter(outcome, required, shutdown) ==
  IF outcome \notin AsksReboot \/ ~required THEN "none"
  ELSE IF SchedulesReboot(shutdown) THEN "scheduled"
  ELSE "required"

(* The host executes the job it was told; required says that it now asks   *)
(* for a reboot.                                                           *)
Execute ==
  /\ agent.pc = "claim"
  /\ calls[Agent].todo = <<>>
  /\ \E works, done, required, shutdown \in BOOLEAN :
       LET outcome == IF Linux THEN LinuxOutcome(works, done)
                      ELSE WindowsOutcome(works, done)
       IN  /\ agent' = [agent EXCEPT
                          !.pc = "report", !.outcome = outcome,
                          !.reboot = RebootAfter(outcome, required, shutdown)]
           /\ installed' = (installed \/ outcome = "installed")
  /\ UNCHANGED <<machine, settings, events, calls, patch, stored, crossed,
                 cut, operations, jobs>>

(* The result: a patch that was applied leaves the catalogue, one that a   *)
(* guardrail refused goes back to review; then the events of an apply.     *)
PatchAfterResult(outcome) ==
  IF patch = "absent" THEN "absent"
  ELSE IF outcome \in Applied THEN "absent"
  ELSE IF outcome \in Guardrails THEN "pending"
  ELSE patch
ResultNotes ==
  IF Mode # "apply" THEN <<>>
  ELSE IF agent.outcome \notin Applied THEN Note("failed")
  ELSE Note("applied")
       \o (IF agent.reboot = "none" THEN <<>>
           ELSE See("reboot_policy") \o Note("reboot-required"))
       \o (IF agent.reboot = "scheduled" THEN Note("reboot-scheduled")
           ELSE <<>>)

Result ==
  /\ agent.pc = "report"
  /\ patch' = PatchAfterResult(agent.outcome)
  /\ agent' = [Resting EXCEPT !.pc = "result"]
  /\ calls' = [calls EXCEPT ![Agent] = [todo |-> ResultNotes, seen |-> <<>>]]
  /\ stored' = NoValues
  /\ UNCHANGED <<machine, settings, events, installed, crossed, cut,
                 operations, jobs>>

Answered ==
  /\ agent.pc = "result"
  /\ calls[Agent].todo = <<>>
  /\ agent' = Resting
  /\ calls' = [calls EXCEPT ![Agent] = Idle]
  /\ UNCHANGED <<machine, settings, events, patch, installed, stored, crossed,
                 cut, operations, jobs>>

(* An inventory brings back a patch whose version the host still lacks and *)
(* drops one that it has.                                                  *)
Inventory ==
  /\ agent.pc = "idle"
  /\ patch' = IF installed THEN "absent"
              ELSE IF patch = "absent" THEN "pending" ELSE patch
  /\ patch' # patch
  /\ UNCHANGED <<machine, settings, events, calls, agent, installed, stored,
                 crossed, cut, operations, jobs>>

(* A restart of the API ends every request; an agent whose call fails goes *)
(* back to its loop.                                                       *)
Restart ==
  /\ operations < MaxOperations
  /\ operations' = operations + 1
  /\ LET failed == Claiming \/ agent.pc \in {"report", "result"}
     IN  /\ calls' = [p \in Threads |->
                        IF p = Agent /\ ~failed THEN calls[p] ELSE Idle]
         /\ agent' = IF failed THEN Resting ELSE agent
         /\ stored' = IF failed THEN NoValues ELSE stored
  /\ cut' = (cut \/ \E o \in Operators : Writing(o))
  /\ UNCHANGED <<machine, settings, events, patch, installed, crossed, jobs>>

OperatorNext(o) ==
  \/ \E b \in Bodies : UpdateSettings(o, b)
  \/ ShowSettings(o)
RequestNext(p) == Get(p) \/ Fill(p) \/ Set(p) \/ ReadEvents(p) \/ SaveEvents(p)
AgentNext == Claim \/ Execute \/ Result \/ Answered \/ Inventory
Next ==
  \/ \E o \in Operators : OperatorNext(o)
  \/ \E p \in Threads : RequestNext(p)
  \/ AgentNext
  \/ Approve \/ Restart

Spec == Init /\ [][Next]_vars

-----------------------------------------------------------------------------
(* Properties.                                                             *)

(* The rows hold only values that their getters understand, whatever mode  *)
(* or policy a request asks for.                                           *)
StepType == [op : {"see", "fill", "put", "trace", "note", "save"},
             key : Keys \cup {"job"}]
TypeOK ==
  /\ machine \in Machines
  /\ \A k \in Keys : settings[k] \in Values(k) \cup {"unset"}
  /\ Len(events) <= EventLimit
  /\ \A p \in Threads : \A i \in DOMAIN calls[p].todo :
       LET s == calls[p].todo[i] IN [op |-> s.op, key |-> s.key] \in StepType
  /\ agent.under \in {"none", "allows", "forbids"}
  /\ patch \in {"pending", "approved", "absent"}
  /\ agent.pc \in {"idle", "claim", "report", "result"}
  /\ installed \in BOOLEAN /\ crossed \in BOOLEAN /\ cut \in BOOLEAN
  /\ operations <= MaxOperations /\ jobs <= MaxJobs

(* The two guardrails of Linux are mutually exclusive, as the comment in   *)
(* the setters says: however updates overlap, once none is in flight and   *)
(* none was cut short by a restart, at most one is on.  Each setter stores *)
(* its own row first and turns the other one off after it.                 *)
GuardrailsExclusive ==
  (~cut /\ \A o \in Operators : ~Writing(o))
    => {settings["security_only"], settings["security_and_critical"]}
         # {"on"}

(* When updates did not overlap and none was cut, the newest event about   *)
(* the real_apply switch that the list still has is how the switch stands, *)
(* and a list with none and with room left means it was never turned on.   *)
SwitchTraced ==
  LET traces == {i \in DOMAIN events : events[i].key = "real_apply"}
      newest == CHOOSE i \in traces : \A j \in traces : i <= j
  IN  (~crossed /\ ~cut /\ \A o \in Operators : ~Writing(o))
        => IF traces # {} THEN events[newest].value = settings["real_apply"]
           ELSE Len(events) < EventLimit => settings["real_apply"] # "on"

(* A claim reads the settings one query at a time, so an update may cross  *)
(* it; still a host installs only if the mode and the switches allowed it  *)
(* at some moment of its claim, and never against a guardrail that stood   *)
(* throughout it.  It refuses only under a guardrail that stood at some    *)
(* moment: what the agent's own file enables plays no part.                *)
HeldOn(k) == stored[k] \subseteq {"on"}
Was(k, v) == v \in stored[k]
HostInstalls ==
  IF Linux
  THEN /\ Was("real_apply", "on")
       /\ Was("mode", "apply") \/ (machine.grouped /\ Was("group", "apply"))
       /\ machine.safe /\ (machine.listed \/ Was("patterns", "any"))
       /\ HeldOn("security_only") => machine.security
       /\ HeldOn("security_and_critical")
            => machine.security \/ machine.critical
  ELSE Was("scan_apply", "on") /\ Was("download_install", "on")
HostRefuses ==
  CASE agent.outcome = "real-apply-disabled" -> ~HeldOn("real_apply")
    [] agent.outcome = "not-allowed" -> Was("patterns", "listed")
    [] agent.outcome = "security-only" -> Was("security_only", "on")
    [] agent.outcome = "security-and-critical" ->
         Was("security_and_critical", "on")
    [] agent.outcome = "windows-disabled" -> ~HeldOn("scan_apply")
    [] agent.outcome = "scan-only" -> ~HeldOn("download_install")
    [] OTHER -> TRUE
HostObeys ==
  agent.pc = "report" =>
    /\ agent.outcome = "installed" => HostInstalls
    /\ HostRefuses

(* A job schedules a reboot only if its schedule did not forbid it when    *)
(* the job was claimed, and the policy was the maintenance window at some  *)
(* moment of the claim, on a host that may reboot.                         *)
RebootAuthorised ==
  agent.pc = "report" /\ agent.reboot = "scheduled" =>
    /\ agent.under # "forbids"
    /\ Was("reboot_policy", "maintenance-window")
    /\ machine.reboots
=============================================================================
