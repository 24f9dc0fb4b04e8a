--------------------------- MODULE AgentInventory ---------------------------
(***************************************************************************)
(* What the server knows of one agent: its entry in the registry of        *)
(* connected agents, its inventory snapshot and items, its machine row and *)
(* the patches of that machine.  The inventory request rewrites all of     *)
(* them, one query or one commit at a time, while operators review and     *)
(* delete patches, revoke the agent or delete the machine, and while a     *)
(* clone of the host sends the inventory of the same agent_id.             *)
(***************************************************************************)
EXTENDS Integers, FiniteSets

CONSTANTS
  Hosts,        \* hosts with the credential: the agent and its clones
  Updates,      \* updates, each standing for the patch of this machine
  Reports,      \* per host, what it may report: the updates it lists, and
                \* the total it found, which may be another number
  Entered,      \* counts an operator or the worker may write
  None,
  MaxOperations \* bound: reviews, deletions, revocations and restarts

ASSUME ConstantsOK ==
  /\ \A h \in Hosts :
       Reports[h] \subseteq [updates : SUBSET Updates, total : Int]
  /\ Entered \subseteq Int
  /\ IsFiniteSet(Updates)
  /\ MaxOperations \in Nat

VARIABLES
  active,    \* agent_credentials.is_active
  registry,  \* AgentRegistryService._agents: age of last_seen_at, and the
             \* pending updates the entry shows (None: not known)
  snapshot,  \* agent_inventory_snapshots: the pending updates, or None
  items,     \* agent_inventory_items of type "pending"
  machine,   \* machines row: whether it exists, and pending_patches
  patches,   \* approval_status of each patch row, or "absent"
  handler,   \* per host, the request the server is handling
  console,   \* what is left of a revocation or deletion by an operator
  torn,      \* history: since the last inventory that ran alone to its end,
             \* one overlapped another or was cut short
  drift,     \* history: "patches" changed since an inventory counted them,
             \* the "row" since an inventory loaded it
  deleted,   \* history: patches deleted since an inventory wrote them
  operations

vars == <<active, registry, snapshot, items, machine, patches, handler,
          console, torn, drift, deleted, operations>>
tables == <<snapshot, items, machine, patches>>

Statuses == {"absent", "pending", "approved", "rejected"}
Stages == {"idle", "beat", "enter", "snapshot", "save", "clear", "items",
           "machine", "add", "sync", "write", "stale", "drop", "count",
           "load", "store"}
Idle == [pc |-> "idle", mine |-> {}, total |-> 0, todo |-> {}, seen |-> None,
         row |-> FALSE, alone |-> TRUE]
Unknown == [seen |-> "no", facts |-> None]

InInventory(h) == handler[h].pc \notin {"idle", "beat"}
Others(h) == {g \in Hosts \ {h} : InInventory(g)}
Existing == {u \in Updates : patches[u] # "absent"}
First(s) == CHOOSE u \in s : TRUE       \* the list is walked in its order
Fresh(facts) == [seen |-> "fresh", facts |-> facts]
Connected == registry.seen = "fresh"

-----------------------------------------------------------------------------
(* Requests of the agent.                                                  *)

At(h, pc) == handler[h].pc = pc
Goes(h, pc) == handler' = [handler EXCEPT ![h].pc = pc]
Fails(h) ==                             \* an exception: status 500
  /\ handler' = [handler EXCEPT ![h] = Idle]
  /\ torn' = TRUE

AdmittedAlways == TRUE                  \* mutant: a revoked key still works
Admitted == active

(* get_agent_identity, before the body of the handler runs. *)
SendHeartbeat(h) ==
  /\ At(h, "idle") /\ Admitted
  /\ Goes(h, "beat")
  /\ UNCHANGED <<active, registry, tables, console, torn, drift, deleted,
                 operations>>

SendInventory(h) ==
  /\ At(h, "idle") /\ Admitted
  /\ \E report \in Reports[h] :
       handler' = [g \in Hosts |->
         IF g = h THEN [Idle EXCEPT !.pc = "enter", !.mine = report.updates,
                                    !.total = report.total,
                                    !.alone = Others(h) = {}]
         ELSE [handler[g] EXCEPT !.alone = @ /\ ~InInventory(g)]]
  /\ torn' = (torn \/ Others(h) # {})
  /\ UNCHANGED <<active, registry, tables, console, drift, deleted,
                 operations>>

(* heartbeat and check_in keep what the entry shows of the inventory. *)
Heartbeat(h) ==
  /\ At(h, "beat")
  /\ registry' = Fresh(registry.facts)
  /\ handler' = [handler EXCEPT ![h] = Idle]
  /\ UNCHANGED <<active, tables, console, torn, drift, deleted, operations>>

UpdateInventory(h) ==
  /\ At(h, "enter")
  /\ registry' = Fresh(handler[h].mine)
  /\ Goes(h, "snapshot")
  /\ UNCHANGED <<active, tables, console, torn, drift, deleted, operations>>

ReadSnapshot(h) ==
  /\ At(h, "snapshot")
  /\ handler' = [handler EXCEPT ![h].pc = "save", ![h].seen = snapshot]
  /\ UNCHANGED <<active, registry, tables, console, torn, drift, deleted,
                 operations>>

(* Columns equal to those read are not written.  A row inserted since the  *)
(* read makes the insert fail.                                             *)
SaveSnapshot(h) ==
  /\ At(h, "save")
  /\ LET mine == handler[h].mine
         seen == handler[h].seen
     IN IF seen = None /\ snapshot # None
        THEN Fails(h) /\ UNCHANGED snapshot
        ELSE /\ snapshot' = IF mine = seen THEN snapshot ELSE mine
             /\ handler' = [handler EXCEPT ![h].pc = "clear",
                                           ![h].seen = None]
             /\ UNCHANGED torn
  /\ UNCHANGED <<active, registry, items, machine, patches, console, drift,
                 deleted, operations>>

(* The delete takes the rows there are when it starts: those that another  *)
(* inventory commits before this one does are kept.                        *)
ClearItems(h) ==
  /\ At(h, "clear")
  /\ handler' = [handler EXCEPT ![h].pc = "items", ![h].row = TRUE]
  /\ UNCHANGED <<active, registry, tables, console, torn, drift, deleted,
                 operations>>

ReplaceItems(h) ==
  /\ At(h, "items")
  /\ items' = handler[h].mine \cup (IF handler[h].row THEN {} ELSE items)
  /\ handler' = [g \in Hosts |->
       IF g = h THEN [handler[h] EXCEPT !.pc = "machine", !.row = FALSE]
       ELSE [handler[g] EXCEPT !.row = @ /\ handler[g].pc # "items"]]
  /\ UNCHANGED <<active, registry, snapshot, machine, patches, console, torn,
                 drift, deleted, operations>>

(* upgradable_packages of the report, whatever updates it lists.           *)
CountReported(h) == handler[h].total
Online(h) == [exists |-> TRUE, count |-> CountReported(h)]
Syncs(h, held) ==
  handler' = [handler EXCEPT ![h].pc = "sync", ![h].row = held,
                             ![h].todo = handler[h].mine]

(* SELECT ... FOR UPDATE to the commit is one step; an absent row is not   *)
(* locked, and is inserted by a later one.                                 *)
UpdateMachine(h) ==
  /\ At(h, "machine")
  /\ IF machine.exists
     THEN /\ machine' = Online(h) /\ Syncs(h, TRUE)
          /\ drift' = drift \ {"row"}
     ELSE UNCHANGED <<machine, drift>> /\ Goes(h, "add")
  /\ UNCHANGED <<active, registry, snapshot, items, patches, console, torn,
                 deleted, operations>>

AddMachine(h) ==
  /\ At(h, "add")
  /\ IF machine.exists THEN Fails(h) /\ UNCHANGED <<machine, drift>>
     ELSE /\ machine' = Online(h) /\ Syncs(h, FALSE)
          /\ drift' = drift \ {"row"}
          /\ UNCHANGED torn
  /\ UNCHANGED <<active, registry, snapshot, items, patches, console, deleted,
                 operations>>

-----------------------------------------------------------------------------
(* _sync_inventory_patches: one patch at a time.                           *)

StatusWhole(u, existed) == "pending"    \* mutant: writes the whole row
StatusUnset(u, existed) ==              \* mutant: a new row has no status
  IF existed THEN patches[u] ELSE None
StatusAfter(u, existed) == IF existed THEN patches[u] ELSE "pending"

ReadPatch(h) ==
  /\ At(h, "sync") /\ handler[h].todo # {}
  /\ handler' = [handler EXCEPT
       ![h].pc = "write",
       ![h].seen = {First(handler[h].todo)} \cap Existing]
  /\ UNCHANGED <<active, registry, tables, console, torn, drift, deleted,
                 operations>>

(* The status is not among the columns the request assigns.  An update of  *)
(* a row deleted since it was read fails, as does a second insert.         *)
WritePatch(h) ==
  /\ At(h, "write")
  /\ LET u == First(handler[h].todo)
         existed == u \in handler[h].seen
     IN IF existed # (u \in Existing)
        THEN Fails(h) /\ UNCHANGED <<patches, deleted>>
        ELSE /\ patches' = [patches EXCEPT ![u] = StatusAfter(u, existed)]
             /\ deleted' = deleted \ {u}
             /\ handler' = [handler EXCEPT ![h].pc = "sync",
                                           ![h].todo = @ \ {u},
                                           ![h].seen = None]
             /\ UNCHANGED torn
  /\ UNCHANGED <<active, registry, snapshot, items, machine, console, drift,
                 operations>>

StaleUnreviewed(mine) ==                \* mutant: keeps the reviewed ones
  {u \in Existing \ mine : patches[u] = "pending"}
Stale(mine) == Existing \ mine          \* whatever their status

ReadStale(h) ==
  /\ At(h, "sync") /\ handler[h].todo = {}
  /\ handler' = [handler EXCEPT ![h].pc = "drop",
                                ![h].todo = Stale(handler[h].mine)]
  /\ UNCHANGED <<active, registry, tables, console, torn, drift, deleted,
                 operations>>

(* Deleting a row that is gone is only a warning.                          *)
DropPatch(h) ==
  /\ At(h, "drop") /\ handler[h].todo # {}
  /\ LET u == First(handler[h].todo)
     IN /\ patches' = [patches EXCEPT ![u] = "absent"]
        /\ handler' = [handler EXCEPT ![h].todo = @ \ {u}]
  /\ UNCHANGED <<active, registry, snapshot, items, machine, console, torn,
                 drift, deleted, operations>>

UninstalledAll(s) == s # "absent"       \* mutant: counts the rejected ones
Uninstalled(s) == s \in {"pending", "approved"}

(* A machine row the handler updated is still in its session, one it       *)
(* inserted is read again.  The count is written if it differs from that   *)
(* of the row the session holds ("row": it does not).                      *)
CountPatches(h) ==
  /\ At(h, "drop") /\ handler[h].todo = {}
  /\ LET held == handler[h].row
         counted == {u \in Updates : Uninstalled(patches[u])}
     IN handler' = [handler EXCEPT
          ![h].pc = IF held THEN "store" ELSE "load",
          ![h].todo = counted,
          ![h].row = held /\ Cardinality(counted) = CountReported(h)]
  /\ drift' = drift \ {"patches"}
  /\ UNCHANGED <<active, registry, tables, console, torn, deleted,
                 operations>>

Ends(h) ==
  /\ handler' = [handler EXCEPT ![h] = Idle]
  /\ torn' = (torn /\ ~handler[h].alone)

LoadMachine(h) ==
  /\ At(h, "load")
  /\ IF ~machine.exists THEN Ends(h)
     ELSE /\ handler' = [handler EXCEPT
               ![h].pc = "store",
               ![h].row = machine.count = Cardinality(handler[h].todo)]
          /\ UNCHANGED torn
  /\ UNCHANGED <<active, registry, tables, console, drift, deleted,
                 operations>>

StoreCount(h) ==
  /\ At(h, "store")
  /\ IF ~machine.exists THEN Fails(h) /\ UNCHANGED machine
     ELSE /\ machine' = IF handler[h].row THEN machine
                        ELSE [machine EXCEPT
                                !.count = Cardinality(handler[h].todo)]
          /\ Ends(h)
  /\ UNCHANGED <<active, registry, snapshot, items, patches, console, drift,
                 deleted, operations>>

InventoryStep(h) ==
  \/ UpdateInventory(h) \/ ReadSnapshot(h) \/ SaveSnapshot(h)
  \/ ClearItems(h) \/ ReplaceItems(h) \/ UpdateMachine(h) \/ AddMachine(h)
  \/ ReadPatch(h) \/ WritePatch(h) \/ ReadStale(h) \/ DropPatch(h)
  \/ CountPatches(h) \/ LoadMachine(h) \/ StoreCount(h)
HandlerStep(h) == Heartbeat(h) \/ InventoryStep(h)

-----------------------------------------------------------------------------
(* Requests of operators, results of jobs, time and restarts.              *)

Counts == operations < MaxOperations /\ operations' = operations + 1

(* Approval or rejection; a job that failed on a guardrail makes its patch *)
(* pending again.                                                          *)
Review(u, verdict) ==
  /\ patches[u] # "absent" /\ Counts
  /\ patches' = [patches EXCEPT ![u] = verdict]
  /\ drift' = drift \cup {"patches"}
  /\ UNCHANGED <<active, registry, snapshot, items, machine, handler,
                 console, torn, deleted>>

(* By an operator, or by the result of a job that installed it.            *)
DeletePatch(u) ==
  /\ patches[u] # "absent" /\ Counts
  /\ patches' = [patches EXCEPT ![u] = "absent"]
  /\ deleted' = deleted \cup {u}
  /\ drift' = drift \cup {"patches"}
  /\ UNCHANGED <<active, registry, snapshot, items, machine, handler,
                 console, torn>>

(* The form of the machine takes any number; the worker takes one from the *)
(* number it loaded before its tick.                                       *)
EditMachine ==
  /\ machine.exists /\ Counts
  /\ \E count \in Entered : machine' = [machine EXCEPT !.count = count]
  /\ drift' = drift \cup {"row"}
  /\ UNCHANGED <<active, registry, snapshot, items, patches, handler, console,
                 torn, deleted>>

(* Revocation and deletion of the machine: the credential is committed,    *)
(* then the entry removed, then the row.                                   *)
Revoke ==
  /\ console = {} /\ Counts
  /\ active' = FALSE
  /\ console' = {"disconnect"}
  /\ UNCHANGED <<registry, tables, handler, torn, drift, deleted>>

DeleteMachine ==
  /\ console = {} /\ machine.exists /\ Counts
  /\ active' = FALSE
  /\ console' = {"disconnect", "row"}
  /\ UNCHANGED <<registry, tables, handler, torn, drift, deleted>>

Disconnect ==
  /\ "disconnect" \in console
  /\ registry' = Unknown
  /\ console' = console \ {"disconnect"}
  /\ UNCHANGED <<active, tables, handler, torn, drift, deleted, operations>>

DeleteRow ==
  /\ console = {"row"}
  /\ machine' = [exists |-> FALSE, count |-> 0]
  /\ console' = {}
  /\ UNCHANGED <<active, registry, snapshot, items, patches, handler, torn,
                 drift, deleted, operations>>

(* The approval of a new request makes the credential active again.        *)
Approve ==
  /\ ~active /\ console = {}
  /\ active' = TRUE
  /\ UNCHANGED <<registry, tables, handler, console, torn, drift, deleted,
                 operations>>

(* DEFAULT_MAX_AGE_SECONDS since the entry was written.                    *)
Age ==
  /\ registry.seen = "fresh"
  /\ registry' = [registry EXCEPT !.seen = "aged"]
  /\ UNCHANGED <<active, tables, handler, console, torn, drift, deleted,
                 operations>>

Restart ==
  /\ Counts
  /\ registry' = Unknown
  /\ torn' = (torn \/ \E h \in Hosts : InInventory(h))
  /\ handler' = [h \in Hosts |-> Idle]
  /\ console' = {}
  /\ UNCHANGED <<active, tables, drift, deleted>>

ConsoleStep == Disconnect \/ DeleteRow
Operator ==
  \/ \E u \in Updates :
       \/ \E verdict \in Statuses \ {"absent"} : Review(u, verdict)
       \/ DeletePatch(u)
  \/ EditMachine \/ Revoke \/ DeleteMachine \/ ConsoleStep \/ Approve

Init ==
  /\ active = TRUE /\ registry = Unknown
  /\ snapshot = None /\ items = {}
  /\ machine = [exists |-> FALSE, count |-> 0]
  /\ patches = [u \in Updates |-> "absent"]
  /\ handler = [h \in Hosts |-> Idle]
  /\ console = {}
  /\ torn = FALSE /\ drift = {} /\ deleted = {}
  /\ operations = 0

Next ==
  \/ \E h \in Hosts : SendHeartbeat(h) \/ SendInventory(h) \/ HandlerStep(h)
  \/ Operator \/ Age \/ Restart

(* A request the server has begun goes on, and time passes.                *)
Fairness ==
  /\ \A h \in Hosts : WF_vars(HandlerStep(h))
  /\ WF_vars(ConsoleStep)
  /\ WF_vars(Age)

Spec == Init /\ [][Next]_vars
FairSpec == Spec /\ Fairness

-----------------------------------------------------------------------------
(* Properties.                                                             *)

Machine == [exists : BOOLEAN, count : Int]
Handler == [pc : Stages, mine : SUBSET Updates, total : Int,
            todo : SUBSET Updates, seen : {None} \cup SUBSET Updates,
            row : BOOLEAN, alone : BOOLEAN]

(* Types of the entry, the rows and the requests.  The count on the row is *)
(* any number: a report, a form or the worker writes it unchecked.         *)
TypeOK ==
  /\ active \in BOOLEAN
  /\ registry \in [seen : {"no", "fresh", "aged"},
                   facts : {None} \cup SUBSET Updates]
  /\ snapshot \in {None} \cup SUBSET Updates
  /\ items \in SUBSET Updates
  /\ machine \in Machine
  /\ patches \in [Updates -> Statuses]
  /\ handler \in [Hosts -> Handler]
  /\ console \in SUBSET {"disconnect", "row"}
  /\ torn \in BOOLEAN
  /\ drift \in SUBSET {"patches", "row"}
  /\ deleted \in SUBSET Updates
  /\ operations \in 0..MaxOperations

Settled == (\A h \in Hosts : ~InInventory(h)) /\ ~torn

(* Once an inventory has run alone to its end, the item rows, the snapshot *)
(* and the patches of the machine are those of one and the same report,    *)
(* but for patches deleted since, and the registry shows that report or    *)
(* nothing.  (submit_agent_inventory rewrites them in separate commits.)   *)
CatalogueFollows ==
  Settled /\ snapshot # None =>
    /\ snapshot = items
    /\ Existing = items \ deleted
    /\ registry.facts \in {None, items}

(* The count on the machine row is that of the patches not yet decided     *)
(* against or installed, whatever total the report gave, unless they or    *)
(* the row were changed after an inventory counted them by an operator,    *)
(* the worker or the result of a job: the number the machine list and the  *)
(* dashboard show.                                                         *)
CountAgrees ==
  Settled /\ drift = {} /\ machine.exists =>
    machine.count =
      Cardinality({u \in Updates : patches[u] \in {"pending", "approved"}})

(* No inventory changes the verdict on a patch the update still calls for, *)
(* not even one that read the patch before the operator's review: a patch  *)
(* the machine keeps keeps its approval_status.                            *)
ReviewSurvives ==
  [][\A u \in Existing :
       handler' # handler => patches'[u] \in {patches[u], "absent"}]_vars

(* A revoked agent leaves the list of connected agents for good: a request *)
(* admitted before the revocation may enter it again, but then ages out.   *)
RevokedFades == <>[](~active) => <>[](~Connected)
=============================================================================
