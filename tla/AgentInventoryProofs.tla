------------------------ MODULE AgentInventoryProofs ------------------------
(***************************************************************************)
(* Proofs about AgentInventory, for any hosts, updates and bounds: types,  *)
(* that no inventory changes the verdict of an operator, however many of   *)
(* them overlap, and that one which ran alone to its end has left snapshot *)
(* items, patches and the count telling the same report.                   *)
(***************************************************************************)
EXTENDS AgentInventory, FiniteSetTheorems, TLAPS

(* A count of updates is a number.                                         *)
LEMMA CountTyped ==
  ASSUME NEW S \in SUBSET Updates
  PROVE  Cardinality(S) \in Int
<1>1. IsFiniteSet(S)
  BY ConstantsOK, FS_Subset
<1>2. Cardinality(S) \in Nat
  BY <1>1, FS_CardinalityType
<1> QED
  BY <1>2

(* First picks a member.                                                   *)
LEMMA FirstMember == \A s : s # {} => First(s) \in s
  BY DEF First

(* An idle handler is well typed.                                          *)
LEMMA IdleTyped == Idle \in Handler
  BY DEF Idle, Handler, Stages

(* A request that ends leaves the requests well typed.                      *)
LEMMA EndTyped ==
  ASSUME TypeOK, NEW h \in Hosts, handler' = [handler EXCEPT ![h] = Idle]
  PROVE  handler' \in [Hosts -> Handler]
  BY IdleTyped DEF TypeOK

(* The initial state is well typed.                                         *)
LEMMA InitTyped == Init => TypeOK
<1> SUFFICES ASSUME Init PROVE TypeOK
  OBVIOUS
<1>1. handler \in [Hosts -> Handler]
  BY IdleTyped DEF Init
<1>2. operations \in 0..MaxOperations
  BY ConstantsOK DEF Init
<1>3. machine \in Machine
  BY DEF Init, Machine
<1> QED
  BY <1>1, <1>2, <1>3 DEF Init, TypeOK, Unknown, Statuses

(* The steps of a request keep the types.                                   *)
LEMMA HandlerTyped ==
  ASSUME TypeOK, NEW h \in Hosts,
         SendHeartbeat(h) \/ SendInventory(h) \/ HandlerStep(h)
  PROVE  TypeOK'
<1> USE DEF tables, At, Goes, Fails
<1>0. handler[h] \in Handler
  BY DEF TypeOK
<1>1. CASE SendHeartbeat(h)
  BY <1>0, <1>1 DEF SendHeartbeat, TypeOK, Handler, Stages
<1>2. CASE SendInventory(h)
  <2>1. PICK report \in Reports[h] :
          handler' = [g \in Hosts |->
            IF g = h THEN [Idle EXCEPT !.pc = "enter",
                                       !.mine = report.updates,
                                       !.total = report.total,
                                       !.alone = Others(h) = {}]
            ELSE [handler[g] EXCEPT !.alone = @ /\ ~InInventory(g)]]
    BY <1>2 DEF SendInventory
  <2>2. report.updates \in SUBSET Updates /\ report.total \in Int
    BY ConstantsOK
  <2>3. [Idle EXCEPT !.pc = "enter", !.mine = report.updates,
                     !.total = report.total,
                     !.alone = Others(h) = {}] \in Handler
    BY <2>2 DEF Idle, Handler, Stages
  <2>4. \A g \in Hosts :
          [handler[g] EXCEPT !.alone = @ /\ ~InInventory(g)] \in Handler
    BY DEF TypeOK, Handler
  <2>5. handler' \in [Hosts -> Handler]
    BY <2>1, <2>3, <2>4
  <2> QED
    BY <1>2, <2>5 DEF SendInventory, TypeOK
<1>3. CASE Heartbeat(h)
  BY <1>3, IdleTyped DEF Heartbeat, Fresh, TypeOK
<1>4. CASE UpdateInventory(h)
  BY <1>0, <1>4 DEF UpdateInventory, Fresh, TypeOK, Handler, Stages
<1>5. CASE ReadSnapshot(h)
  BY <1>0, <1>5 DEF ReadSnapshot, TypeOK, Handler, Stages
<1>6. CASE SaveSnapshot(h)
  <2>1. CASE Fails(h) /\ UNCHANGED snapshot
    BY <1>6, <2>1, EndTyped DEF SaveSnapshot, TypeOK
  <2>2. CASE ~(handler[h].seen = None /\ snapshot # None)
    BY <1>0, <1>6, <2>2 DEF SaveSnapshot, TypeOK, Handler, Stages
  <2> QED
    BY <1>6, <2>1, <2>2 DEF SaveSnapshot
<1>7. CASE ClearItems(h)
  BY <1>0, <1>7 DEF ClearItems, TypeOK, Handler, Stages
<1>8. CASE ReplaceItems(h)
  <2>1. [handler[h] EXCEPT !.pc = "machine", !.row = FALSE] \in Handler
    BY <1>0 DEF Handler, Stages
  <2>2. \A g \in Hosts :
          [handler[g] EXCEPT !.row = @ /\ handler[g].pc # "items"] \in Handler
    BY DEF TypeOK, Handler
  <2>3. handler' \in [Hosts -> Handler]
    BY <1>8, <2>1, <2>2 DEF ReplaceItems
  <2>4. items' \in SUBSET Updates
    BY <1>0, <1>8 DEF ReplaceItems, TypeOK, Handler
  <2> QED
    BY <1>8, <2>3, <2>4 DEF ReplaceItems, TypeOK
<1>9. Online(h) \in Machine
  BY <1>0 DEF Online, CountReported, Machine, Handler
<1>10. CASE UpdateMachine(h)
  BY <1>0, <1>9, <1>10 DEF UpdateMachine, Syncs, TypeOK, Handler, Stages
<1>11. CASE AddMachine(h)
  <2>1. CASE Fails(h) /\ UNCHANGED <<machine, drift>>
    BY <1>11, <2>1, EndTyped DEF AddMachine, TypeOK
  <2>2. CASE ~machine.exists
    BY <1>0, <1>9, <1>11, <2>2 DEF AddMachine, Syncs, TypeOK, Handler, Stages
  <2> QED
    BY <1>11, <2>1, <2>2 DEF AddMachine
<1>12. CASE ReadPatch(h)
  BY <1>0, <1>12 DEF ReadPatch, Existing, TypeOK, Handler, Stages
<1>13. CASE WritePatch(h)
  <2> DEFINE u == First(handler[h].todo)
             existed == u \in handler[h].seen
  <2>1. CASE Fails(h) /\ UNCHANGED <<patches, deleted>>
    BY <1>13, <2>1, EndTyped DEF WritePatch, TypeOK
  <2>2. CASE existed = (u \in Existing)
    <3>1. handler' \in [Hosts -> Handler] /\ torn' = torn
      BY <1>0, <1>13, <2>2 DEF WritePatch, TypeOK, Handler, Stages
    <3>2. patches' \in [Updates -> Statuses] /\ deleted' \in SUBSET Updates
      BY <1>13, <2>2 DEF WritePatch, StatusAfter, TypeOK, Statuses, Existing
    <3> QED
      BY <1>13, <3>1, <3>2 DEF WritePatch, TypeOK
  <2> QED
    BY <1>13, <2>1, <2>2 DEF WritePatch
<1>14. CASE ReadStale(h)
  BY <1>0, <1>14 DEF ReadStale, Stale, Existing, TypeOK, Handler, Stages
<1>15. CASE DropPatch(h)
  BY <1>0, <1>15 DEF DropPatch, TypeOK, Handler, Stages, Statuses
<1>16. CASE CountPatches(h)
  BY <1>0, <1>16 DEF CountPatches, TypeOK, Handler, Stages
<1>17. CASE LoadMachine(h)
  <2>1. CASE Ends(h)
    BY <1>17, <2>1, EndTyped DEF LoadMachine, Ends, TypeOK
  <2>2. CASE machine.exists
    BY <1>0, <1>17, <2>2 DEF LoadMachine, TypeOK, Handler, Stages
  <2> QED
    BY <1>17, <2>1, <2>2 DEF LoadMachine
<1>18. CASE StoreCount(h)
  <2>1. Cardinality(handler[h].todo) \in Int
    BY <1>0, CountTyped DEF Handler
  <2> QED
    BY <1>18, <2>1, IdleTyped DEF StoreCount, Ends, TypeOK, Machine
<1> QED
  BY <1>1, <1>2, <1>3, <1>4, <1>5, <1>6, <1>7, <1>8, <1>10, <1>11, <1>12,
     <1>13, <1>14, <1>15, <1>16, <1>17, <1>18 DEF HandlerStep, InventoryStep

(* The requests of operators, time and restarts keep the types.             *)
LEMMA OperatorTyped ==
  ASSUME TypeOK, Operator \/ Age \/ Restart
  PROVE  TypeOK'
<1> USE DEF tables
<1>1. ASSUME Counts PROVE operations' \in 0..MaxOperations
  BY <1>1, ConstantsOK DEF Counts, TypeOK
<1>2. ASSUME NEW u \in Updates, NEW verdict \in Statuses \ {"absent"},
             Review(u, verdict)
      PROVE  TypeOK'
  BY <1>1, <1>2 DEF Review, TypeOK, Statuses
<1>3. ASSUME NEW u \in Updates, DeletePatch(u) PROVE TypeOK'
  BY <1>1, <1>3 DEF DeletePatch, TypeOK, Statuses
<1>4. CASE Revoke
  BY <1>1, <1>4 DEF Revoke, TypeOK
<1>5. CASE DeleteMachine
  BY <1>1, <1>5 DEF DeleteMachine, TypeOK
<1>6. CASE EditMachine
  BY <1>1, <1>6, ConstantsOK DEF EditMachine, TypeOK, Machine
<1>7. CASE Disconnect
  BY <1>7 DEF Disconnect, Unknown, TypeOK
<1>9. CASE DeleteRow
  BY <1>9 DEF DeleteRow, TypeOK, Machine
<1>10. CASE Approve
  BY <1>10 DEF Approve, TypeOK
<1>11. CASE Age
  BY <1>11 DEF Age, TypeOK
<1>12. CASE Restart
  BY <1>1, <1>12, IdleTyped DEF Restart, Unknown, TypeOK
<1> QED
  BY <1>2, <1>3, <1>4, <1>5, <1>6, <1>7, <1>9, <1>10, <1>11, <1>12
     DEF Operator, ConsoleStep

(* Types hold in every behaviour, whatever the number of clones.            *)
THEOREM TypeCorrect == Spec => []TypeOK
<1>1. TypeOK /\ [Next]_vars => TypeOK'
  <2> SUFFICES ASSUME TypeOK, [Next]_vars PROVE TypeOK'
    OBVIOUS
  <2>1. CASE \E h \in Hosts :
               SendHeartbeat(h) \/ SendInventory(h) \/ HandlerStep(h)
    BY <2>1, HandlerTyped
  <2>2. CASE Operator \/ Age \/ Restart
    BY <2>2, OperatorTyped
  <2>3. CASE UNCHANGED vars
    BY <2>3 DEF vars, tables, TypeOK
  <2> QED
    BY <2>1, <2>2, <2>3 DEF Next
<1> QED
  BY InitTyped, <1>1, PTL DEF Spec

(* A step of a request leaves every patch row its status, or deletes it.    *)
LEMMA RequestKeepsVerdict ==
  ASSUME TypeOK, NEW h \in Hosts, HandlerStep(h), NEW u \in Existing
  PROVE  patches'[u] \in {patches[u], "absent"}
<1>1. u \in Updates
  BY DEF Existing
<1>2. CASE WritePatch(h)
  BY <1>1, <1>2 DEF WritePatch, StatusAfter, TypeOK, Existing
<1>3. CASE DropPatch(h)
  BY <1>1, <1>3 DEF DropPatch, TypeOK
<1>4. CASE UNCHANGED patches
  BY <1>4
<1> QED
  BY <1>2, <1>3, <1>4
     DEF HandlerStep, InventoryStep, Heartbeat, UpdateInventory, ReadSnapshot,
         SaveSnapshot, ClearItems, ReplaceItems, UpdateMachine, AddMachine,
         ReadPatch, ReadStale, CountPatches, LoadMachine, StoreCount, tables

(* However many inventories of clones overlap with reviews, none of them    *)
(* changes the verdict on a patch the machine keeps.                        *)
THEOREM VerdictSurvives == Spec => ReviewSurvives
<1>1. TypeOK /\ [Next]_vars =>
        [\A u \in Existing : handler' # handler =>
           patches'[u] \in {patches[u], "absent"}]_vars
  <2> SUFFICES ASSUME TypeOK, Next, NEW u \in Existing, handler' # handler
               PROVE  patches'[u] \in {patches[u], "absent"}
    OBVIOUS
  <2>1. CASE \E h \in Hosts : HandlerStep(h)
    BY <2>1, RequestKeepsVerdict
  <2>2. CASE \E h \in Hosts : SendHeartbeat(h) \/ SendInventory(h)
    BY <2>2 DEF SendHeartbeat, SendInventory, tables
  <2>3. CASE Operator
    BY <2>3 DEF Operator, ConsoleStep, Review, DeletePatch, EditMachine,
                Revoke, DeleteMachine, Disconnect, DeleteRow, Approve
  <2>4. CASE Age \/ Restart
    BY <2>4 DEF Age, Restart, tables
  <2> QED
    BY <2>1, <2>2, <2>3, <2>4 DEF Next
<1> QED
  BY TypeCorrect, <1>1, PTL DEF Spec, ReviewSurvives
-----------------------------------------------------------------------------
(* What one inventory that runs alone has brought about so far.            *)
Alone(h) == InInventory(h) /\ handler[h].alone
Counted == {u \in Updates : Uninstalled(patches[u])}
Saved(h) ==
  /\ handler[h].pc # "enter" => registry.facts \in {None, handler[h].mine}
  /\ handler[h].pc = "save" => handler[h].seen = snapshot
  /\ handler[h].pc \notin {"enter", "snapshot", "save"}
       => snapshot = handler[h].mine
  /\ handler[h].pc = "items" => handler[h].row
  /\ handler[h].pc \notin {"enter", "snapshot", "save", "clear", "items"}
       => items = handler[h].mine
Synced(h) ==
  /\ handler[h].pc \in {"sync", "write"}
       => handler[h].mine \ handler[h].todo \subseteq Existing \cup deleted
  /\ handler[h].pc = "write" => handler[h].todo # {}
  /\ handler[h].pc \in {"drop", "load", "store"}
       => handler[h].mine \subseteq Existing \cup deleted
  /\ handler[h].pc = "drop"
       => /\ Existing \subseteq handler[h].mine \cup handler[h].todo
          /\ handler[h].todo \cap handler[h].mine = {}
  /\ handler[h].pc \in {"load", "store"} => Existing \subseteq handler[h].mine
Recounted(h) ==
  /\ handler[h].pc \in {"load", "store"} /\ "patches" \notin drift
       => handler[h].todo = Counted
  /\ handler[h].pc \in {"sync", "write", "drop"}
     /\ "row" \notin drift /\ machine.exists
       => machine.count = handler[h].total
  /\ handler[h].pc = "store" /\ handler[h].row
     /\ "row" \notin drift /\ machine.exists
       => machine.count = Cardinality(handler[h].todo)
Progress(h) == Saved(h) /\ Synced(h) /\ Recounted(h)
Follows ==
  snapshot # None => /\ snapshot = items
                     /\ Existing = items \ deleted
                     /\ registry.facts \in {None, items}
Agrees ==
  drift = {} /\ machine.exists => machine.count = Cardinality(Counted)
CatalogueInv ==
  /\ TypeOK
  /\ deleted \cap Existing = {}
  /\ \A h \in Hosts : Alone(h) =>
       Progress(h) /\ \A g \in Hosts : InInventory(g) => g = h
  /\ ~torn => \A h \in Hosts : InInventory(h) => handler[h].alone
  /\ Settled => Follows /\ Agrees

(* The first steps of an inventory lead to the machine row.                *)
LEMMA EarlySteps ==
  ASSUME TypeOK, NEW h \in Hosts, InInventory(h)',
         \/ UpdateInventory(h) \/ ReadSnapshot(h) \/ SaveSnapshot(h)
         \/ ClearItems(h) \/ ReplaceItems(h)
  PROVE  handler'[h].pc \in {"snapshot", "save", "clear", "items", "machine"}
<1> USE DEF Goes, Handler
<1>0. handler[h] \in Handler /\ handler \in [Hosts -> Handler]
  BY DEF TypeOK
<1>1. CASE UpdateInventory(h)
  BY <1>0, <1>1 DEF UpdateInventory
<1>2. CASE ReadSnapshot(h)
  BY <1>0, <1>2 DEF ReadSnapshot
<1>3. CASE SaveSnapshot(h)
  <2>1. ~Fails(h)
    BY <1>0 DEF Fails, Idle, InInventory
  <2> QED
    BY <1>0, <1>3, <2>1 DEF SaveSnapshot
<1>4. CASE ClearItems(h)
  BY <1>0, <1>4 DEF ClearItems
<1>5. CASE ReplaceItems(h)
  <2>1. handler'[h] = [handler[h] EXCEPT !.pc = "machine", !.row = FALSE]
    BY <1>5 DEF ReplaceItems
  <2> QED
    BY <1>0, <2>1
<1> QED
  BY <1>1, <1>2, <1>3, <1>4, <1>5

(* An inventory that runs alone goes a step further.                       *)
LEMMA SavesOn ==
  ASSUME CatalogueInv, NEW h \in Hosts, Alone(h), InventoryStep(h),
         InInventory(h)'
  PROVE  Saved(h)'
<1> USE DEF At, Goes, tables, Handler
<1>0. /\ handler[h] \in Handler /\ handler \in [Hosts -> Handler]
      /\ Saved(h) /\ registry.facts \in {None} \cup SUBSET Updates
  BY DEF CatalogueInv, TypeOK, Progress
<1>f. ~Fails(h) /\ ~Ends(h)
  BY <1>0 DEF Fails, Ends, Idle, InInventory
<1>1. CASE UpdateInventory(h)
  BY <1>0, <1>1 DEF UpdateInventory, Saved, Fresh
<1>2. CASE ReadSnapshot(h)
  BY <1>0, <1>2 DEF ReadSnapshot, Saved
<1>3. CASE SaveSnapshot(h)
  BY <1>0, <1>f, <1>3 DEF SaveSnapshot, Saved
<1>4. CASE ClearItems(h)
  BY <1>0, <1>4 DEF ClearItems, Saved
<1>5. CASE ReplaceItems(h)
  <2>1. handler'[h] = [handler[h] EXCEPT !.pc = "machine", !.row = FALSE]
    BY <1>5 DEF ReplaceItems
  <2>2. items' = handler[h].mine
    BY <1>0, <1>5 DEF ReplaceItems, Saved
  <2> QED
    BY <1>0, <1>5, <2>1, <2>2 DEF ReplaceItems, Saved, Handler
<1>6. CASE UpdateMachine(h)
  BY <1>0, <1>6 DEF UpdateMachine, Syncs, Saved
<1>7. CASE AddMachine(h)
  BY <1>0, <1>f, <1>7 DEF AddMachine, Syncs, Saved
<1>8. CASE ReadPatch(h)
  BY <1>0, <1>8 DEF ReadPatch, Saved
<1>9. CASE WritePatch(h)
  BY <1>0, <1>f, <1>9 DEF WritePatch, Saved
<1>10. CASE ReadStale(h)
  BY <1>0, <1>10 DEF ReadStale, Saved
<1>11. CASE DropPatch(h)
  BY <1>0, <1>11 DEF DropPatch, Saved
<1>12. CASE CountPatches(h)
  BY <1>0, <1>12 DEF CountPatches, Saved
<1>13. CASE LoadMachine(h)
  BY <1>0, <1>f, <1>13 DEF LoadMachine, Saved
<1>14. CASE StoreCount(h)
  BY <1>f, <1>14 DEF StoreCount
<1> QED
  BY <1>1, <1>2, <1>3, <1>4, <1>5, <1>6, <1>7, <1>8, <1>9, <1>10, <1>11,
     <1>12, <1>13, <1>14 DEF InventoryStep

(* So do the patches of its machine.                                       *)
LEMMA SyncsOn ==
  ASSUME CatalogueInv, NEW h \in Hosts, Alone(h), InventoryStep(h),
         InInventory(h)'
  PROVE  Synced(h)'
<1>t. TypeOK
  BY DEF CatalogueInv
<1> USE DEF At, Goes, tables, Handler
<1>0. /\ handler[h] \in Handler /\ handler \in [Hosts -> Handler]
      /\ patches \in [Updates -> Statuses] /\ Synced(h)
      /\ handler[h].mine \subseteq Updates
  BY DEF CatalogueInv, TypeOK, Progress, Handler
<1>f. ~Fails(h) /\ ~Ends(h)
  BY <1>0 DEF Fails, Ends, Idle, InInventory
<1>1. CASE \/ UpdateInventory(h) \/ ReadSnapshot(h) \/ SaveSnapshot(h)
           \/ ClearItems(h) \/ ReplaceItems(h)
  <2>1. handler'[h].pc \in {"snapshot", "save", "clear", "items", "machine"}
    BY <1>t, <1>1, EarlySteps
  <2> QED
    BY <2>1 DEF Synced
<1>2. CASE UpdateMachine(h) \/ AddMachine(h)
  BY <1>0, <1>f, <1>2 DEF UpdateMachine, AddMachine, Syncs, Synced
<1>3. CASE ReadPatch(h)
  BY <1>0, <1>3 DEF ReadPatch, Synced, Existing
<1>4. CASE WritePatch(h)
  <2>1. PICK u : u = First(handler[h].todo)
    OBVIOUS
  <2>2. u \in handler[h].todo /\ u \in Updates
    BY <1>0, <1>4, <2>1, FirstMember DEF WritePatch, Synced, Handler
  <2>3. /\ handler' = [handler EXCEPT ![h].pc = "sync", ![h].todo = @ \ {u},
                                      ![h].seen = None]
        /\ patches' = [patches EXCEPT
                         ![u] = StatusAfter(u, u \in handler[h].seen)]
        /\ deleted' = deleted \ {u}
        /\ (u \in handler[h].seen) = (u \in Existing)
    BY <1>f, <1>4, <2>1 DEF WritePatch
  <2>4. Existing' = Existing \cup {u}
    BY <1>0, <2>2, <2>3 DEF Existing, StatusAfter
  <2> QED
    BY <1>0, <1>4, <2>2, <2>3, <2>4 DEF WritePatch, Synced
<1>5. CASE ReadStale(h)
  BY <1>0, <1>5 DEF ReadStale, Stale, Synced, Existing
<1>6. CASE DropPatch(h)
  <2>1. PICK u : u = First(handler[h].todo)
    OBVIOUS
  <2>2. /\ u \in handler[h].todo
        /\ handler' = [handler EXCEPT ![h].todo = @ \ {u}]
        /\ patches' = [patches EXCEPT ![u] = "absent"]
        /\ deleted' = deleted /\ handler[h].pc = "drop"
    BY <1>6, <2>1, FirstMember DEF DropPatch
  <2>3. Existing' = Existing \ {u}
    BY <1>0, <2>2 DEF Existing
  <2> QED
    BY <1>0, <2>2, <2>3 DEF Synced
<1>7. CASE CountPatches(h)
  BY <1>0, <1>7 DEF CountPatches, Synced, Existing
<1>8. CASE LoadMachine(h)
  BY <1>0, <1>f, <1>8 DEF LoadMachine, Synced, Existing
<1>9. CASE StoreCount(h)
  BY <1>f, <1>9 DEF StoreCount
<1> QED
  BY <1>1, <1>2, <1>3, <1>4, <1>5, <1>6, <1>7, <1>8, <1>9 DEF InventoryStep

(* And so does the count it will leave.                                    *)
LEMMA CountsOn ==
  ASSUME CatalogueInv, NEW h \in Hosts, Alone(h), InventoryStep(h),
         InInventory(h)'
  PROVE  Recounted(h)'
<1>t. TypeOK
  BY DEF CatalogueInv
<1> USE DEF At, Goes, tables, Handler
<1>0. /\ handler[h] \in Handler /\ handler \in [Hosts -> Handler]
      /\ Recounted(h) /\ machine \in Machine
  BY DEF CatalogueInv, TypeOK, Progress
<1>f. ~Fails(h) /\ ~Ends(h)
  BY <1>0 DEF Fails, Ends, Idle, InInventory
<1>1. CASE \/ UpdateInventory(h) \/ ReadSnapshot(h) \/ SaveSnapshot(h)
           \/ ClearItems(h) \/ ReplaceItems(h)
  <2>1. handler'[h].pc \in {"snapshot", "save", "clear", "items", "machine"}
    BY <1>t, <1>1, EarlySteps
  <2> QED
    BY <2>1 DEF Recounted
<1>2. CASE UpdateMachine(h) \/ AddMachine(h)
  BY <1>0, <1>f, <1>2
     DEF UpdateMachine, AddMachine, Syncs, Recounted, Online, CountReported
<1>3. CASE ReadPatch(h) \/ WritePatch(h) \/ ReadStale(h) \/ DropPatch(h)
  <2>1. /\ handler'[h].pc \in {"sync", "write", "drop"}
        /\ handler[h].pc \in {"sync", "write", "drop"}
        /\ handler'[h].total = handler[h].total
        /\ machine' = machine /\ drift' = drift
    BY <1>0, <1>f, <1>3 DEF ReadPatch, WritePatch, ReadStale, DropPatch
  <2> QED
    BY <1>0, <2>1 DEF Recounted
<1>4. CASE CountPatches(h)
  <2>1. /\ handler[h].pc = "drop" /\ handler'[h].todo = Counted
        /\ handler'[h].pc = IF handler[h].row THEN "store" ELSE "load"
        /\ handler'[h].row = (handler[h].row /\ Cardinality(Counted)
                                = handler[h].total)
        /\ patches' = patches /\ machine' = machine
        /\ drift' = drift \ {"patches"}
    BY <1>0, <1>4 DEF CountPatches, Counted, CountReported
  <2>2. Counted' = Counted
    BY <2>1 DEF Counted
  <2> QED
    BY <1>0, <2>1, <2>2 DEF Recounted
<1>5. CASE LoadMachine(h)
  <2>1. /\ handler[h].pc = "load" /\ handler'[h].pc = "store"
        /\ handler'[h].todo = handler[h].todo
        /\ handler'[h].row = (machine.count = Cardinality(handler[h].todo))
        /\ patches' = patches /\ machine' = machine /\ drift' = drift
    BY <1>0, <1>f, <1>5 DEF LoadMachine
  <2>2. Counted' = Counted
    BY <2>1 DEF Counted
  <2> QED
    BY <1>0, <2>1, <2>2 DEF Recounted
<1>6. CASE StoreCount(h)
  BY <1>f, <1>6 DEF StoreCount
<1> QED
  BY <1>1, <1>2, <1>3, <1>4, <1>5, <1>6 DEF InventoryStep


(* Counting leads to the row, of no other request.                         *)
LEMMA CountsNext ==
  ASSUME TypeOK, NEW h \in Hosts, CountPatches(h)
  PROVE  /\ handler'[h].pc = IF handler[h].row THEN "store" ELSE "load"
         /\ handler'[h].alone = handler[h].alone
         /\ \A g \in Hosts : g # h => handler'[g] = handler[g]
         /\ torn' = torn
<1> DEFINE counted == {u \in Updates : Uninstalled(patches[u])}
           agree == /\ handler[h].row
                    /\ Cardinality(counted) = CountReported(h)
           next == IF handler[h].row THEN "store" ELSE "load"
<1>0. handler[h] \in Handler /\ handler \in [Hosts -> Handler]
  BY DEF TypeOK
<1>1. /\ handler' = [handler EXCEPT ![h].pc = next, ![h].todo = counted,
                                    ![h].row = agree]
      /\ torn' = torn
  BY DEF CountPatches
<1> HIDE DEF counted, agree
<1> QED
  BY <1>0, <1>1 DEF Handler
(* An inventory that ends alone leaves what its report says.               *)
LEMMA EndsWell ==
  ASSUME CatalogueInv, NEW h \in Hosts, Alone(h), InventoryStep(h),
         ~InInventory(h)', ~torn'
  PROVE  Follows' /\ Agrees'
<1> USE DEF At, Goes, tables, Handler
<1>0. /\ handler[h] \in Handler /\ handler \in [Hosts -> Handler]
      /\ Progress(h) /\ machine \in Machine /\ deleted \cap Existing = {}
  BY DEF CatalogueInv, TypeOK
<1>f. ~Fails(h)
  BY DEF Fails
<1>1. \/ handler[h].pc = "load" /\ LoadMachine(h) /\ ~machine.exists
      \/ handler[h].pc = "store" /\ StoreCount(h) /\ machine.exists
  <2> DEFINE On == handler'[h].pc \notin {"idle", "beat"}
  <2>1. UpdateInventory(h) \/ ReadSnapshot(h) => On
    BY <1>0 DEF UpdateInventory, ReadSnapshot
  <2>2. SaveSnapshot(h) \/ ClearItems(h) => On
    BY <1>0, <1>f DEF SaveSnapshot, ClearItems
  <2>3. ReplaceItems(h) => On
    <3> SUFFICES ASSUME ReplaceItems(h) PROVE On
      OBVIOUS
    <3>1. handler'[h] = [handler[h] EXCEPT !.pc = "machine", !.row = FALSE]
      BY DEF ReplaceItems
    <3> QED
      BY <1>0, <3>1
  <2>4. UpdateMachine(h) \/ AddMachine(h) => On
    BY <1>0, <1>f DEF UpdateMachine, AddMachine, Syncs
  <2>5. ReadPatch(h) \/ WritePatch(h) => On
    BY <1>0, <1>f DEF ReadPatch, WritePatch
  <2>6. ReadStale(h) \/ DropPatch(h) => On
    BY <1>0 DEF ReadStale, DropPatch
  <2>7. CountPatches(h) => On
    <3>1. CountPatches(h) =>
            handler'[h].pc = IF handler[h].row THEN "store" ELSE "load"
      BY CountsNext DEF CatalogueInv
    <3> QED
      BY <3>1
  <2>8. LoadMachine(h) /\ machine.exists => On
    BY <1>0 DEF LoadMachine
  <2>9. ~On
    BY DEF InInventory
  <2>10. LoadMachine(h) \/ StoreCount(h)
    <3> HIDE DEF On
    <3> QED
      BY <2>1, <2>2, <2>3, <2>4, <2>5, <2>6, <2>7, <2>9 DEF InventoryStep
  <2> QED
    BY <1>f, <2>8, <2>9, <2>10 DEF LoadMachine, StoreCount
<1>2. /\ UNCHANGED <<registry, snapshot, items, patches, drift, deleted>>
      /\ Existing' = Existing /\ Counted' = Counted
  <2>1. UNCHANGED <<registry, snapshot, items, patches, drift, deleted>>
    BY <1>1 DEF LoadMachine, StoreCount
  <2> QED
    BY <2>1 DEF Existing, Counted
<1>3. Follows
  BY <1>0, <1>1 DEF Progress, Saved, Synced, Follows
<1>4. Follows'
  BY <1>2, <1>3 DEF Follows
<1>5. Agrees'
  <2>1. CASE ~machine.exists
    <3>1. machine' = machine
      BY <1>1, <2>1 DEF LoadMachine
    <3> QED
      BY <2>1, <3>1 DEF Agrees
  <2>2. CASE machine.exists
    <3>1. /\ handler[h].pc = "store"
          /\ machine' = IF handler[h].row THEN machine
                        ELSE [machine EXCEPT
                                !.count = Cardinality(handler[h].todo)]
      BY <1>1, <2>2 DEF StoreCount
    <3>2. ASSUME drift = {}
          PROVE  /\ handler[h].todo = Counted
                 /\ handler[h].row
                      => machine.count = Cardinality(handler[h].todo)
      BY <1>0, <2>2, <3>1, <3>2 DEF Progress, Recounted
    <3> QED
      BY <1>0, <1>2, <3>1, <3>2 DEF Agrees, Machine
  <2> QED
    BY <2>1, <2>2
<1> QED
  BY <1>4, <1>5

(* The patches recorded as deleted are gone.                               *)
LEMMA DeletedAreGone ==
  ASSUME CatalogueInv, NEW h \in Hosts, InventoryStep(h)
  PROVE  (deleted \cap Existing = {})'
<1>0. /\ deleted \cap Existing = {} /\ patches \in [Updates -> Statuses]
      /\ deleted \subseteq Updates
  BY DEF CatalogueInv, TypeOK
<1>1. CASE WritePatch(h)
  <2>1. CASE UNCHANGED <<patches, deleted>>
    BY <1>0, <2>1 DEF Existing
  <2>2. CASE ~UNCHANGED <<patches, deleted>>
    <3>1. PICK u, s : /\ patches' = [patches EXCEPT ![u] = s]
                      /\ deleted' = deleted \ {u}
      BY <1>1, <2>2 DEF WritePatch
    <3> QED
      BY <1>0, <3>1 DEF Existing
  <2> QED
    BY <2>1, <2>2
<1>2. CASE DropPatch(h)
  BY <1>0, <1>2 DEF DropPatch, Existing
<1>3. CASE UNCHANGED <<patches, deleted>>
  BY <1>0, <1>3 DEF Existing
<1> QED
  BY <1>1, <1>2, <1>3
     DEF InventoryStep, UpdateInventory, ReadSnapshot, SaveSnapshot,
         ClearItems, ReplaceItems, UpdateMachine, AddMachine, ReadPatch,
         ReadStale, CountPatches, LoadMachine, StoreCount, tables

(* What an inventory step does to the other requests, and to torn.         *)
LEMMA StepOfOne ==
  ASSUME TypeOK, NEW h \in Hosts, InventoryStep(h)
  PROVE  /\ InInventory(h) /\ handler \in [Hosts -> Handler]
         /\ \A g \in Hosts : g # h => /\ handler'[g].pc = handler[g].pc
                                      /\ handler'[g].alone = handler[g].alone
         /\ InInventory(h)' => /\ handler'[h].alone = handler[h].alone
                               /\ torn' = torn
         /\ ~InInventory(h)' =>
              torn' = TRUE \/ torn' = (torn /\ ~handler[h].alone)
<1> USE DEF At, Goes, tables, Handler
<1>0. /\ handler[h] \in Handler /\ handler \in [Hosts -> Handler]
      /\ torn \in BOOLEAN
  BY DEF TypeOK
<1>1. InInventory(h)
  BY DEF InInventory, InventoryStep, UpdateInventory, ReadSnapshot,
         SaveSnapshot, ClearItems, ReplaceItems, UpdateMachine, AddMachine,
         ReadPatch, WritePatch, ReadStale, DropPatch, CountPatches,
         LoadMachine, StoreCount
<1>2. CASE Fails(h) \/ Ends(h)
  <2>1. /\ handler'[h] = Idle
        /\ \A g \in Hosts : g # h => handler'[g] = handler[g]
        /\ torn' = TRUE \/ torn' = (torn /\ ~handler[h].alone)
    BY <1>0, <1>2 DEF Fails, Ends
  <2>2. ~InInventory(h)'
    BY <2>1 DEF Idle, InInventory
  <2> QED
    BY <1>0, <1>1, <2>1, <2>2
<1>3. CASE UpdateInventory(h) \/ ReadSnapshot(h)
  BY <1>0, <1>3 DEF UpdateInventory, ReadSnapshot, InInventory
<1>4. CASE (SaveSnapshot(h) /\ ~Fails(h)) \/ ClearItems(h)
  BY <1>0, <1>4 DEF SaveSnapshot, ClearItems, InInventory
<1>5. CASE ReplaceItems(h)
  <2>1. \A g \in Hosts :
          handler'[g] = IF g = h
                        THEN [handler[h] EXCEPT !.pc = "machine",
                                                !.row = FALSE]
                        ELSE [handler[g] EXCEPT
                                !.row = @ /\ handler[g].pc # "items"]
    BY <1>5 DEF ReplaceItems
  <2>2. ASSUME NEW g \in Hosts
        PROVE  /\ handler'[g].alone = handler[g].alone
               /\ g # h => handler'[g].pc = handler[g].pc
               /\ g = h => handler'[g].pc = "machine"
    <3>1. handler[g] \in Handler
      BY <1>0
    <3>2. CASE g = h
      BY <2>1, <3>1, <3>2
    <3>3. CASE g # h
      BY <2>1, <3>1, <3>3
    <3> QED
      BY <3>2, <3>3
  <2> QED
    BY <1>0, <1>1, <1>5, <2>2 DEF ReplaceItems, InInventory
<1>6. CASE UpdateMachine(h) \/ (AddMachine(h) /\ ~Fails(h))
  BY <1>0, <1>6 DEF UpdateMachine, AddMachine, Syncs, InInventory
<1>7. CASE ReadPatch(h) \/ (WritePatch(h) /\ ~Fails(h))
  BY <1>0, <1>7 DEF ReadPatch, WritePatch, InInventory
<1>8. CASE ReadStale(h) \/ DropPatch(h)
  BY <1>0, <1>8 DEF ReadStale, DropPatch, InInventory
<1>9. CASE CountPatches(h)
  BY <1>0, <1>1, <1>9, CountsNext DEF InInventory
<1>11. CASE LoadMachine(h) /\ ~Ends(h)
  <2>1. /\ handler'[h].pc = "store"
        /\ handler'[h].alone = handler[h].alone
        /\ \A g \in Hosts : g # h => handler'[g] = handler[g]
        /\ torn' = torn
    BY <1>0, <1>11 DEF LoadMachine
  <2> QED
    BY <1>0, <1>1, <2>1 DEF InInventory
<1>10. CASE StoreCount(h)
  BY <1>2, <1>10 DEF StoreCount
<1> QED
  BY <1>2, <1>3, <1>4, <1>5, <1>6, <1>7, <1>8, <1>9, <1>10,
     <1>11 DEF InventoryStep


(* What a step outside the inventories may do to the catalogue.            *)
Untouched ==
  /\ \A g \in Hosts : IF InInventory(g) THEN handler'[g] = handler[g]
                      ELSE handler'[g].pc \in {"idle", "beat"}
  /\ UNCHANGED <<torn, snapshot, items>>
  /\ registry'.facts \in {registry.facts, None}
  /\ Existing' \subseteq Existing /\ Existing \subseteq Existing' \cup deleted'
  /\ deleted \subseteq deleted' /\ deleted' \cap Existing' = {}
  /\ "patches" \notin drift' => patches' = patches /\ "patches" \notin drift
  /\ "row" \notin drift' /\ machine'.exists
       => machine' = machine /\ "row" \notin drift

(* Such a step leaves an inventory that runs alone where it was.           *)
LEMMA ProgressStays ==
  ASSUME CatalogueInv, Untouched, NEW h \in Hosts, Alone(h)
  PROVE  Progress(h)'
<1>1. /\ handler'[h] = handler[h] /\ Progress(h)
      /\ snapshot' = snapshot /\ items' = items
      /\ registry'.facts \in {registry.facts, None}
  BY DEF CatalogueInv, Untouched, Alone
<1>2. Saved(h)'
  BY <1>1 DEF Progress, Saved
<1>3. Synced(h)'
  <2>1. /\ Existing' \subseteq Existing
        /\ Existing \cup deleted \subseteq Existing' \cup deleted'
    BY DEF Untouched
  <2>2. handler'[h] = handler[h] /\ Synced(h)
    BY <1>1 DEF Progress
  <2> QED
    BY <2>1, <2>2 DEF Synced
<1>4. Recounted(h)'
  <2>1. patches' = patches => Counted' = Counted
    BY DEF Counted
  <2> QED
    BY <1>1, <2>1 DEF Progress, Recounted, Untouched
<1> QED
  BY <1>2, <1>3, <1>4 DEF Progress

(* And the catalogue of a settled server as it should be.                  *)
LEMMA CatalogueStays ==
  ASSUME CatalogueInv, Untouched, TypeOK'
  PROVE  CatalogueInv'
<1>1. \A g \in Hosts : /\ InInventory(g)' <=> InInventory(g)
                       /\ InInventory(g) => handler'[g] = handler[g]
  BY DEF Untouched, InInventory
<1>2. ASSUME NEW h \in Hosts, Alone(h)'
      PROVE  Progress(h)' /\ \A g \in Hosts : InInventory(g)' => g = h
  <2>1. Alone(h)
    BY <1>1, <1>2 DEF Alone
  <2> QED
    BY <1>1, <2>1, ProgressStays DEF CatalogueInv
<1>3. (~torn => \A h \in Hosts : InInventory(h) => handler[h].alone)'
  BY <1>1 DEF CatalogueInv, Untouched
<1>4. ASSUME Settled' PROVE Follows' /\ Agrees'
  <2>1. Follows /\ Agrees
    BY <1>1, <1>4 DEF CatalogueInv, Settled, Untouched
  <2>2. Follows'
    BY <2>1 DEF Follows, Untouched
  <2>3. ASSUME drift' = {}, machine'.exists
        PROVE  machine' = machine /\ drift = {} /\ Counted' = Counted
    <3>1. drift \in SUBSET {"patches", "row"}
      BY DEF CatalogueInv, TypeOK
    <3> QED
      BY <2>3, <3>1 DEF Untouched, Counted
  <2> QED
    BY <2>1, <2>2, <2>3 DEF Agrees
<1>5. (deleted \cap Existing = {})'
  BY DEF Untouched
<1> QED
  BY <1>2, <1>3, <1>4, <1>5 DEF CatalogueInv

(* A step of an inventory keeps the invariant.                             *)
LEMMA InventoryKeeps ==
  ASSUME CatalogueInv, TypeOK', NEW h \in Hosts, InventoryStep(h)
  PROVE  CatalogueInv'
<1>1. /\ InInventory(h)
      /\ \A g \in Hosts : g # h => /\ handler'[g].pc = handler[g].pc
                                   /\ handler'[g].alone = handler[g].alone
      /\ InInventory(h)' => /\ handler'[h].alone = handler[h].alone
                            /\ torn' = torn
      /\ ~InInventory(h)' =>
           torn' = TRUE \/ torn' = (torn /\ ~handler[h].alone)
  BY StepOfOne DEF CatalogueInv
<1>2. \A g \in Hosts : g # h => (InInventory(g)' <=> InInventory(g))
  BY <1>1 DEF InInventory
<1>3. ASSUME NEW g \in Hosts, Alone(g)'
      PROVE  Progress(g)' /\ \A f \in Hosts : InInventory(f)' => f = g
  <2>1. Alone(g)
    BY <1>1, <1>2, <1>3 DEF Alone
  <2>2. g = h
    BY <1>1, <2>1 DEF CatalogueInv
  <2>3. InInventory(h)'
    BY <1>3, <2>2 DEF Alone
  <2>4. Progress(h)'
    BY <2>1, <2>2, <2>3, SavesOn, SyncsOn, CountsOn DEF Progress
  <2> QED
    BY <1>2, <2>1, <2>2, <2>4 DEF CatalogueInv
<1>4. ASSUME ~torn', NEW g \in Hosts, InInventory(g)'
      PROVE  handler'[g].alone
  <2>1. InInventory(g)
    BY <1>1, <1>2, <1>4
  <2>2. CASE ~torn
    <3>1. handler[g].alone
      BY <2>1, <2>2 DEF CatalogueInv
    <3>2. handler'[g].alone = handler[g].alone
      BY <1>1, <1>4
    <3> QED
      BY <3>1, <3>2
  <2>3. CASE torn
    <3>1. ~InInventory(h)' /\ Alone(h)
      BY <1>1, <1>4, <2>3 DEF Alone
    <3> QED
      BY <1>4, <2>1, <3>1 DEF CatalogueInv
  <2> QED
    BY <2>2, <2>3
<1>5. ASSUME Settled' PROVE Follows' /\ Agrees'
  <2>1. ~InInventory(h)' /\ ~torn'
    BY <1>5 DEF Settled
  <2>2. Alone(h)
    BY <1>1, <2>1 DEF Alone, CatalogueInv
  <2> QED
    BY <2>1, <2>2, EndsWell
<1> QED
  BY <1>3, <1>4, <1>5, DeletedAreGone DEF CatalogueInv

(* An inventory that is admitted runs alone, or nobody does.               *)
LEMMA AdmissionKeeps ==
  ASSUME CatalogueInv, TypeOK', NEW h \in Hosts, SendInventory(h)
  PROVE  CatalogueInv'
<1>0. handler \in [Hosts -> Handler]
  BY DEF CatalogueInv, TypeOK
<1>1. /\ handler'[h].pc = "enter" /\ handler'[h].alone = (Others(h) = {})
      /\ \A g \in Hosts : g # h =>
           /\ handler'[g].pc = handler[g].pc
           /\ handler'[g].alone = (handler[g].alone /\ ~InInventory(g))
      /\ torn' = (torn \/ Others(h) # {})
      /\ UNCHANGED <<patches, deleted>>
  <2>1. PICK report \in Reports[h] :
          handler' = [g \in Hosts |->
            IF g = h THEN [Idle EXCEPT !.pc = "enter",
                                       !.mine = report.updates,
                                       !.total = report.total,
                                       !.alone = Others(h) = {}]
            ELSE [handler[g] EXCEPT !.alone = @ /\ ~InInventory(g)]]
    BY DEF SendInventory
  <2>2. handler'[h] = [Idle EXCEPT !.pc = "enter", !.mine = report.updates,
                                   !.total = report.total,
                                   !.alone = Others(h) = {}]
    BY <2>1
  <2>3. handler'[h].pc = "enter" /\ handler'[h].alone = (Others(h) = {})
    BY <2>2 DEF Idle
  <2>4. ASSUME NEW g \in Hosts, g # h
        PROVE  /\ handler'[g].pc = handler[g].pc
               /\ handler'[g].alone = (handler[g].alone /\ ~InInventory(g))
    <3>1. handler'[g] = [handler[g] EXCEPT !.alone = @ /\ ~InInventory(g)]
      BY <2>1, <2>4
    <3>2. handler[g] \in Handler
      BY <1>0
    <3> QED
      BY <3>1, <3>2 DEF Handler
  <2> QED
    BY <2>3, <2>4 DEF SendInventory, tables
<1>2. InInventory(h)' /\ (handler'[h].alone => Progress(h)')
  BY <1>1 DEF InInventory, Progress, Saved, Synced, Recounted
<1>3. \A g \in Hosts : g # h => (InInventory(g)' <=> InInventory(g))
  BY <1>1 DEF InInventory
<1>4. ASSUME NEW g \in Hosts, Alone(g)'
      PROVE  Progress(g)' /\ \A f \in Hosts : InInventory(f)' => f = g
  <2>1. g = h
    BY <1>1, <1>3, <1>4 DEF Alone
  <2> QED
    BY <1>1, <1>2, <1>3, <1>4, <2>1 DEF Alone, Others
<1>5. ASSUME ~torn', NEW g \in Hosts, InInventory(g)'
      PROVE  handler'[g].alone
  <2>1. Others(h) = {}
    BY <1>1, <1>5
  <2>2. g = h
    BY <1>3, <1>5, <2>1 DEF Others
  <2> QED
    BY <1>1, <2>1, <2>2
<1>6. (deleted \cap Existing = {})'
  BY <1>1 DEF CatalogueInv, Existing
<1>7. ~Settled'
  BY <1>2 DEF Settled
<1> QED
  BY <1>4, <1>5, <1>6, <1>7 DEF CatalogueInv

(* The other steps of requests do not touch the catalogue.                 *)
LEMMA BeatsApart ==
  ASSUME TypeOK, deleted \cap Existing = {}, NEW h \in Hosts,
         SendHeartbeat(h) \/ Heartbeat(h)
  PROVE  Untouched
<1>0. handler \in [Hosts -> Handler]
  BY DEF TypeOK
<1>1. /\ UNCHANGED <<tables, torn, drift, deleted>>
      /\ registry'.facts = registry.facts
  BY DEF SendHeartbeat, Heartbeat, Fresh
<1>2. \A g \in Hosts : IF InInventory(g) THEN handler'[g] = handler[g]
                       ELSE handler'[g].pc \in {"idle", "beat"}
  <2>1. CASE SendHeartbeat(h)
    BY <1>0, <2>1 DEF SendHeartbeat, At, Goes, InInventory, Handler
  <2>2. CASE Heartbeat(h)
    BY <1>0, <2>2 DEF Heartbeat, At, InInventory, Idle, Handler
  <2> QED
    BY <2>1, <2>2
<1>3. Existing' = Existing
  BY <1>1 DEF Existing, tables
<1> QED
  BY <1>1, <1>2, <1>3 DEF Untouched, tables

(* Neither do operators, job results and time, but for what the histories     *)
(* deleted and drift tell.                                                 *)
LEMMA OperatorsApart ==
  ASSUME CatalogueInv, Operator \/ Age
  PROVE  Untouched
<1>0. /\ deleted \cap Existing = {} /\ patches \in [Updates -> Statuses]
      /\ registry \in [seen : {"no", "fresh", "aged"},
                       facts : {None} \cup SUBSET Updates]
  BY DEF CatalogueInv, TypeOK
<1>1. handler' = handler /\ UNCHANGED <<torn, snapshot, items>>
  BY DEF Operator, ConsoleStep, Review, DeletePatch, EditMachine, Revoke,
         DeleteMachine, Disconnect, DeleteRow, Approve, Age, tables
<1>2. \A g \in Hosts : IF InInventory(g) THEN handler'[g] = handler[g]
                       ELSE handler'[g].pc \in {"idle", "beat"}
  BY <1>1 DEF InInventory
<1>3. registry'.facts \in {registry.facts, None}
  BY <1>0 DEF Operator, ConsoleStep, Review, DeletePatch, EditMachine, Revoke,
              DeleteMachine, Disconnect, DeleteRow, Approve, Age, Unknown
<1>4. ASSUME NEW u \in Updates, NEW verdict \in Statuses \ {"absent"},
             Review(u, verdict)
      PROVE  Untouched
  <2>1. /\ patches' = [patches EXCEPT ![u] = verdict] /\ patches[u] # "absent"
        /\ drift' = drift \cup {"patches"} /\ UNCHANGED <<machine, deleted>>
    BY <1>4 DEF Review
  <2>2. Existing' = Existing
    BY <1>0, <2>1 DEF Existing
  <2> QED
    BY <1>0, <1>1, <1>2, <1>3, <2>1, <2>2 DEF Untouched
<1>5. ASSUME NEW u \in Updates, DeletePatch(u) PROVE Untouched
  <2>1. /\ patches' = [patches EXCEPT ![u] = "absent"]
        /\ deleted' = deleted \cup {u} /\ drift' = drift \cup {"patches"}
        /\ machine' = machine
    BY <1>5 DEF DeletePatch
  <2>2. Existing' = Existing \ {u}
    BY <1>0, <2>1 DEF Existing
  <2> QED
    BY <1>0, <1>1, <1>2, <1>3, <2>1, <2>2 DEF Untouched
<1>6. CASE EditMachine \/ DeleteRow
  <2>1. /\ UNCHANGED <<patches, deleted>>
        /\ \/ drift' = drift \cup {"row"}
           \/ drift' = drift /\ ~machine'.exists
    BY <1>6 DEF EditMachine, DeleteRow
  <2>2. Existing' = Existing
    BY <2>1 DEF Existing
  <2> QED
    BY <1>0, <1>1, <1>2, <1>3, <2>1, <2>2 DEF Untouched
<1>7. CASE Revoke \/ DeleteMachine \/ Disconnect \/ Approve \/ Age
  <2>1. UNCHANGED <<machine, patches, deleted, drift>>
    BY <1>7 DEF Revoke, DeleteMachine, Disconnect, Approve, Age, tables
  <2>2. Existing' = Existing
    BY <2>1 DEF Existing
  <2> QED
    BY <1>0, <1>1, <1>2, <1>3, <2>1, <2>2 DEF Untouched
<1> QED
  BY <1>4, <1>5, <1>6, <1>7 DEF Operator, ConsoleStep

(* A restart that meets an inventory leaves the catalogue torn.            *)
LEMMA RestartKeeps ==
  ASSUME CatalogueInv, TypeOK', Restart
  PROVE  CatalogueInv'
<1>1. /\ \A g \in Hosts : handler'[g] = Idle
      /\ torn' = (torn \/ \E h \in Hosts : InInventory(h))
      /\ UNCHANGED <<snapshot, items, machine, patches, drift, deleted>>
      /\ registry'.facts = None
  BY DEF Restart, Unknown, tables
<1>2. \A g \in Hosts : ~InInventory(g)'
  BY <1>1 DEF InInventory, Idle
<1>3. Existing' = Existing
  BY <1>1 DEF Existing
<1>4. CASE \E h \in Hosts : InInventory(h)
  <2>1. ~Settled'
    BY <1>1, <1>4 DEF Settled
  <2> QED
    BY <1>1, <1>2, <1>3, <2>1 DEF CatalogueInv, Alone
<1>5. CASE \A h \in Hosts : ~InInventory(h)
  <2>1. torn' = torn
    BY <1>1, <1>5 DEF CatalogueInv, TypeOK
  <2>2. Untouched
    BY <1>1, <1>3, <1>5, <2>1 DEF Untouched, Idle, CatalogueInv
  <2> QED
    BY <2>2, CatalogueStays
<1> QED
  BY <1>4, <1>5

(* The catalogue holds together in every behaviour.                        *)
LEMMA CatalogueInvariant == Spec => []CatalogueInv
<1>1. Init => CatalogueInv
  <2> SUFFICES ASSUME Init PROVE CatalogueInv
    OBVIOUS
  <2>1. \A h \in Hosts : ~InInventory(h)
    BY DEF Init, InInventory, Idle
  <2>2. Follows /\ Agrees
    BY DEF Init, Follows, Agrees
  <2>3. deleted \cap Existing = {}
    BY DEF Init
  <2> QED
    BY <2>1, <2>2, <2>3, InitTyped DEF CatalogueInv, Alone
<1>2. CatalogueInv /\ TypeOK' /\ [Next]_vars => CatalogueInv'
  <2> SUFFICES ASSUME CatalogueInv, TypeOK', [Next]_vars PROVE CatalogueInv'
    OBVIOUS
  <2>1. ASSUME NEW h \in Hosts, InventoryStep(h) PROVE CatalogueInv'
    BY <2>1, InventoryKeeps
  <2>2. ASSUME NEW h \in Hosts, SendInventory(h) PROVE CatalogueInv'
    BY <2>2, AdmissionKeeps
  <2>3. ASSUME NEW h \in Hosts, SendHeartbeat(h) \/ Heartbeat(h)
        PROVE  CatalogueInv'
    BY <2>3, BeatsApart, CatalogueStays DEF CatalogueInv
  <2>4. CASE Operator \/ Age
    BY <2>4, OperatorsApart, CatalogueStays
  <2>5. CASE Restart
    BY <2>5, RestartKeeps
  <2>6. CASE UNCHANGED vars
    <3>1. Existing' = Existing
      BY <2>6 DEF vars, tables, Existing
    <3>2. Untouched
      BY <2>6, <3>1 DEF vars, tables, Untouched, InInventory, CatalogueInv
    <3> QED
      BY <3>2, CatalogueStays
  <2> QED
    BY <2>1, <2>2, <2>3, <2>4, <2>5, <2>6 DEF Next, HandlerStep
<1> QED
  BY TypeCorrect, <1>1, <1>2, PTL DEF Spec

(* After an inventory that ran alone to its end, whatever clones,          *)
(* operators and restarts do, snapshot, items and patches tell one report, *)
(* until another inventory overlaps one or is cut short.                   *)
THEOREM CatalogueHolds == Spec => []CatalogueFollows
<1>1. CatalogueInv => CatalogueFollows
  BY DEF CatalogueInv, Follows, CatalogueFollows
<1> QED
  BY CatalogueInvariant, <1>1, PTL

(* And the count on the machine row is that of its undecided and approved  *)
(* patches, whatever total the report gave, until an operator, the worker  *)
(* or the result of a job changes a patch or the row.                      *)
THEOREM CountHolds == Spec => []CountAgrees
<1>1. CatalogueInv => CountAgrees
  BY DEF CatalogueInv, Agrees, CountAgrees, Counted, Uninstalled
<1> QED
  BY CatalogueInvariant, <1>1, PTL
=============================================================================
