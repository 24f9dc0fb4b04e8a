----------------------- MODULE IdentityConflictProofs -----------------------
(***************************************************************************)
(* Proofs about IdentityConflict, for any hosts, operators and bounds.     *)
(*                                                                         *)
(* That a flagged machine shows a conflict is not inductive: a resolution  *)
(* writes only the columns that differ from the row it loaded, so it could *)
(* clear a conflict and leave a flag raised after the load.  It does not,  *)
(* because conflict and flag are set together, in the machine and in every *)
(* row a resolution has loaded.                                            *)
(***************************************************************************)
EXTENDS IdentityConflict, TLAPS

ConflictIffFlagged(row) == row.conflict # None <=> row.flagged

MachineConsistent ==
  /\ machine.flagged => machine.exists /\ machine.hardware # None
  /\ ConflictIffFlagged(machine)

LoadedConsistent ==
  \A o \in Operators : console[o] # Idle =>
    /\ console[o].seen.conflict # None
    /\ console[o].seen.flagged
    /\ console[o].seen.exists

IInv == TypeOK /\ MachineConsistent /\ LoadedConsistent

(* The handling of another fingerprint yields a well-typed, consistent row. *)
LEMMA ConflictRow ==
  ASSUME TypeOK, MachineConsistent, machine.exists,
         machine.hardware # None, NEW f \in Hosts \ Silent
  PROVE  /\ Conflict(f) \in Row
         /\ Conflict(f).exists /\ Conflict(f).hardware # None
         /\ ConflictIffFlagged(Conflict(f))
         /\ machine.flagged => /\ Conflict(f).hardware = machine.hardware
                               /\ Conflict(f).flagged
  BY ConstantsOK DEF TypeOK, MachineConsistent, ConflictIffFlagged, Conflict,
     Review, Flag, AutoResolve, Oscillates, Row, Fingerprints

(* The initial state satisfies the inductive invariant.                     *)
LEMMA InitInv == Init => IInv
  BY ConstantsOK DEF Init, IInv, TypeOK, MachineConsistent, LoadedConsistent,
     ConflictIffFlagged, NoRow, Row, Fingerprints, Idle

(* An inventory keeps the row well typed and consistent, and a flagged      *)
(* machine's baseline and flag.                                             *)
LEMMA InventoryRow ==
  ASSUME IInv, NEW h \in Hosts, Inventory(h)
  PROVE  /\ machine' \in Row
         /\ MachineConsistent'
         /\ machine.flagged => machine'.hardware = machine.hardware
<1> USE DEF IInv
<1>1. CASE ~machine.exists
  <2>1. machine' = [NoRow EXCEPT !.exists = TRUE, !.hardware = Sent(h)]
    BY <1>1 DEF Inventory
  <2>2. Sent(h) \in Fingerprints
    BY DEF Sent, Fingerprints
  <2> QED
    BY <1>1, <2>1, <2>2, ConstantsOK DEF MachineConsistent, NoRow, Row,
       ConflictIffFlagged, Fingerprints
<1>2. CASE machine.exists /\ machine' = machine
  BY <1>2 DEF MachineConsistent, TypeOK
<1>3. CASE /\ machine.exists /\ h \notin Silent
           /\ machine' = [machine EXCEPT !.hardware = h]
           /\ machine.hardware = None
  BY <1>3 DEF MachineConsistent, TypeOK, Row, ConflictIffFlagged, Fingerprints
<1>4. CASE /\ machine.exists /\ h \notin Silent
           /\ machine.hardware # None
           /\ machine' = Conflict(h)
  BY <1>4, ConflictRow DEF MachineConsistent
<1> QED
  BY <1>1, <1>2, <1>3, <1>4 DEF Inventory, Sent

(* A step keeps the inductive invariant, and a flagged machine's baseline   *)
(* unless it lowers the flag.                                               *)
LEMMA NextInv ==
  ASSUME IInv, [Next]_vars
  PROVE  /\ IInv'
         /\ machine.flagged => \/ machine'.hardware = machine.hardware
                               \/ ~machine'.flagged
<1> USE DEF IInv
<1>1. ASSUME NEW h \in Hosts, Inventory(h)
      PROVE  /\ IInv'
             /\ machine.flagged => machine'.hardware = machine.hardware
  <2>1. TypeOK' /\ LoadedConsistent'
    BY <1>1, InventoryRow DEF Inventory, TypeOK, LoadedConsistent
  <2> QED
    BY <1>1, <2>1, InventoryRow
<1>2. CASE WindowPasses
  BY <1>2, ConstantsOK DEF WindowPasses, TypeOK, MachineConsistent,
     LoadedConsistent, ConflictIffFlagged, Row
<1>3. ASSUME NEW o \in Operators, ResolveRead(o)
      PROVE  IInv' /\ machine' = machine
  <2>1. TypeOK'
    BY <1>3, ConstantsOK DEF ResolveRead, TypeOK
  <2>2. MachineConsistent' /\ machine' = machine
    BY <1>3 DEF ResolveRead, MachineConsistent, ConflictIffFlagged
  <2>3. LoadedConsistent'
    BY <1>3 DEF ResolveRead, TypeOK, LoadedConsistent, MachineConsistent,
       ConflictIffFlagged
  <2> QED
    BY <2>1, <2>2, <2>3
<1>4. ASSUME NEW o \in Operators, ResolveCommit(o)
      PROVE  IInv' /\ (machine.flagged => ~machine'.flagged)
  <2> DEFINE seen == console[o].seen
  <2>1. /\ seen \in Row /\ seen.conflict # None /\ seen.flagged
        /\ Resolved(seen) \in Row
    BY <1>4 DEF ResolveCommit, TypeOK, LoadedConsistent, Resolved, Row, Idle,
       Fingerprints
  <2>2. CASE ~machine.exists
    BY <1>4, <2>2 DEF ResolveCommit, TypeOK, MachineConsistent,
       LoadedConsistent, ConflictIffFlagged
  <2>3. CASE machine.exists
    <3>1. machine' \in Row
      BY <1>4, <2>1, <2>3 DEF ResolveCommit, TypeOK, Row
    <3>2. ~machine'.flagged /\ machine'.conflict = None
      BY <1>4, <2>1, <2>3 DEF ResolveCommit, TypeOK, Row, Resolved
    <3>3. TypeOK' /\ LoadedConsistent'
      BY <1>4, <3>1 DEF ResolveCommit, TypeOK, LoadedConsistent
    <3> QED
      BY <3>2, <3>3 DEF MachineConsistent, ConflictIffFlagged
  <2> QED
    BY <2>2, <2>3
<1>5. CASE Delete
  BY <1>5, ConstantsOK DEF Delete, TypeOK, MachineConsistent,
     LoadedConsistent, ConflictIffFlagged, NoRow, Row, Fingerprints
<1>6. CASE UNCHANGED vars
  BY <1>6 DEF vars, TypeOK, MachineConsistent, LoadedConsistent,
     ConflictIffFlagged
<1> QED
  BY <1>1, <1>2, <1>3, <1>4, <1>5, <1>6 DEF Next

(* The inductive invariant holds in every reachable state.                  *)
THEOREM Invariance == Spec => []IInv
  BY InitInv, NextInv, PTL DEF Spec

(* Every reachable state of the identity of a machine is well typed.        *)
THEOREM TypeCorrect == Spec => []TypeOK
<1>1. IInv => TypeOK
  BY DEF IInv
<1> QED
  BY <1>1, Invariance, PTL

(* A flagged machine always shows the conflict its resolution needs,        *)
(* whatever resolutions overlap inventories, deletions and one another.     *)
THEOREM FlagResolvable == Spec => []FlagIsResolvable
<1>1. IInv => FlagIsResolvable
  BY DEF IInv, MachineConsistent, ConflictIffFlagged, FlagIsResolvable
<1> QED
  BY <1>1, Invariance, PTL

(* No inventory replaces the baseline of a machine under review.            *)
THEOREM ReviewHolds == Spec => ReviewStands
<1>1. IInv /\ [Next]_vars =>
        [machine.flagged => \/ machine'.hardware = machine.hardware
                            \/ ~machine'.flagged]_machine
  BY NextInv
<1> QED
  BY <1>1, Invariance, PTL DEF Spec, ReviewStands
=============================================================================
