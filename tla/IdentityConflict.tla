-------------------------- MODULE IdentityConflict --------------------------
(***************************************************************************)
(* The identity of one machine row whose agent id several cloned hosts     *)
(* present.  Each host reports its own hardware fingerprint with every     *)
(* inventory; the API adopts, auto-resolves or flags it, and operators     *)
(* resolve flagged conflicts or delete the machine.                        *)
(*                                                                         *)
(* An inventory holds the row's lock from load to commit and is one step.  *)
(* A resolution loads the row without a lock and commits later.            *)
(***************************************************************************)
EXTENDS Naturals

CONSTANTS
  Hosts,          \* hosts that share the agent id; a host is its fingerprint
  Silent,         \* hosts whose agent sends no fingerprint
  None,           \* no fingerprint
  Operators,      \* threads serving operator requests
  MaxOperations,  \* bound: resolutions and deletions started
  MaxWindows      \* bound: times an oscillation window passes

ASSUME ConstantsOK ==
  /\ Silent \subseteq Hosts
  /\ None \notin Hosts
  /\ MaxOperations \in Nat /\ MaxWindows \in Nat

VARIABLES
  machine,     \* identity columns of the machine row
  console,     \* per operator thread, the row a resolution loaded
  operations,  \* operations started so far
  windows      \* windows passed so far

vars == <<machine, console, operations, windows>>

Fingerprints == (Hosts \ Silent) \cup {None}
Row == [exists : BOOLEAN,
        hardware : Fingerprints,    \* hardware_fingerprint
        conflict : Fingerprints,    \* identity_conflict_fingerprint
        previous : Fingerprints,    \* identity_conflict_previous_fingerprint
        resolved : {"never", "recent", "old"},  \* age of auto_resolved_at
        flagged : BOOLEAN]          \* oscillation detected
NoRow == [exists |-> FALSE, hardware |-> None, conflict |-> None,
          previous |-> None, resolved |-> "never", flagged |-> FALSE]
Idle == [pc |-> "idle"]

SentAlways(h) == h           \* mutant: an agent makes a fingerprint up
Sent(h) == IF h \in Silent THEN None ELSE h

Init ==
  /\ machine = NoRow
  /\ console = [o \in Operators |-> Idle]
  /\ operations = 0
  /\ windows = 0

-----------------------------------------------------------------------------
(* Handling of a fingerprint other than the one stored.                    *)

Review(f) == [machine EXCEPT !.conflict = f]
Flag(f) == [machine EXCEPT !.conflict = f, !.flagged = TRUE]
AutoResolve(f) == [machine EXCEPT !.previous = machine.hardware,
                                  !.hardware = f, !.resolved = "recent",
                                  !.conflict = None]
Oscillates(f) == machine.resolved = "recent" /\ machine.previous = f

ConflictUnreviewed(f) ==     \* mutant: a flagged machine resolves itself
  IF Oscillates(f) /\ ~machine.flagged THEN Flag(f) ELSE AutoResolve(f)
ConflictUnchecked(f) ==      \* mutant: an oscillation is not detected
  IF machine.flagged THEN Review(f) ELSE AutoResolve(f)
Conflict(f) ==
  IF machine.flagged THEN Review(f)
  ELSE IF Oscillates(f) THEN Flag(f)
  ELSE AutoResolve(f)

Inventory(h) ==
  /\ machine' =
       IF ~machine.exists
         THEN [NoRow EXCEPT !.exists = TRUE, !.hardware = Sent(h)]
       ELSE IF Sent(h) = None THEN machine
       ELSE IF machine.hardware = None THEN [machine EXCEPT !.hardware = h]
       ELSE IF machine.hardware # h THEN Conflict(h)
       ELSE machine
  /\ UNCHANGED <<console, operations, windows>>

WindowPasses ==
  /\ windows < MaxWindows
  /\ machine.resolved = "recent"
  /\ machine' = [machine EXCEPT !.resolved = "old"]
  /\ windows' = windows + 1
  /\ UNCHANGED <<console, operations>>

-----------------------------------------------------------------------------
(* Operators.                                                              *)

ResolveRead(o) ==
  /\ console[o] = Idle
  /\ operations < MaxOperations
  /\ machine.exists /\ machine.conflict # None
  /\ console' = [console EXCEPT ![o] = [pc |-> "commit", seen |-> machine]]
  /\ operations' = operations + 1
  /\ UNCHANGED <<machine, windows>>

ResolvedStillFlagged(seen) ==     \* mutant: the flag is not lowered
  [seen EXCEPT !.hardware = seen.conflict, !.conflict = None,
               !.resolved = "never", !.previous = None]
Resolved(seen) ==
  [seen EXCEPT !.hardware = seen.conflict, !.conflict = None,
               !.flagged = FALSE, !.resolved = "never", !.previous = None]

(* The commit writes the columns that differ from what was loaded; a row   *)
(* deleted meanwhile makes it fail.                                        *)
ResolveCommit(o) ==
  /\ console[o] # Idle
  /\ LET seen == console[o].seen
         new == Resolved(seen)
     IN  machine' = IF ~machine.exists THEN machine
                    ELSE [c \in DOMAIN machine |->
                            IF new[c] # seen[c] THEN new[c] ELSE machine[c]]
  /\ console' = [console EXCEPT ![o] = Idle]
  /\ UNCHANGED <<operations, windows>>

Delete ==      \* the row returns with the next inventory of an approved agent
  /\ machine.exists
  /\ operations < MaxOperations
  /\ machine' = NoRow
  /\ operations' = operations + 1
  /\ UNCHANGED <<console, windows>>

-----------------------------------------------------------------------------
Next ==
  \/ \E h \in Hosts : Inventory(h)
  \/ WindowPasses
  \/ \E o \in Operators : ResolveRead(o) \/ ResolveCommit(o)
  \/ Delete

Spec == Init /\ [][Next]_vars

(* Every agent sends its inventory in a loop; the API finishes requests.   *)
FairSpec == Spec /\ \A h \in Hosts : WF_vars(Inventory(h))
                 /\ \A o \in Operators : WF_vars(ResolveCommit(o))

-----------------------------------------------------------------------------
(* Every variable stays in its type.                                       *)
TypeOK ==
  /\ machine \in Row
  /\ console \in [Operators -> {Idle} \cup [pc : {"commit"}, seen : Row]]
  /\ operations \in 0..MaxOperations
  /\ windows \in 0..MaxWindows

(* A flagged machine always shows a conflict: without one the resolution is *)
(* refused with 409 and auto-resolution stays off, for ever.                *)
FlagIsResolvable ==
  machine.flagged => machine.exists /\ machine.conflict # None

(* While a machine is flagged, inventories leave its baseline alone: it     *)
(* changes only in a step that lowers the flag, a resolution or deletion.   *)
ReviewStands ==
  [][machine.flagged => \/ machine'.hardware = machine.hardware
                        \/ ~machine'.flagged]_machine

(* Hosts that share an agent id and keep reporting are brought to an        *)
(* operator again and again until they are told apart.                      *)
ClonesAreFlagged == []<>(machine.flagged)
=============================================================================
