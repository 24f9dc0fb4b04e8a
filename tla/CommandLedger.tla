---------------------------- MODULE CommandLedger ----------------------------
(***************************************************************************)
(* What the command queue of one agent id promises the hosts that share    *)
(* the id: a command is handed out to one host, and never ahead of one     *)
(* that was in the queue before its own request began; a host holds a      *)
(* command until it is closed, and only a retryable command that is closed *)
(* can be queued again.                                                    *)
(***************************************************************************)
EXTENDS Naturals, Sequences

VARIABLES
  ledger,     \* per command in insertion order: "queued", "held" or "closed"
  retryable,  \* per command, whether it may be queued again
  before      \* per command, how many were there when its request began

ledgerVars == <<ledger, retryable, before>>

Queued == {c \in DOMAIN ledger : ledger[c] = "queued"}
MoveTo(c, s) == /\ ledger' = [ledger EXCEPT ![c] = s]
                /\ UNCHANGED <<retryable, before>>

Init == ledger = <<>> /\ retryable = <<>> /\ before = <<>>

Queue == /\ ledger' = Append(ledger, "queued")
         /\ \E again \in BOOLEAN : retryable' = Append(retryable, again)
         /\ \E n \in 0..Len(ledger) : before' = Append(before, n)

Hold == \E c \in Queued :
          (\A d \in Queued : before[c] < d) /\ MoveTo(c, "held")

Close == \E c \in DOMAIN ledger : ledger[c] = "held" /\ MoveTo(c, "closed")

Requeue == \E c \in DOMAIN ledger :
             ledger[c] = "closed" /\ retryable[c] /\ MoveTo(c, "queued")

Next == Queue \/ Hold \/ Close \/ Requeue

Spec == Init /\ [][Next]_ledgerVars
=============================================================================
