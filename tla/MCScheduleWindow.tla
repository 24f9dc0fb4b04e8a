-------------------------- MODULE MCScheduleWindow --------------------------
(***************************************************************************)
(* A calendar for TLC: the last days of a month of 31 days, a February and *)
(* the first days of March; and one request body per recurrence.           *)
(***************************************************************************)
EXTENDS ScheduleWindow, TLC

MCMonth == [d \in FirstDay..(LastDay + 7) |->
              IF d <= 31 THEN 1 ELSE IF d <= 59 THEN 32 ELSE 60]

Body(r, date, policy) ==
  [scope |-> "group", recurrence |-> r, weekday |-> None, ordinal |-> None,
   installDate |-> date, installTime |-> 1, rebootDate |-> None,
   rebootTime |-> 2, policy |-> policy, active |-> TRUE]
NthBody(weekday, ordinal) ==
  [Body("monthly_weekday", None, "always") EXCEPT !.weekday = weekday,
                                                  !.ordinal = ordinal]
MCPayloads ==
  {Body("once", 30, "always"), Body("other", 30, "if-needed"),
   Body("monthly", 31, "always"), NthBody(3, 4), NthBody(3, -1),
   [Body("daily", 31, "never") EXCEPT !.scope = None],
   [Body("weekly", 30, "Sempre reiniciar") EXCEPT !.rebootDate = 32]}

OperatorSymmetry == Permutations(Operators)
=============================================================================
