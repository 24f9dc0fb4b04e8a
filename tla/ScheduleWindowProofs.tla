------------------------ MODULE ScheduleWindowProofs ------------------------
(***************************************************************************)
(* Proofs about ScheduleWindow, for any calendar, request bodies and       *)
(* bounds.                                                                 *)
(*                                                                         *)
(* That every reboot window gets its own command rests on the period keys: *)
(* two days of one dated row that share a key are one day (OneDayPerKey).  *)
(* The invariant needed besides says that the commands queued since the    *)
(* row was last rewritten belong to it, each for a day the row asks for.   *)
(* That windows open as the row describes them is arithmetic of the        *)
(* calendar: the nth weekday is counted by a bijection (NthOfMonth).       *)
(***************************************************************************)
EXTENDS ScheduleWindow, FiniteSetTheorems, TLAPS

(* A number is its quotient and its remainder by seven.                     *)
LEMMA BySeven ==
  ASSUME NEW x \in Int, NEW y \in Int, x \div 7 = y \div 7, x % 7 = y % 7
  PROVE  x = y
  OBVIOUS

(* Two of the same weekday, one later than the other, are a week apart.     *)
LEMMA AWeekApart ==
  ASSUME NEW d \in Days, NEW e \in Days, Weekday(d) = Weekday(e), d < e
  PROVE  d + 7 <= e
  BY CalendarOK DEF Days, Weekday

(* One month has one day of a weekday and an ordinal, the last included.    *)
LEMMA OneNthOfMonth ==
  ASSUME NEW d \in Days, NEW e \in Days, NEW n \in Ordinals,
         Month[d] = Month[e], Weekday(d) = Weekday(e),
         IF n = -1 THEN LastInMonth(d) ELSE OrdinalInMonth(d) = n,
         IF n = -1 THEN LastInMonth(e) ELSE OrdinalInMonth(e) = n
  PROVE  d = e
<1>1. /\ d \in DOMAIN Month /\ e \in DOMAIN Month
      /\ d + 7 \in DOMAIN Month /\ e + 7 \in DOMAIN Month
      /\ d \in Int /\ e \in Int /\ Month[d] \in Int
  BY CalendarOK DEF Days
<1>2. CASE n = -1
  <2>1. ~(d < e)
    <3> SUFFICES ASSUME d < e PROVE FALSE
      OBVIOUS
    <3>1. d + 7 <= e
      BY AWeekApart
    <3>2. Month[d] <= Month[d + 7] /\ Month[d + 7] <= Month[e]
      BY <1>1, <3>1, CalendarOK
    <3>3. Month[d + 7] \in Int
      BY <1>1, CalendarOK
    <3> QED
      BY <1>1, <1>2, <3>2, <3>3 DEF LastInMonth
  <2>2. ~(e < d)
    <3> SUFFICES ASSUME e < d PROVE FALSE
      OBVIOUS
    <3>1. e + 7 <= d
      BY AWeekApart
    <3>2. Month[e] <= Month[e + 7] /\ Month[e + 7] <= Month[d]
      BY <1>1, <3>1, CalendarOK
    <3>3. Month[e + 7] \in Int
      BY <1>1, CalendarOK
    <3> QED
      BY <1>1, <1>2, <3>2, <3>3 DEF LastInMonth
  <2> QED
    BY <1>1, <2>1, <2>2
<1>3. CASE n # -1
  <2>1. (d - Month[d]) \div 7 = (e - Month[d]) \div 7
    <3>1. OrdinalInMonth(d) = OrdinalInMonth(e)
      BY <1>3
    <3>2. DayOfMonth(d) - 1 = d - Month[d] /\ DayOfMonth(e) - 1 = e - Month[d]
      BY <1>1 DEF DayOfMonth
    <3>3. (d - Month[d]) \div 7 + 1 = (e - Month[d]) \div 7 + 1
      BY <3>1, <3>2 DEF OrdinalInMonth
    <3>4. (d - Month[d]) \div 7 \in Int /\ (e - Month[d]) \div 7 \in Int
      BY <1>1
    <3> QED
      BY <3>3, <3>4
  <2>2. (d + MondayShift) % 7 = (e + MondayShift) % 7 /\ MondayShift \in Nat
    BY CalendarOK DEF Weekday
  <2>3. ~(d < e)
    BY <1>1, <2>1, <2>2
  <2>4. ~(e < d)
    BY <1>1, <2>1, <2>2
  <2> QED
    BY <1>1, <2>3, <2>4
<1> QED
  BY <1>2, <1>3

(* Two days a dated row asks for that have one period key are one day.      *)
LEMMA OneDayPerKey ==
  ASSUME NEW s \in Row, Dated(s), NEW d \in Days, NEW e \in Days,
         DueDay(s, RebootDate(s), d), DueDay(s, RebootDate(s), e),
         PeriodKey(s, d) = PeriodKey(s, e)
  PROVE  d = e
<1> DEFINE date == RebootDate(s)
<1>1. s.recurrence \in Recurrences /\ d \in Int /\ e \in Int
  BY CalendarOK DEF Row, Days
<1>2. CASE s.recurrence = "once"
  BY <1>2 DEF DueDay, PeriodKey, RebootDate
<1>3. CASE s.recurrence = "daily"
  BY <1>3 DEF PeriodKey
<1>4. CASE s.recurrence = "weekly"
  <2>1. date # None
    BY <1>4 DEF Dated
  <2>2. Weekday(d) = Weekday(date) /\ Weekday(e) = Weekday(date)
    BY <1>4, <2>1 DEF DueDay
  <2>3. Week(d) = Week(e)
    BY <1>4 DEF PeriodKey
  <2>4. d + MondayShift = e + MondayShift
    <3>1. d + MondayShift \in Int /\ e + MondayShift \in Int
      BY <1>1, CalendarOK
    <3> QED
      BY <2>2, <2>3, <3>1, BySeven DEF Weekday, Week
  <2> QED
    BY <1>1, <2>4, CalendarOK
<1>5. CASE s.recurrence = "monthly"
  <2>1. date # None
    BY <1>5 DEF Dated
  <2>2. DayOfMonth(d) = DayOfMonth(e)
    BY <1>5, <2>1 DEF DueDay
  <2>3. Month[d] = Month[e] /\ Month[d] \in Int
    BY <1>5, CalendarOK DEF PeriodKey, Days
  <2> QED
    BY <1>1, <2>2, <2>3 DEF DayOfMonth
<1>6. CASE s.recurrence = "monthly_weekday"
  <2>1. /\ s.ordinal # None /\ s.ordinal \in Ordinals
        /\ Weekday(d) = s.weekday /\ Weekday(e) = s.weekday
        /\ IF s.ordinal = -1 THEN LastInMonth(d)
                             ELSE OrdinalInMonth(d) = s.ordinal
        /\ IF s.ordinal = -1 THEN LastInMonth(e)
                             ELSE OrdinalInMonth(e) = s.ordinal
    BY <1>6 DEF DueDay, Row
  <2>2. Month[d] = Month[e]
    BY <1>6 DEF PeriodKey
  <2> QED
    BY <2>1, <2>2, OneNthOfMonth
<1> QED
  BY <1>1, <1>2, <1>3, <1>4, <1>5, <1>6 DEF Recurrences

-----------------------------------------------------------------------------
(* What a request body or the seed stores is a row.                         *)
LEMMA AppliedRow ==
  ASSUME NEW id \in Nat, NEW p \in Payload, Accepted(p)
  PROVE  Applied(id, p) \in Row
<1>1. NormalizedRecurrence(p.recurrence) \in Recurrences
  BY DEF NormalizedRecurrence, Payload, Recurrences
<1>2. Label(p.policy) \in Labels
  BY DEF Label, Payload, Policies, Labels
<1> QED
  BY <1>1, <1>2 DEF Applied, Payload, Row

(* So is a row that the first start of the API seeds.                      *)
LEMMA SeededRow ==
  ASSUME NEW r \in {"weekly", "daily"}, NEW l \in Labels
  PROVE  Seeded(r, l) \in Row
  BY DEF Seeded, Row, Recurrences, Dates

(* Writing the changed columns of a row yields a row of the same columns.   *)
LEMMA WrittenRow ==
  ASSUME NEW row \in Row, NEW seen \in Row, NEW new \in Row
  PROVE  Written(row, seen, new) \in Row
  BY DEF Written, Row

(* Pausing changes no window: rows with the same windows ask for the same   *)
(* days under the same keys.                                                *)
LEMMA SameWindows ==
  ASSUME NEW s \in Row, NEW t \in Row, Windows(s) = Windows(t)
  PROVE  /\ s.id = t.id
         /\ \A d \in Days :
              /\ PeriodKey(s, d) = PeriodKey(t, d)
              /\ DueDay(s, RebootDate(s), d) <=> DueDay(t, RebootDate(t), d)
<1>1. /\ s.id = t.id /\ s.recurrence = t.recurrence
      /\ s.weekday = t.weekday /\ s.ordinal = t.ordinal
      /\ s.installDate = t.installDate /\ s.rebootDate = t.rebootDate
      /\ s.rebootTime = t.rebootTime
  BY DEF Windows, Row
<1> QED
  BY <1>1 DEF PeriodKey, DueDay, RebootDate

-----------------------------------------------------------------------------
(* The commands queued since the last rewriting of the row.                 *)
Current == {c \in commands : c.revision = revision}
CommandsBelong ==
  /\ \A c \in commands : c.revision <= revision
  /\ schedule # Gone =>
       \A c \in Current : /\ c.id = schedule.id
                          /\ c.key = PeriodKey(schedule, c.day)
                          /\ DueDay(schedule, RebootDate(schedule), c.day)
DaysApart == \A c, d \in commands :
               c.revision = d.revision /\ c.day = d.day => c = d

IInv == TypeOK /\ CommandsBelong /\ DaysApart

(* The initial state satisfies the inductive invariant.                     *)
LEMMA InitInv == Init => IInv
<1> SUFFICES ASSUME Init PROVE IInv
  OBVIOUS
<1>1. schedule \in Row
  BY SeededRow, AppliedRow, ConstantsOK DEF Init, Labels
<1>2. FirstDay \in Days /\ 0 \in 0..LastTick /\ 0 \in 0..MaxEdits
  BY CalendarOK, ConstantsOK DEF Days
<1>3. TypeOK
  BY <1>1, <1>2 DEF Init, TypeOK
<1>4. CommandsBelong /\ DaysApart
  BY DEF Init, CommandsBelong, Current, DaysApart
<1> QED
  BY <1>3, <1>4 DEF IInv

(* A row is not Gone.                                                       *)
LEMMA RowIsThere == \A s \in Row : s # Gone /\ s.id # Gone.id
  BY DEF Row, Gone

(* A step that leaves the commands alone, and rewrites no window without    *)
(* counting it, keeps the commands where they belong.                       *)
LEMMA QuietStep ==
  ASSUME IInv, TypeOK', commands' = commands,
         \/ revision' = revision /\ schedule' = schedule
         \/ revision' = revision /\ schedule' = Gone
         \/ /\ revision' = revision /\ schedule # Gone /\ schedule' # Gone
            /\ Windows(schedule') = Windows(schedule)
         \/ revision' = revision + 1
  PROVE  IInv'
<1> USE DEF IInv
<1>1. DaysApart'
  BY DEF DaysApart
<1>2. /\ \A c \in commands : c.revision \in Nat /\ c.day \in Days
      /\ revision \in Nat
  BY DEF TypeOK, Command
<1>3. CASE revision' = revision /\ schedule' = schedule
  BY <1>1, <1>3 DEF CommandsBelong, Current
<1>4. CASE revision' = revision /\ schedule' = Gone
  BY <1>1, <1>4 DEF CommandsBelong, Current
<1>5. CASE /\ revision' = revision /\ schedule # Gone /\ schedule' # Gone
           /\ Windows(schedule') = Windows(schedule)
  <2>1. schedule \in Row /\ schedule' \in Row
    BY <1>5 DEF TypeOK
  <2> QED
    BY <1>1, <1>2, <1>5, <2>1, SameWindows DEF CommandsBelong, Current
<1>6. CASE revision' = revision + 1
  <2>1. \A c \in commands : c.revision <= revision' /\ c.revision # revision'
    BY <1>2, <1>6 DEF CommandsBelong
  <2> QED
    BY <1>1, <2>1 DEF CommandsBelong, Current
<1> QED
  BY <1>3, <1>4, <1>5, <1>6

(* A pass queues a command for a day and a revision that has none.          *)
LEMMA PassStep ==
  ASSUME IInv, RebootPass
  PROVE  IInv'
<1> USE DEF IInv
<1> DEFINE key == PeriodKey(schedule, now.day)
           new == [id |-> schedule.id, key |-> key, day |-> now.day,
                   revision |-> revision]
<1>1. /\ commands' = commands \cup {new} /\ ~Queued(schedule.id, key)
      /\ UNCHANGED <<schedule, console, edits, revision, now>>
  BY DEF RebootPass
<1>2. /\ schedule \in Row /\ now.day \in Days /\ revision \in Nat
      /\ schedule # Gone
      /\ schedule.rebootTime \in Nat
      /\ DueDay(schedule, RebootDate(schedule), now.day)
  BY DEF RebootPass, RebootWanted, RebootDue, OpenAt, TypeOK, Row
<1>3. new \in Command
  <2>1. Month[now.day] \in Int /\ Week(now.day) \in Int /\ now.day \in Int
    BY <1>2, CalendarOK DEF Days, Week
  <2>2. key.at \in Int /\ key = [unit |-> key.unit, at |-> key.at,
                                 time |-> key.time]
        /\ key.unit \in {"day", "week", "month"} /\ key.time \in Nat
    BY <1>2, <2>1, ConstantsOK DEF PeriodKey, Row, Dates, Days
  <2> QED
    BY <1>2, <2>2 DEF Command, Row
<1>4. TypeOK'
  BY <1>1, <1>3 DEF TypeOK
<1>5. CommandsBelong'
  BY <1>1, <1>2 DEF CommandsBelong, Current
<1>6. \A c \in commands : ~(c.revision = revision /\ c.day = now.day)
  BY <1>1, <1>2 DEF CommandsBelong, Current, Queued
<1>7. DaysApart'
  BY <1>1, <1>6 DEF DaysApart
<1> QED
  BY <1>4, <1>5, <1>7

(* A commit writes a row, counts a rewriting of its windows and keeps a     *)
(* deleted row deleted.                                                     *)
LEMMA CommitStep ==
  ASSUME IInv, NEW o \in Operators, EditCommit(o)
  PROVE  IInv'
<1> USE DEF IInv
<1> DEFINE c == console[o]
<1>1. c.seen \in Row /\ c.new \in Row
  BY DEF EditCommit, TypeOK
<1>2. CASE schedule.id # c.seen.id
  <2>1. schedule' = schedule /\ revision' = revision /\ commands' = commands
    BY <1>2 DEF EditCommit
  <2>2. TypeOK'
    BY <2>1 DEF EditCommit, TypeOK
  <2> QED
    BY <2>1, <2>2, QuietStep
<1>3. CASE schedule.id = c.seen.id
  <2>1. schedule \in Row
    BY <1>1, <1>3 DEF TypeOK, Gone, Row
  <2>2. schedule' = Written(schedule, c.seen, c.new) /\ schedule' \in Row
    BY <1>1, <1>3, <2>1, WrittenRow DEF EditCommit
  <2>3. TypeOK'
    BY <2>2 DEF EditCommit, TypeOK
  <2> QED
    BY <2>1, <2>2, <2>3, QuietStep, RowIsThere DEF EditCommit
<1> QED
  BY <1>2, <1>3

(* Every step keeps the inductive invariant.                                *)
LEMMA NextInv == IInv /\ [Next]_vars => IInv'
<1> SUFFICES ASSUME IInv, [Next]_vars PROVE IInv'
  OBVIOUS
<1> USE DEF IInv
<1>1. ASSUME NEW p \in Payloads, Create(p) PROVE IInv'
  <2>1. edits + 1 \in Nat /\ edits + 1 \in 0..MaxEdits
    BY <1>1, ConstantsOK DEF Create, TypeOK
  <2>2. schedule' \in Row
    BY <1>1, <2>1, AppliedRow, ConstantsOK DEF Create
  <2>3. TypeOK'
    BY <1>1, <2>1, <2>2 DEF Create, TypeOK
  <2> QED
    BY <1>1, <2>3, QuietStep DEF Create
<1>2. ASSUME NEW o \in Operators, NEW new \in Row, schedule \in Row,
             Load(o, new)
      PROVE  IInv'
  <2>1. edits + 1 \in 0..MaxEdits
    BY <1>2, ConstantsOK DEF Load, TypeOK
  <2>2. TypeOK'
    BY <1>2, <2>1 DEF Load, TypeOK
  <2> QED
    BY <1>2, <2>2, QuietStep DEF Load
<1>3. ASSUME NEW p \in Payloads, NEW o \in Operators, UpdateRead(o, p)
      PROVE  IInv'
  <2>1. schedule \in Row /\ schedule.id \in Nat
    BY <1>3 DEF UpdateRead, Load, TypeOK, Row
  <2> QED
    BY <1>2, <1>3, <2>1, AppliedRow, ConstantsOK DEF UpdateRead
<1>4. ASSUME NEW o \in Operators, ToggleRead(o) PROVE IInv'
  <2>1. PICK a \in BOOLEAN : Load(o, [schedule EXCEPT !.active = a])
    BY <1>4 DEF ToggleRead
  <2>2. schedule \in Row
    BY <2>1 DEF Load, TypeOK
  <2>3. [schedule EXCEPT !.active = a] \in Row
    BY <2>2 DEF Row
  <2> QED
    BY <1>2, <2>1, <2>2, <2>3
<1>5. CASE Delete
  <2>1. edits + 1 \in 0..MaxEdits
    BY <1>5, ConstantsOK DEF Delete, TypeOK
  <2>2. TypeOK'
    BY <1>5, <2>1 DEF Delete, TypeOK
  <2> QED
    BY <1>5, <2>2, QuietStep DEF Delete
<1>6. CASE Tick
  <2>1. now' \in [day : Days, tick : 0..LastTick]
    <3>1. /\ now \in [day : Days, tick : 0..LastTick]
          /\ now.day \in Int /\ now.tick \in Int /\ LastTick \in Nat
      BY CalendarOK, ConstantsOK DEF TypeOK, Days
    <3>2. CASE now.tick < LastTick
      <4>1. now.tick + 1 \in 0..LastTick
        BY <3>1, <3>2
      <4> QED
        BY <1>6, <3>1, <3>2, <4>1 DEF Tick
    <3>3. CASE ~(now.tick < LastTick)
      <4>1. now' = [day |-> now.day + 1, tick |-> 0] /\ now'.day <= LastDay
        BY <1>6, <3>3 DEF Tick
      <4>2. now.day + 1 <= LastDay
        BY <4>1
      <4>3. now.day + 1 \in Days /\ 0 \in 0..LastTick
        BY <3>1, <4>2, CalendarOK DEF Days
      <4> QED
        BY <4>1, <4>3
    <3> QED
      BY <3>2, <3>3
  <2>2. TypeOK'
    BY <1>6, <2>1 DEF Tick, TypeOK
  <2> QED
    BY <1>6, <2>2, QuietStep DEF Tick
<1>7. CASE UNCHANGED vars
  <2>1. TypeOK'
    BY <1>7 DEF TypeOK, vars
  <2> QED
    BY <1>7, <2>1, QuietStep DEF vars
<1> QED
  BY <1>1, <1>3, <1>4, <1>5, <1>6, <1>7, CommitStep, PassStep DEF Next

(* The inductive invariant gives every window of a dated row a command of   *)
(* its own.                                                                 *)
LEMMA InvImplies == IInv => OneCommandPerWindow
<1> SUFFICES ASSUME IInv PROVE OneCommandPerWindow
  OBVIOUS
<1> USE DEF IInv
<1>1. ASSUME RebootWanted, Dated(schedule), NEW c \in commands,
             c.id = schedule.id, c.revision = revision,
             c.key = PeriodKey(schedule, now.day)
      PROVE  c.day = now.day
  <2>1. schedule \in Row /\ now.day \in Days /\ c.day \in Days
    BY <1>1 DEF RebootWanted, TypeOK, Command
  <2>2. /\ DueDay(schedule, RebootDate(schedule), now.day)
        /\ DueDay(schedule, RebootDate(schedule), c.day)
        /\ PeriodKey(schedule, now.day) = PeriodKey(schedule, c.day)
    BY <1>1 DEF RebootWanted, RebootDue, CommandsBelong, Current
  <2> QED
    BY <1>1, <2>1, <2>2, OneDayPerKey
<1> QED
  BY <1>1 DEF OneCommandPerWindow, DaysApart

-----------------------------------------------------------------------------
(* Every variable keeps its type.                                           *)
THEOREM TypeCorrect == Spec => []TypeOK
<1>1. IInv => TypeOK
  BY DEF IInv
<1> QED
  BY <1>1, InitInv, NextInv, PTL DEF Spec

(* Every reboot window of a dated schedule gets a command of its own, for   *)
(* any calendar, whatever operators edit, pause, delete or create.          *)
THEOREM WindowsApart == Spec => []OneCommandPerWindow
  BY InitInv, NextInv, InvImplies, PTL DEF Spec

-----------------------------------------------------------------------------
(* The weekday comes back after whole weeks only.                          *)
LEMMA WholeWeeks ==
  ASSUME NEW d \in Int, NEW e \in Int, e <= d
  PROVE  Weekday(d) = Weekday(e) <=> (d - e) % 7 = 0
  BY CalendarOK DEF Weekday

(* A day is the nth of its weekday in the month for the n the code divides *)
(* out: one for each week that lies between it and the first.              *)
LEMMA NthOfMonth ==
  ASSUME NEW d \in Days
  PROVE  Cardinality({e \in Month[d]..d : Weekday(e) = Weekday(d)})
           = OrdinalInMonth(d)
<1> DEFINE S == {e \in Month[d]..d : Weekday(e) = Weekday(d)}
           n == (d - Month[d]) \div 7 + 1
           f == [k \in 1..n |-> d - 7 * (k - 1)]
<1>1. d \in Int /\ Month[d] \in Int /\ Month[d] <= d
  BY CalendarOK DEF Days
<1>2. n \in Nat /\ 7 * (n - 1) <= d - Month[d] /\ d - Month[d] < 7 * n
  BY <1>1
<1>3. \A k \in 1..n : f[k] \in S
  <2> SUFFICES ASSUME NEW k \in 1..n PROVE d - 7 * (k - 1) \in S
    OBVIOUS
  <2>1. d - 7 * (k - 1) \in Month[d]..d
    BY <1>1, <1>2
  <2>2. (d - (d - 7 * (k - 1))) % 7 = 0
    BY <1>1
  <2> QED
    BY <1>1, <2>1, <2>2, WholeWeeks
<1>4. \A e \in S : \E k \in 1..n : f[k] = e
  <2> SUFFICES ASSUME NEW e \in S PROVE \E k \in 1..n : f[k] = e
    OBVIOUS
  <2>1. e \in Int /\ Month[d] <= e /\ e <= d /\ (d - e) % 7 = 0
    BY <1>1, WholeWeeks
  <2>2. d - e = 7 * ((d - e) \div 7)
    BY <1>1, <2>1
  <2>3. (d - e) \div 7 + 1 \in 1..n
    BY <1>1, <1>2, <2>1, <2>2
  <2>4. f[(d - e) \div 7 + 1] = e
    BY <1>1, <2>1, <2>2, <2>3
  <2> QED
    BY <2>3, <2>4
<1>5. f \in Bijection(1..n, S)
  <2>1. f \in [1..n -> S]
    BY <1>3
  <2>2. \A i, k \in 1..n : f[i] = f[k] => i = k
    BY <1>1, <1>2
  <2> QED
    BY <1>4, <2>1, <2>2
       DEF Bijection, Injection, Surjection, IsInjective
<1>6. Cardinality(S) = n
  BY <1>2, <1>5, FS_CountingElements DEF ExistsBijection
<1>7. n = OrdinalInMonth(d)
  BY <1>1 DEF OrdinalInMonth, DayOfMonth
<1> QED
  BY <1>6, <1>7

(* A day is the last of its weekday in the month if none of the week that  *)
(* follows in it has the weekday.                                          *)
LEMMA LastOfMonth ==
  ASSUME NEW d \in Days
  PROVE  LastInMonth(d) <=>
           \A e \in (d + 1)..(d + 7) :
             Month[e] = Month[d] => Weekday(e) # Weekday(d)
<1>1. d \in Int
  BY CalendarOK DEF Days
<1>2. d + 7 \in (d + 1)..(d + 7) /\ Weekday(d + 7) = Weekday(d)
  BY <1>1, CalendarOK DEF Weekday
<1>3. \A e \in (d + 1)..(d + 7) : Weekday(e) = Weekday(d) => e = d + 7
  BY <1>1, CalendarOK DEF Weekday
<1> QED
  BY <1>2, <1>3 DEF LastInMonth

(* The code and the words of the row ask for the same days.                *)
LEMMA DueAsDescribed ==
  ASSUME NEW s \in Row, NEW date \in Dates, NEW d \in Days
  PROVE  DueDay(s, date, d) <=> Occurs(s, date, d)
<1> DEFINE from == IF date = None THEN d ELSE date
<1>1. /\ d \in Int /\ from \in Int /\ from \in Days
      /\ Month[d] \in Int /\ Month[from] \in Int
      /\ None \notin Int /\ s.recurrence \in Recurrences
  BY CalendarOK, ConstantsOK DEF Days, Dates, Row
<1>2. CASE s.recurrence = "once"
  BY <1>1, <1>2 DEF DueDay, Occurs
<1>6. CASE s.recurrence = "daily"
  BY <1>1, <1>6 DEF DueDay, Occurs
<1>3. CASE s.recurrence = "weekly"
  BY <1>1, <1>3, WholeWeeks DEF DueDay, Occurs
<1>4. CASE s.recurrence = "monthly"
  BY <1>1, <1>4 DEF DueDay, Occurs, DayOfMonth
<1>5. CASE s.recurrence = "monthly_weekday"
  <2>1. /\ s.weekday \in Weekdays \cup {None}
        /\ s.ordinal \in Ordinals \cup {None}
        /\ Weekday(d) \in Int /\ OrdinalInMonth(d) \in Int
    BY <1>1, CalendarOK DEF Row, Weekday, OrdinalInMonth, DayOfMonth
  <2>2. DueDay(s, date, d) <=>
          /\ s.weekday # None /\ s.ordinal # None
          /\ d >= from /\ Weekday(d) = s.weekday
          /\ IF s.ordinal = -1 THEN LastInMonth(d)
                               ELSE OrdinalInMonth(d) = s.ordinal
    BY <1>5 DEF DueDay
  <2>3. Occurs(s, date, d) <=>
          /\ d >= from /\ Weekday(d) = s.weekday
          /\ IF s.ordinal = -1
             THEN \A e \in (d + 1)..(d + 7) :
                    Month[e] = Month[d] => Weekday(e) # s.weekday
             ELSE OrdinalInMonth(d) = s.ordinal
    BY <1>5, NthOfMonth DEF Occurs
  <2>4. ASSUME Weekday(d) = s.weekday
        PROVE  LastInMonth(d) <=>
                 \A e \in (d + 1)..(d + 7) :
                   Month[e] = Month[d] => Weekday(e) # s.weekday
    BY <2>4, LastOfMonth
  <2>5. CASE s.weekday = None
    BY <1>1, <2>1, <2>2, <2>3, <2>5
  <2>6. CASE s.weekday # None /\ s.ordinal = None
    BY <1>1, <2>1, <2>2, <2>3, <2>6
  <2>7. CASE s.weekday # None /\ s.ordinal = -1
    <3>1. s.ordinal # None
      BY <1>1, <2>7
    <3>2. CASE Weekday(d) = s.weekday
      BY <2>2, <2>3, <2>4, <2>7, <3>1, <3>2
    <3>3. CASE Weekday(d) # s.weekday
      BY <2>2, <2>3, <3>3
    <3> QED
      BY <3>2, <3>3
  <2>8. CASE s.weekday # None /\ s.ordinal \notin {None, -1}
    BY <2>2, <2>3, <2>8
  <2> QED
    BY <2>5, <2>6, <2>7, <2>8
<1> QED
  BY <1>1, <1>2, <1>3, <1>4, <1>5, <1>6 DEF Recurrences

(* For every calendar, and whatever edits have been mixed in the row, a    *)
(* window is open on the days and in the hours its row describes.          *)
THEOREM OpensHolds == Spec => []OpensAsDescribed
<1>1. TypeOK => OpensAsDescribed
  <2> SUFFICES ASSUME TypeOK, schedule # Gone
               PROVE  /\ InstallDue(schedule) <=>
                           /\ Occurs(schedule, schedule.installDate, now.day)
                           /\ Inside(schedule.installTime, now.tick)
                      /\ RebootDue(schedule) <=>
                           /\ Occurs(schedule, RebootDate(schedule), now.day)
                           /\ Inside(schedule.rebootTime, now.tick)
    BY DEF OpensAsDescribed
  <2>1. /\ schedule \in Row /\ now.day \in Days /\ now.tick \in Nat
        /\ schedule.installTime \in Nat
        /\ schedule.rebootTime \in Nat \cup {None}
        /\ schedule.installDate \in Dates /\ schedule.rebootDate \in Dates
        /\ MaxAge \in Nat /\ None \notin Int
    BY ConstantsOK DEF TypeOK, Row
  <2>2. RebootDate(schedule) \in Dates
    BY <2>1 DEF RebootDate
  <2>3. \A time \in Nat \cup {None} :
          OpenAt(time, now.tick) <=> Inside(time, now.tick)
    BY <2>1 DEF OpenAt, Inside
  <2> QED
    BY <2>1, <2>2, <2>3, DueAsDescribed DEF InstallDue, RebootDue
<1> QED
  BY TypeCorrect, <1>1, PTL

(* An edit that is committed over a pause it has not seen leaves the pause *)
(* standing: only a request that saw the row paused resumes it.            *)
THEOREM ResumeHolds == Spec => ResumeIsAsked
<1>1. TypeOK /\ [Next]_vars =>
        [(/\ schedule # Gone /\ schedule' # Gone /\ schedule'.id = schedule.id
          /\ ~schedule.active /\ schedule'.active)
            => \E o \in Operators : /\ console[o] # Idle /\ console'[o] = Idle
                                    /\ ~console[o].seen.active]_schedule
  <2> SUFFICES ASSUME TypeOK, Next, schedule' # schedule,
                      schedule # Gone, schedule' # Gone,
                      ~schedule.active, schedule'.active
               PROVE  \E o \in Operators :
                        /\ console[o] # Idle /\ console'[o] = Idle
                        /\ ~console[o].seen.active
    BY DEF vars
  <2>1. PICK o \in Operators : EditCommit(o)
    BY DEF Next, Create, UpdateRead, Load, ToggleRead, Delete, RebootPass,
           Tick
  <2>2. /\ schedule \in Row /\ console[o] # Idle /\ console'[o] = Idle
        /\ console[o].seen \in Row /\ console[o].new \in Row
        /\ schedule' = Written(schedule, console[o].seen, console[o].new)
    BY <2>1 DEF EditCommit, TypeOK
  <2>3. schedule'.active =
          IF console[o].new.active # console[o].seen.active
          THEN console[o].new.active ELSE schedule.active
    BY <2>2 DEF Written, Row
  <2>4. ~console[o].seen.active
    BY <2>2, <2>3 DEF Row
  <2> QED
    BY <2>2, <2>4
<1> QED
  BY TypeCorrect, <1>1, PTL DEF Spec, ResumeIsAsked
=============================================================================
