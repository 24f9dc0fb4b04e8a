--------------------------- MODULE ScheduleWindow ---------------------------
(***************************************************************************)
(* One schedule row: the operators that create, edit, pause and delete it, *)
(* the days and hours at which its install and reboot windows open, and    *)
(* the reboot commands the scheduler derives from its period keys.         *)
(*                                                                         *)
(* A day is a number; the month of a day is named by the month's first     *)
(* day, and weeks start on Mondays.  Texts that are no time of day are     *)
(* numbers past the last tick of the day: their windows never open.        *)
(***************************************************************************)
EXTENDS Integers, FiniteSets

CONSTANTS
  Operators,    \* threads serving operator requests
  Payloads,     \* bodies of POST and PUT requests
  None,         \* absent date, time, weekday, ordinal or scope
  FirstDay, LastDay,   \* bound: days the clock passes
  Month,        \* Month[d] is the first day of the month of day d
  MondayShift,  \* day d is a Monday when (d + MondayShift) % 7 = 0
  LastTick,     \* last tick of a day
  MaxAge,       \* WINDOW_MAX_AGE_SECONDS, in ticks
  MaxEdits,     \* bound: requests of operators
  MaxCommands   \* bound: reboot commands queued

Days == FirstDay..LastDay
Dates == Days \cup {None}
Weekdays == 0..6
Ordinals == {1, 2, 3, 4, -1}
Recurrences == {"once", "daily", "weekly", "monthly", "monthly_weekday"}
Policies == {"if-needed", "always", "never"}
Labels == {"Reiniciar se necessario", "Sempre reiniciar", "Nao reiniciar"}

Payload == [scope : {None, "group"}, recurrence : Recurrences \cup {"other"},
            weekday : Weekdays \cup {None}, ordinal : Ordinals \cup {None},
            installDate : Dates, installTime : Nat,
            rebootDate : Dates, rebootTime : Nat \cup {None},
            policy : Policies \cup Labels, active : BOOLEAN]
Row == [id : Nat, recurrence : Recurrences,
        weekday : Weekdays \cup {None}, ordinal : Ordinals \cup {None},
        installDate : Dates, installTime : Nat,
        rebootDate : Dates, rebootTime : Nat \cup {None},
        policy : Labels, active : BOOLEAN]

ASSUME CalendarOK ==
  /\ FirstDay \in Int /\ LastDay \in Int /\ FirstDay <= LastDay
  /\ MondayShift \in Nat
  /\ Month \in [FirstDay..(LastDay + 7) -> Int]
  /\ \A d, e \in DOMAIN Month : d <= e => Month[d] <= Month[e]
  /\ \A d \in DOMAIN Month : Month[d] <= d
ASSUME ConstantsOK ==
  /\ None \notin Int \cup {"group"}
  /\ Payloads \subseteq Payload
  /\ LastTick \in Nat /\ MaxAge \in Nat
  /\ MaxEdits \in Nat /\ MaxCommands \in Nat

VARIABLES
  schedule,   \* the row, or Gone
  console,    \* per operator thread, the request it handles
  edits,      \* requests so far; the id of a row is the number of its POST
  revision,   \* history: writes of the row's windows so far
  now,        \* day and tick
  commands    \* scheduled reboots queued, with the day and the revision

vars == <<schedule, console, edits, revision, now, commands>>

Gone == [id |-> -1]
Idle == [pc |-> "idle"]

-----------------------------------------------------------------------------
(* Windows.                                                                *)

Weekday(d) == (d + MondayShift) % 7
Week(d) == (d + MondayShift) \div 7
DayOfMonth(d) == d - Month[d] + 1
OrdinalFromZero(d) == DayOfMonth(d) \div 7 + 1    \* mutant: off by one
OrdinalInMonth(d) == (DayOfMonth(d) - 1) \div 7 + 1
LastInMonth(d) == Month[d + 7] # Month[d]

(* The recurrence asks for day d; without a date the anchor is d itself.   *)
DueDay(s, date, d) ==
  LET anchor == IF date = None THEN d ELSE date
  IN CASE s.recurrence = "once" -> d = anchor
       [] s.recurrence = "daily" -> d >= anchor
       [] s.recurrence = "weekly" ->
            d >= anchor /\ Weekday(d) = Weekday(anchor)
       [] s.recurrence = "monthly" ->
            d >= anchor /\ DayOfMonth(d) = DayOfMonth(anchor)
       [] s.recurrence = "monthly_weekday" ->
            /\ s.weekday # None /\ s.ordinal # None
            /\ d >= anchor /\ Weekday(d) = s.weekday
            /\ IF s.ordinal = -1 THEN LastInMonth(d)
                                 ELSE OrdinalInMonth(d) = s.ordinal

(* Open from its time of day on, for MaxAge at most, never past midnight.  *)
OpenAt(time, tick) == time # None /\ time <= tick /\ tick - time <= MaxAge

RebootDate(s) == IF s.rebootDate # None THEN s.rebootDate ELSE s.installDate
InstallDue(s) == /\ OpenAt(s.installTime, now.tick)
                 /\ DueDay(s, s.installDate, now.day)
RebootDue(s) == /\ OpenAt(s.rebootTime, now.tick)
                /\ DueDay(s, RebootDate(s), now.day)

(* The key of the reboot window, from which the command's id is derived.   *)
PeriodKeyPerMonth(s, d) ==                \* mutant: months for weeks
  IF s.recurrence \in {"weekly", "monthly", "monthly_weekday"}
    THEN [unit |-> "month", at |-> Month[d], time |-> s.rebootTime]
    ELSE [unit |-> "day", at |-> d, time |-> s.rebootTime]
PeriodKey(s, d) ==
  CASE s.recurrence = "once" ->
         [unit |-> "day", time |-> s.rebootTime,
          at |-> IF s.rebootDate # None THEN s.rebootDate ELSE d]
    [] s.recurrence \in {"monthly", "monthly_weekday"} ->
         [unit |-> "month", at |-> Month[d], time |-> s.rebootTime]
    [] s.recurrence = "weekly" ->
         [unit |-> "week", at |-> Week(d), time |-> s.rebootTime]
    [] OTHER -> [unit |-> "day", at |-> d, time |-> s.rebootTime]

-----------------------------------------------------------------------------
(* Operators.  A PUT and a pause load the row and write the columns that   *)
(* differ from what they loaded; a row deleted meanwhile makes them fail.  *)

Label(p) == CASE p = "if-needed" -> "Reiniciar se necessario"
              [] p = "always" -> "Sempre reiniciar"
              [] p = "never" -> "Nao reiniciar"
              [] OTHER -> p
NormalizedPolicy(l) == CASE l = "Nao reiniciar" -> "never"
                         [] l = "Sempre reiniciar" -> "always"
                         [] OTHER -> "if-needed"

Accepted(p) ==
  /\ p.scope # None
  /\ p.recurrence = "monthly_weekday" => p.weekday # None /\ p.ordinal # None

NormalizedRaw(r) == r                     \* mutant: any text is stored
NormalizedRecurrence(r) == IF r = "other" THEN "weekly" ELSE r

Applied(id, p) ==
  LET r == NormalizedRecurrence(p.recurrence)
      nth == r = "monthly_weekday"
  IN [id |-> id, recurrence |-> r,
      weekday |-> IF nth THEN p.weekday ELSE None,
      ordinal |-> IF nth THEN p.ordinal ELSE None,
      installDate |-> p.installDate, installTime |-> p.installTime,
      rebootDate |-> p.rebootDate,
      rebootTime |-> IF p.policy # "never" THEN p.rebootTime ELSE None,
      policy |-> Label(p.policy), active |-> p.active]

(* The seeded schedules: paused, and without dates.                        *)
Seeded(recurrence, policy) ==
  [id |-> 0, recurrence |-> recurrence, weekday |-> None, ordinal |-> None,
   installDate |-> None, installTime |-> 0, rebootDate |-> None,
   rebootTime |-> 1, policy |-> policy, active |-> FALSE]

Init ==
  /\ schedule \in {Seeded("weekly", "Reiniciar se necessario"),
                   Seeded("daily", "Sempre reiniciar")}
                  \cup {Applied(0, p) : p \in {q \in Payloads : Accepted(q)}}
  /\ console = [o \in Operators |-> Idle]
  /\ edits = 0
  /\ revision = 0
  /\ now = [day |-> FirstDay, tick |-> 0]
  /\ commands = {}

Create(p) ==
  /\ schedule = Gone
  /\ edits < MaxEdits
  /\ Accepted(p)
  /\ schedule' = Applied(edits + 1, p)
  /\ edits' = edits + 1
  /\ revision' = revision + 1
  /\ UNCHANGED <<console, now, commands>>

Load(o, new) ==
  /\ schedule # Gone
  /\ console[o] = Idle
  /\ edits < MaxEdits
  /\ console' = [console EXCEPT ![o] = [pc |-> "commit", seen |-> schedule,
                                        new |-> new]]
  /\ edits' = edits + 1
  /\ UNCHANGED <<schedule, revision, now, commands>>

UpdateRead(o, p) == /\ Accepted(p)
                    /\ Load(o, Applied(schedule.id, p))
ToggleRead(o) == \E a \in BOOLEAN : Load(o, [schedule EXCEPT !.active = a])

WrittenWhole(row, seen, new) == new       \* mutant: every column is written
Written(row, seen, new) ==
  [c \in DOMAIN row |-> IF new[c] # seen[c] THEN new[c] ELSE row[c]]

Windows(row) == [row EXCEPT !.active = FALSE]
EditCommit(o) ==
  /\ console[o] # Idle
  /\ LET c == console[o]
     IN  schedule' = IF schedule.id # c.seen.id THEN schedule
                     ELSE Written(schedule, c.seen, c.new)
  /\ revision' = IF Windows(schedule') # Windows(schedule) THEN revision + 1
                                                           ELSE revision
  /\ console' = [console EXCEPT ![o] = Idle]
  /\ UNCHANGED <<edits, now, commands>>

Delete ==
  /\ schedule # Gone
  /\ edits < MaxEdits
  /\ schedule' = Gone
  /\ edits' = edits + 1
  /\ UNCHANGED <<console, revision, now, commands>>

-----------------------------------------------------------------------------
(* The scheduler's reboot pass, for one host that is to reboot.            *)

Queued(id, key) == \E c \in commands : c.id = id /\ c.key = key
RebootWanted == /\ schedule # Gone
                /\ schedule.active
                /\ NormalizedPolicy(schedule.policy) # "never"
                /\ RebootDue(schedule)

RebootPass ==
  /\ Cardinality(commands) < MaxCommands
  /\ RebootWanted
  /\ LET key == PeriodKey(schedule, now.day)
     IN  /\ ~Queued(schedule.id, key)
         /\ commands' = commands \cup
              {[id |-> schedule.id, key |-> key, day |-> now.day,
                revision |-> revision]}
  /\ UNCHANGED <<schedule, console, edits, revision, now>>

Tick ==
  /\ now' = IF now.tick < LastTick THEN [now EXCEPT !.tick = @ + 1]
                                   ELSE [day |-> now.day + 1, tick |-> 0]
  /\ now'.day <= LastDay
  /\ UNCHANGED <<schedule, console, edits, revision, commands>>

-----------------------------------------------------------------------------
Next ==
  \/ \E p \in Payloads : Create(p) \/ \E o \in Operators : UpdateRead(o, p)
  \/ \E o \in Operators : ToggleRead(o) \/ EditCommit(o)
  \/ Delete
  \/ RebootPass
  \/ Tick

Spec == Init /\ [][Next]_vars

-----------------------------------------------------------------------------
Command == [id : Nat, day : Days, revision : Nat,
            key : [unit : {"day", "week", "month"}, at : Int, time : Nat]]

(* Every variable stays in its type.                                       *)
TypeOK ==
  /\ schedule \in Row \cup {Gone}
  /\ console \in [Operators -> {Idle} \cup
                    [pc : {"commit"}, seen : Row, new : Row]]
  /\ edits \in 0..MaxEdits
  /\ revision \in Nat
  /\ now \in [day : Days, tick : 0..LastTick]
  /\ \A c \in commands : c \in Command

(* What an operator reads in the row: the nth weekday of a month is the one *)
(* with n - 1 like it before it in the month, the last has none behind it,  *)
(* weeks count seven days from the date, months the same day.               *)
Occurs(s, date, d) ==
  LET from == IF date = None THEN d ELSE date
  IN /\ d >= from
     /\ s.recurrence = "once" => d = from
     /\ s.recurrence = "weekly" => (d - from) % 7 = 0
     /\ s.recurrence = "monthly" => d - Month[d] = from - Month[from]
     /\ s.recurrence = "monthly_weekday" =>
          /\ Weekday(d) = s.weekday
          /\ IF s.ordinal = -1
               THEN \A e \in (d + 1)..(d + 7) :
                      Month[e] = Month[d] => Weekday(e) # s.weekday
               ELSE Cardinality({e \in Month[d]..d : Weekday(e) = Weekday(d)})
                      = s.ordinal
Inside(time, tick) == time # None /\ tick \in time..(time + MaxAge)

(* A window is open exactly on the days its row describes, from its time of *)
(* day for MaxAge or until midnight.                                        *)
OpensAsDescribed ==
  schedule # Gone =>
    /\ InstallDue(schedule) <=>
         /\ Occurs(schedule, schedule.installDate, now.day)
         /\ Inside(schedule.installTime, now.tick)
    /\ RebootDue(schedule) <=>
         /\ Occurs(schedule, RebootDate(schedule), now.day)
         /\ Inside(schedule.rebootTime, now.tick)

(* Every reboot window gets a command of its own: while a dated schedule is *)
(* not rewritten, a day's window is never refused for the key of another    *)
(* day, and no day gets two commands.                                       *)
Dated(s) == \/ RebootDate(s) # None
            \/ s.recurrence \in {"once", "daily", "monthly_weekday"}
OneCommandPerWindow ==
  /\ \A c, d \in commands :
       c.revision = d.revision /\ c.day = d.day => c = d
  /\ RebootWanted /\ Dated(schedule) =>
       \A c \in commands :
         (/\ c.id = schedule.id /\ c.revision = revision
          /\ c.key = PeriodKey(schedule, now.day)) => c.day = now.day

(* A paused schedule is resumed only by a request that saw it paused, never *)
(* by an edit that was loaded before the pause.                             *)
ResumeIsAsked ==
  [][(/\ schedule # Gone /\ schedule' # Gone /\ schedule'.id = schedule.id
      /\ ~schedule.active /\ schedule'.active)
        => \E o \in Operators : /\ console[o] # Idle /\ console'[o] = Idle
                                /\ ~console[o].seen.active]_schedule
=============================================================================
