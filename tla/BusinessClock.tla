---------------------------- MODULE BusinessClock ----------------------------
(***************************************************************************)
(* SLA and regulatory clocks: business-day and calendar deadlines          *)
(* (domain/cases/clock.py).  Pure: the instant and the holidays are        *)
(* arguments.                                                              *)
(*                                                                         *)
(* An instant is a number of ticks since midnight of day 0, a Monday; a    *)
(* day has TicksPerDay ticks.  Everything is in one time zone: the service *)
(* stamps in UTC and takes the date of a stamp as it is.                   *)
(***************************************************************************)
EXTENDS Integers, FiniteSets

CONSTANTS
    TicksPerDay,    \* how finely a day is divided
    NotStarted,     \* the due instant of a clock whose start state is ahead
    RoundedUp       \* warn percents and durations whose product rounds up

ASSUME TicksAssumption ==
    /\ TicksPerDay \in Nat \ {0}
    /\ RoundedUp \subseteq (0..100) \X Nat

ClockKinds == {"calendar", "business"}

Day(t)       == t \div TicksPerDay
TimeOfDay(t) == t % TicksPerDay
At(day, tod) == day * TicksPerDay + tod

IsBusinessDay(day, holidays) == day % 7 < 5 /\ day \notin holidays

(* Mutant: the day itself is looked at before the walk leaves it. *)
AddBusinessDays_FromToday(start, n, holidays) ==
    LET walk[at \in Nat \X Nat] ==
          IF at[1] = 0 THEN at[2]
          ELSE walk[<<IF IsBusinessDay(at[2], holidays) THEN at[1] - 1 ELSE at[1], at[2] + 1>>]
    IN  At(walk[<<n, Day(start)>>], TimeOfDay(start))

(* The loop walks day by day, from the day after `start', and counts the   *)
(* business days it meets, until none is left of <<left, day>>; the time   *)
(* of day is kept.                                                         *)
AddBusinessDays(start, n, holidays) ==
    LET walk[at \in Nat \X Nat] ==
          IF at[1] = 0 THEN at[2]
          ELSE walk[<<IF IsBusinessDay(at[2] + 1, holidays) THEN at[1] - 1 ELSE at[1], at[2] + 1>>]
    IN  At(walk[<<n, Day(start)>>], TimeOfDay(start))

(* Mutant: the days overdue are counted as days left. *)
BusinessDaysBetween_Unsigned(start, end, holidays) ==
    LET lo == Day(IF end > start THEN start ELSE end)
        hi == Day(IF end > start THEN end ELSE start)
    IN  Cardinality({d \in (lo + 1)..hi : IsBusinessDay(d, holidays)})

(* The signed number of business days in the half-open interval of days    *)
(* (earlier, later]; the loop counts from the earlier day upwards.         *)
BusinessDaysBetween(start, end, holidays) ==
    LET sign == IF end > start THEN 1 ELSE -1
        lo   == Day(IF end > start THEN start ELSE end)
        hi   == Day(IF end > start THEN end ELSE start)
        count[d \in Int] ==
          IF d <= lo THEN 0
          ELSE count[d - 1] + IF IsBusinessDay(d, holidays) THEN 1 ELSE 0
    IN  IF end = start THEN 0 ELSE sign * count[hi]

AddCalendarDays(start, n) == start + n * TicksPerDay
CalendarDaysBetween(start, end) == Day(end) - Day(start)

(***************************************************************************)
(* A clock: its name, its kind, its duration in days, the state that       *)
(* starts it and the share of its window, in percent, that elapses before  *)
(* it warns.                                                               *)
(***************************************************************************)
ClockSpec(Names, States) ==
    [ name : Names, kind : ClockKinds, duration_days : Nat, start_state : States,
      warn_percent : 0..100 ]

(* math.ceil((1.0 - warn_ratio) * duration_days).  In floating point the   *)
(* product may come out above a whole number of days, and the ceiling then *)
(* adds a day: (1.0 - 0.7) * 10 is 3.0000000000000004.                     *)
WarnThreshold(spec) ==
    LET share == (100 - spec.warn_percent) * spec.duration_days
    IN  IF <<spec.warn_percent, spec.duration_days>> \in RoundedUp
          THEN share \div 100 + 1 ELSE (share + 99) \div 100

DueAt(spec, anchor, holidays) ==
    IF spec.kind = "business" THEN AddBusinessDays(anchor, spec.duration_days, holidays)
                              ELSE AddCalendarDays(anchor, spec.duration_days)

Remaining(spec, as_of, due, holidays) ==
    IF spec.kind = "business" THEN BusinessDaysBetween(as_of, due, holidays)
                              ELSE CalendarDaysBetween(as_of, due)

(* Mutant: a clock warns strictly inside its window. *)
DeadlineFor_StrictWarning(spec, anchor, as_of, holidays) ==
    LET due       == DueAt(spec, anchor, holidays)
        remaining == Remaining(spec, as_of, due, holidays)
        breached  == as_of > due
    IN  [ due_at |-> due, remaining_days |-> remaining, breached |-> breached,
          approaching |-> ~breached /\ remaining < WarnThreshold(spec) ]

(* Mutant: a clock that is breached goes on warning. *)
DeadlineFor_WarnsOn(spec, anchor, as_of, holidays) ==
    LET due       == DueAt(spec, anchor, holidays)
        remaining == Remaining(spec, as_of, due, holidays)
    IN  [ due_at |-> due, remaining_days |-> remaining, breached |-> as_of > due,
          approaching |-> remaining = WarnThreshold(spec) ]

(* One clock's status at an instant; `anchor' is when its start state was  *)
(* first entered, or NotStarted.                                           *)
DeadlineFor(spec, anchor, as_of, holidays) ==
    IF anchor = NotStarted
      THEN [ due_at |-> NotStarted, remaining_days |-> spec.duration_days,
             breached |-> FALSE, approaching |-> FALSE ]
      ELSE LET due       == DueAt(spec, anchor, holidays)
               remaining == Remaining(spec, as_of, due, holidays)
               breached  == as_of > due
           IN  [ due_at |-> due, remaining_days |-> remaining, breached |-> breached,
                 approaching |-> ~breached /\ remaining <= WarnThreshold(spec) ]
=============================================================================
