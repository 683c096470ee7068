--------------------------- MODULE ClockWatchProofs ---------------------------
(***************************************************************************)
(* A clock's status is what its definition says and only worsens, for      *)
(* every duration, warn ratio and anchor, every finite set of holidays and *)
(* every division of the day.                                              *)
(***************************************************************************)
EXTENDS ClockWatch, BusinessClockProofs

(* What does not change while the clock is watched.                        *)
Watched ==
    /\ IsClock(spec)
    /\ anchor \in Nat /\ anchor # NotStarted
    /\ IsFiniteSet(holidays)
    /\ as_of \in Nat

(* A clock that is watched is one the service could be configured with.    *)
THEOREM AlwaysWatched == Spec => []Watched
<1>1. Init => Watched
  <2> SUFFICES ASSUME Init PROVE Watched
    OBVIOUS
  <2>1. IsClock(spec)
    BY WatchAssumption DEF Init, IsClock
  <2> QED
    BY <2>1, WatchAssumption DEF Init, Watched
<1>2. Watched /\ [Next]_vars => Watched'
  BY DEF Watched, Next, TimePasses, vars, IsClock
<1> QED
  BY <1>1, <1>2, PTL DEF Spec

LEMMA DeadlineFields ==
    ASSUME NEW sp, NEW a, a # NotStarted, NEW t, NEW h
    PROVE  /\ DeadlineFor(sp, a, t, h).due_at = DueAt(sp, a, h)
           /\ DeadlineFor(sp, a, t, h).remaining_days = Remaining(sp, t, DueAt(sp, a, h), h)
           /\ DeadlineFor(sp, a, t, h).breached <=> t > DueAt(sp, a, h)
           /\ DeadlineFor(sp, a, t, h).approaching <=>
                /\ ~(t > DueAt(sp, a, h))
                /\ Remaining(sp, t, DueAt(sp, a, h), h) <= WarnThreshold(sp)
BY DEF DeadlineFor

-----------------------------------------------------------------------------
(* The walk reaches the due day of the reference definition and keeps the  *)
(* time of day (add_business_days, add_calendar_days).                     *)
THEOREM DueIsDefined == Spec => []DueAsDefined
<1>1. Watched => DueAsDefined
  <2> SUFFICES ASSUME Watched PROVE DueAsDefined
    OBVIOUS
  <2> DEFINE n    == spec.duration_days
             from == Day(anchor)
             due  == Status.due_at
  <2>1. /\ IsClock(spec) /\ anchor \in Nat /\ anchor # NotStarted /\ IsFiniteSet(holidays)
    BY DEF Watched
  <2>2. due = DueAt(spec, anchor, holidays)
    BY <2>1, DeadlineFields DEF Status
  <2>3. /\ TimeOfDay(due) = TimeOfDay(anchor) /\ from \in Nat
        /\ Day(due) = IF spec.kind = "business" THEN DueDay(n, from, holidays) ELSE from + n
    BY <2>1, <2>2, DueInstant
  <2>4. n \in Nat /\ spec.kind \in {"calendar", "business"}
    BY <2>1 DEF IsClock, ClockKinds
  <2>5. CASE spec.kind = "calendar"
    BY <2>3, <2>5 DEF DueAsDefined, IsDueDay
  <2>6. CASE spec.kind = "business"
    <3> DEFINE day == Day(due)
    <3> HIDE DEF due, from, n
    <3>1. day = DueDay(n, from, holidays)
      BY <2>3, <2>6
    <3>2. day \in ReachedAt(n, from, holidays) /\ \A e \in ReachedAt(n, from, holidays) : day <= e
      BY <2>1, <2>3, <2>4, <3>1, DueDayIsFirst
    <3>3. day \in Nat /\ day >= from /\ CountIn(from, day, holidays) = n
      BY <3>2 DEF ReachedAt
    <3>4. ASSUME NEW d \in from..(day - 1) PROVE CountIn(from, d, holidays) < n
      <4>1. d \in Nat /\ from <= d /\ d < day
        BY <2>3, <3>3
      <4>2. CountIn(from, d, holidays) # n
        BY <3>2, <4>1 DEF ReachedAt
      <4>3. CountIn(from, d, holidays) <= CountIn(from, day, holidays)
        BY <2>3, <3>3, <4>1, CountGrows
      <4>4. CountIn(from, d, holidays) \in Nat
        BY <2>3, <4>1, CountType
      <4> QED
        BY <2>4, <3>3, <4>2, <4>3, <4>4
    <3>5. \A d : BusinessDaysAfter(from, d) = CountIn(from, d, holidays)
      BY DEF BusinessDaysAfter, CountIn, BusinessIn
    <3> HIDE DEF day
    <3>6. /\ day >= from /\ BusinessDaysAfter(from, day) = n
          /\ \A d \in from..(day - 1) : BusinessDaysAfter(from, d) < n
      BY <3>3, <3>4, <3>5
    <3> QED
      BY <2>3, <2>6, <3>6 DEF DueAsDefined, IsDueDay, day, due, from, n
  <2> QED
    BY <2>4, <2>5, <2>6
<1> QED
  BY <1>1, AlwaysWatched, PTL

(* The days left of a clock and its breach, which come from different      *)
(* computations, agree; and the count inverts the walk (deadline_for,      *)
(* business_days_between).                                                 *)
THEOREM CountAgrees == Spec => []CountMatchesBreach
<1>1. Watched => CountMatchesBreach
  <2> SUFFICES ASSUME Watched PROVE CountMatchesBreach
    OBVIOUS
  <2> DEFINE due  == DueAt(spec, anchor, holidays)
             left == Remaining(spec, as_of, due, holidays)
  <2>1. /\ IsClock(spec) /\ anchor \in Nat /\ anchor # NotStarted /\ IsFiniteSet(holidays)
        /\ as_of \in Nat
    BY DEF Watched
  <2>2. Status.remaining_days = left /\ (Status.breached <=> as_of > due)
    BY <2>1, DeadlineFields DEF Status
  <2>3. due \in Nat
    BY <2>1, DueInstant
  <2>4. as_of = anchor => left = spec.duration_days
    BY <2>1, RemainingFromAnchor
  <2> HIDE DEF due
  <2>5. (as_of <= due => left >= 0) /\ (as_of >= due => left <= 0)
    BY <2>1, <2>3, RemainingSigns
  <2> HIDE DEF left
  <2>6. IF as_of > due THEN left <= 0 ELSE left >= 0
    BY <2>1, <2>3, <2>5
  <2> QED
    BY <2>2, <2>4, <2>6 DEF CountMatchesBreach
<1> QED
  BY <1>1, AlwaysWatched, PTL

-----------------------------------------------------------------------------
(* A breach is never taken back, and a warning ends only in a breach       *)
(* (deadline_for).                                                         *)
THEOREM OnlyWorsens == Spec => StatusOnlyWorsens
<1> DEFINE Worsens == /\ Status.breached => Status'.breached
                      /\ Status.approaching => Status'.approaching \/ Status'.breached
<1>1. Watched /\ [Next]_vars => [Worsens]_vars
  <2> SUFFICES ASSUME Watched, TimePasses PROVE Worsens
    BY DEF Next
  <2> DEFINE due == DueAt(spec, anchor, holidays)
  <2>1. /\ IsClock(spec) /\ anchor \in Nat /\ anchor # NotStarted /\ IsFiniteSet(holidays)
        /\ as_of \in Nat
    BY DEF Watched
  <2>2. as_of' = as_of + 1 /\ spec' = spec /\ anchor' = anchor /\ holidays' = holidays
    BY DEF TimePasses
  <2>3. due \in Nat
    BY <2>1, DueInstant
  <2>4. /\ Status.breached <=> as_of > due
        /\ Status.approaching <=> /\ ~(as_of > due)
                                  /\ Remaining(spec, as_of, due, holidays) <= WarnThreshold(spec)
    BY <2>1, DeadlineFields DEF Status
  <2>5. /\ Status'.breached <=> as_of' > due
        /\ Status'.approaching <=> /\ ~(as_of' > due)
                                   /\ Remaining(spec, as_of', due, holidays) <= WarnThreshold(spec)
    <3>1. Status' = DeadlineFor(spec, anchor, as_of', holidays)
      BY <2>2 DEF Status
    <3> QED
      BY <2>1, <3>1, DeadlineFields
  <2> HIDE DEF due
  <2>6. as_of > due => as_of' > due
    BY <2>1, <2>2, <2>3
  <2>7. ASSUME ~(as_of' > due), Remaining(spec, as_of, due, holidays) <= WarnThreshold(spec)
        PROVE  Remaining(spec, as_of', due, holidays) <= WarnThreshold(spec)
    <3>1. as_of \in Int /\ as_of' \in Int /\ as_of <= as_of' /\ as_of' <= due /\ due \in Int
      BY <2>1, <2>2, <2>3, <2>7
    <3>2. Remaining(spec, as_of', due, holidays) <= Remaining(spec, as_of, due, holidays)
      BY <2>1, <3>1, RemainingShrinks
    <3>3. /\ Remaining(spec, as_of', due, holidays) \in Int
          /\ Remaining(spec, as_of, due, holidays) \in Int
      BY <2>1, <3>1, RemainingSigns
    <3>4. WarnThreshold(spec) \in Int
      BY <2>1, WarnThresholdType
    <3> QED
      BY <2>7, <3>2, <3>3, <3>4
  <2> QED
    BY <2>4, <2>5, <2>6, <2>7
<1> QED
  BY <1>1, AlwaysWatched, PTL DEF Spec, StatusOnlyWorsens

(* The instant before its breach a clock warns, whatever its warn ratio:   *)
(* nothing is left of it at the instant it is due (deadline_for).          *)
THEOREM BreachesAreAnnounced == Spec => BreachIsAnnounced
<1> DEFINE Announced == Status'.breached => Status.breached \/ Status.approaching
           Either    == ~(Status.breached /\ Status.approaching)
<1>1. Watched /\ [Next]_vars => [Announced]_vars
  <2> SUFFICES ASSUME Watched, TimePasses PROVE Announced
    BY DEF Next
  <2> DEFINE due == DueAt(spec, anchor, holidays)
  <2>1. /\ IsClock(spec) /\ anchor \in Nat /\ anchor # NotStarted /\ IsFiniteSet(holidays)
        /\ as_of \in Nat
    BY DEF Watched
  <2>2. as_of' = as_of + 1 /\ spec' = spec /\ anchor' = anchor /\ holidays' = holidays
    BY DEF TimePasses
  <2>3. due \in Nat
    BY <2>1, DueInstant
  <2>4. /\ Status.breached <=> as_of > due
        /\ Status.approaching <=> /\ ~(as_of > due)
                                  /\ Remaining(spec, as_of, due, holidays) <= WarnThreshold(spec)
    BY <2>1, DeadlineFields DEF Status
  <2>5. Status'.breached <=> as_of' > due
    <3>1. Status' = DeadlineFor(spec, anchor, as_of', holidays)
      BY <2>2 DEF Status
    <3> QED
      BY <2>1, <3>1, DeadlineFields
  <2> HIDE DEF due
  <2>6. ASSUME as_of' > due, ~(as_of > due)
        PROVE  Remaining(spec, as_of, due, holidays) <= WarnThreshold(spec)
    <3>1. as_of \in Int /\ due \in Int /\ as_of >= due
      BY <2>1, <2>2, <2>3, <2>6
    <3>2. Remaining(spec, as_of, due, holidays) \in Int /\ Remaining(spec, as_of, due, holidays) <= 0
      BY <2>1, <3>1, RemainingSigns
    <3>3. WarnThreshold(spec) \in Nat
      BY <2>1, WarnThresholdType
    <3> QED
      BY <3>2, <3>3
  <2> QED
    BY <2>4, <2>5, <2>6
<1>2. Watched => Either
  BY DeadlineFields DEF Watched, Status
<1> QED
  BY <1>1, <1>2, AlwaysWatched, PTL DEF Spec, BreachIsAnnounced
=============================================================================
