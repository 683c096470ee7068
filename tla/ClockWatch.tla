----------------------------- MODULE ClockWatch -----------------------------
(***************************************************************************)
(* A clock watched as time passes: what assess would report of it at every *)
(* instant, for every anchor, specification and set of holidays within the *)
(* bounds.                                                                 *)
(***************************************************************************)
EXTENDS BusinessClock

CONSTANTS
    Anchors,        \* the instants at which the clock's start state is entered
    Durations,      \* bound: durations in days
    Percents,       \* bound: warn ratios, in percent
    HolidaySets,    \* bound: sets of holidays, as days
    Horizon         \* bound: the last instant watched

ASSUME WatchAssumption ==
    /\ Anchors \subseteq Nat /\ NotStarted \notin Anchors
    /\ Durations \subseteq Nat /\ Percents \subseteq 0..100
    /\ \A holidays \in HolidaySets : IsFiniteSet(holidays)
    /\ Horizon \in Nat

VARIABLES spec, anchor, holidays, as_of

vars == <<spec, anchor, holidays, as_of>>

Init ==
    /\ spec \in [ name : {"clock"}, kind : ClockKinds, duration_days : Durations,
                  start_state : {"start"}, warn_percent : Percents ]
    /\ anchor \in Anchors
    /\ holidays \in HolidaySets
    /\ as_of = 0

TimePasses ==
    /\ as_of < Horizon
    /\ as_of' = as_of + 1
    /\ UNCHANGED <<spec, anchor, holidays>>

Next == TimePasses

Spec == Init /\ [][Next]_vars

Status == DeadlineFor(spec, anchor, as_of, holidays)

-----------------------------------------------------------------------------

(* The reference definition of a deadline, with no walk: for business days *)
(* the due day is the earliest day, not before the anchor, such that as    *)
(* many business days as the clock lasts lie after the anchor's day and up *)
(* to it; for calendar days it is that many days later.  The time of day   *)
(* is the anchor's (add_business_days, add_calendar_days).                 *)
BusinessDaysAfter(first, last) ==
    Cardinality({d \in (first + 1)..last : IsBusinessDay(d, holidays)})

IsDueDay(day) ==
    IF spec.kind = "calendar" THEN day = Day(anchor) + spec.duration_days
    ELSE /\ day >= Day(anchor)
         /\ BusinessDaysAfter(Day(anchor), day) = spec.duration_days
         /\ \A d \in Day(anchor)..(day - 1) :
              BusinessDaysAfter(Day(anchor), d) < spec.duration_days

DueAsDefined ==
    /\ IsDueDay(Day(Status.due_at))
    /\ TimeOfDay(Status.due_at) = TimeOfDay(anchor)

(* The count of days and the comparison of instants never contradict each  *)
(* other, nor the walk that set the deadline: from its anchor a clock has  *)
(* exactly its duration left, nothing is left of a breached clock, nothing *)
(* is overdue of one that is not (business_days_between inverts the walk;  *)
(* deadline_for takes count and breach from different computations).       *)
CountMatchesBreach ==
    /\ as_of = anchor => Status.remaining_days = spec.duration_days
    /\ IF Status.breached THEN Status.remaining_days <= 0 ELSE Status.remaining_days >= 0

(* Time only makes a status worse: a breach stays, and a warning ends in   *)
(* nothing but a breach (deadline_for).                                    *)
StatusOnlyWorsens ==
    [][/\ Status.breached => Status'.breached
       /\ Status.approaching => Status'.approaching \/ Status'.breached]_vars

(* No clock breaches unannounced: the instant before its breach it warns,  *)
(* whatever its warn ratio, and it does not warn and breach at once.       *)
BreachIsAnnounced ==
    /\ [][Status'.breached => Status.breached \/ Status.approaching]_vars
    /\ [](~(Status.breached /\ Status.approaching))
=============================================================================
