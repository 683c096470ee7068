------------------------- MODULE BusinessClockProofs -------------------------
(***************************************************************************)
(* What the walks of the clock compute, for every input.                   *)
(*                                                                         *)
(* The prover has no induction of its own.  That a set of naturals has a   *)
(* least element, which it takes from the well-foundedness of <, serves    *)
(* in its place; a recursive function is what its equation says once some  *)
(* function is shown to satisfy the equation, and a second time once every *)
(* such function is shown to be that one.                                  *)
(***************************************************************************)
EXTENDS BusinessClock, FiniteSetTheorems, WellFoundedInduction, TLAPS

-----------------------------------------------------------------------------
(* Induction. *)

LEMMA LeastOfNaturals ==
    ASSUME NEW T, T \subseteq Nat, T # {}
    PROVE  \E x \in T : \A y \in T : x <= y
<1> DEFINE R == OpToRel(<, Nat)
<1>1. IsWellFoundedOn(R, Nat)
  BY NatLessThanWellFounded
<1>2. \A x, y \in Nat : y < x => << y, x >> \in R
  BY DEF OpToRel
<1> HIDE DEF R
<1>3. PICK x \in T : \A y \in T : ~(<< y, x >> \in R)
  BY <1>1, WFMin
<1>4. ASSUME NEW y \in T PROVE x <= y
  <2>1. ~(y < x)
    BY <1>2, <1>3
  <2> QED
    BY <2>1
<1> QED
  BY <1>4

LEMMA Induction ==
    ASSUME NEW S, 0 \in S, \A n \in Nat : n \in S => n + 1 \in S
    PROVE  Nat \subseteq S
<1> SUFFICES ASSUME Nat \ S # {} PROVE FALSE
  OBVIOUS
<1>1. PICK x \in Nat \ S : \A y \in Nat \ S : x <= y
  BY LeastOfNaturals
<1>2. x # 0 /\ x - 1 \in Nat /\ x - 1 \notin Nat \ S
  BY <1>1
<1>3. (x - 1) + 1 \in S
  BY <1>2
<1> QED
  BY <1>1, <1>3

-----------------------------------------------------------------------------
(* Days and times of day: an instant is both, and their order is its own.  *)

LEMMA DayType ==
    ASSUME NEW t \in Int
    PROVE  /\ Day(t) \in Int
           /\ TimeOfDay(t) \in 0..(TicksPerDay - 1)
<1> DEFINE T == TicksPerDay
<1>1. T \in Nat /\ T > 0
  BY TicksAssumption
<1> HIDE DEF T
<1>2. t \div T \in Int /\ t % T \in 0..(T - 1)
  BY <1>1
<1> QED
  BY <1>2 DEF Day, TimeOfDay, T

LEMMA DayAndTime ==
    ASSUME NEW t \in Int
    PROVE  t = At(Day(t), TimeOfDay(t))
<1> DEFINE T == TicksPerDay
<1>1. T \in Nat /\ T > 0
  BY TicksAssumption
<1> HIDE DEF T
<1>2. t = (t \div T) * T + (t % T)
  BY <1>1
<1> QED
  BY <1>2 DEF Day, TimeOfDay, T, At

LEMMA DayOfAt ==
    ASSUME NEW d \in Int, NEW tod \in 0..(TicksPerDay - 1)
    PROVE  Day(At(d, tod)) = d /\ TimeOfDay(At(d, tod)) = tod /\ At(d, tod) \in Int
<1> DEFINE T == TicksPerDay
<1>1. T \in Nat /\ T > 0
  BY TicksAssumption
<1> HIDE DEF T
<1>2. ASSUME NEW x \in 0..(T - 1) PROVE (d * T + x) \div T = d
  BY <1>1, <1>2
<1>3. ASSUME NEW x \in 0..(T - 1) PROVE (d * T + x) % T = x
  BY <1>1, <1>3
<1>4. ASSUME NEW x \in 0..(T - 1) PROVE (d * T + x) \in Int
  BY <1>1, <1>4
<1> QED
  BY <1>2, <1>3, <1>4 DEF Day, TimeOfDay, T, At

LEMMA DayMonotone ==
    ASSUME NEW s \in Int, NEW t \in Int, s <= t
    PROVE  Day(s) <= Day(t)
<1> DEFINE T == TicksPerDay
<1>1. T \in Nat /\ T > 0
  BY TicksAssumption
<1> HIDE DEF T
<1>2. s \div T <= t \div T
  BY <1>1
<1> QED
  BY <1>2 DEF Day, T

-----------------------------------------------------------------------------
(* Counting business days. *)

(* The business days after lo, up to hi. *)
BusinessIn(lo, hi, holidays) == {d \in (lo + 1)..hi : IsBusinessDay(d, holidays)}
CountIn(lo, hi, holidays)    == Cardinality(BusinessIn(lo, hi, holidays))

LEMMA CountType ==
    ASSUME NEW lo \in Int, NEW hi \in Int, NEW h
    PROVE  IsFiniteSet(BusinessIn(lo, hi, h)) /\ CountIn(lo, hi, h) \in Nat
<1>1. BusinessIn(lo, hi, h) \subseteq (lo + 1)..hi /\ IsFiniteSet((lo + 1)..hi)
  BY FS_Interval DEF BusinessIn
<1> QED
  BY <1>1, FS_Subset, FS_CardinalityType DEF CountIn

LEMMA CountNone ==
    ASSUME NEW lo \in Int, NEW hi \in Int, NEW h, hi <= lo
    PROVE  CountIn(lo, hi, h) = 0
<1>1. BusinessIn(lo, hi, h) = {}
  BY DEF BusinessIn
<1> QED
  BY <1>1, FS_EmptySet DEF CountIn

OneIf(p) == IF p THEN 1 ELSE 0

LEMMA CountFirst ==
    ASSUME NEW lo \in Int, NEW hi \in Int, NEW h, lo < hi
    PROVE  CountIn(lo, hi, h) = CountIn(lo + 1, hi, h) + OneIf(IsBusinessDay(lo + 1, h))
<1>1. CASE IsBusinessDay(lo + 1, h)
  <2>1. BusinessIn(lo, hi, h) = BusinessIn(lo + 1, hi, h) \cup {lo + 1}
    BY <1>1 DEF BusinessIn
  <2>2. lo + 1 \notin BusinessIn(lo + 1, hi, h)
    BY DEF BusinessIn
  <2>3. IsFiniteSet(BusinessIn(lo + 1, hi, h))
    BY CountType
  <2>4. Cardinality(BusinessIn(lo + 1, hi, h) \cup {lo + 1}) = Cardinality(BusinessIn(lo + 1, hi, h)) + 1
    BY <2>2, <2>3, FS_AddElement
  <2> QED
    BY <1>1, <2>1, <2>4 DEF CountIn, OneIf
<1>2. CASE ~IsBusinessDay(lo + 1, h)
  <2>1. BusinessIn(lo, hi, h) = BusinessIn(lo + 1, hi, h)
    BY <1>2 DEF BusinessIn
  <2> QED
    BY <1>2, <2>1, CountType DEF CountIn, OneIf
<1> QED
  BY <1>1, <1>2

LEMMA CountLast ==
    ASSUME NEW lo \in Int, NEW hi \in Int, NEW h, lo < hi
    PROVE  CountIn(lo, hi, h) = CountIn(lo, hi - 1, h) + OneIf(IsBusinessDay(hi, h))
<1>1. CASE IsBusinessDay(hi, h)
  <2>1. BusinessIn(lo, hi, h) = BusinessIn(lo, hi - 1, h) \cup {hi}
    BY <1>1 DEF BusinessIn
  <2>2. hi \notin BusinessIn(lo, hi - 1, h)
    BY DEF BusinessIn
  <2>3. IsFiniteSet(BusinessIn(lo, hi - 1, h))
    BY CountType
  <2>4. Cardinality(BusinessIn(lo, hi - 1, h) \cup {hi}) = Cardinality(BusinessIn(lo, hi - 1, h)) + 1
    BY <2>2, <2>3, FS_AddElement
  <2> QED
    BY <1>1, <2>1, <2>4 DEF CountIn, OneIf
<1>2. CASE ~IsBusinessDay(hi, h)
  <2>1. BusinessIn(lo, hi, h) = BusinessIn(lo, hi - 1, h)
    BY <1>2 DEF BusinessIn
  <2> QED
    BY <1>2, <2>1, CountType DEF CountIn, OneIf
<1> QED
  BY <1>1, <1>2

(* A wider interval has no fewer.                                          *)
LEMMA CountGrows ==
    ASSUME NEW lo \in Int, NEW hi \in Int, NEW l \in Int, NEW m \in Int, NEW h,
           lo <= l, m <= hi
    PROVE  CountIn(l, m, h) <= CountIn(lo, hi, h)
<1>1. BusinessIn(l, m, h) \subseteq BusinessIn(lo, hi, h)
  BY DEF BusinessIn
<1> QED
  BY <1>1, CountType, FS_Subset DEF CountIn

-----------------------------------------------------------------------------
(* The walk. *)

(* Holidays do not last: after every day there is a business day.          *)
LEMMA BusinessDaysGoOn ==
    ASSUME NEW h, IsFiniteSet(h), NEW day \in Nat
    PROVE  \E d \in Nat : d > day /\ IsBusinessDay(d, h)
<1> SUFFICES ASSUME \A d \in Nat : d > day => ~IsBusinessDay(d, h) PROVE FALSE
  OBVIOUS
<1> DEFINE n == Cardinality(h) + 1
           monday == [i \in 1..n |-> 7 * (day + i)]
<1>1. n \in Nat /\ Cardinality(h) < n
  BY FS_CardinalityType
<1>2. ASSUME NEW i \in 1..n PROVE 7 * (day + i) \in h
  <2>1. 7 * (day + i) \in Nat /\ 7 * (day + i) > day /\ (7 * (day + i)) % 7 = 0
    BY <1>1
  <2>2. ~IsBusinessDay(7 * (day + i), h)
    BY <2>1
  <2> QED
    BY <2>1, <2>2 DEF IsBusinessDay
<1>3. monday \in [1..n -> h]
  BY <1>2
<1>4. IsFiniteSet(1..n) /\ Cardinality(1..n) = n
  BY <1>1, FS_Interval
<1> HIDE DEF n
<1>5. \A i, j \in 1..n : i # j => monday[i] # monday[j]
  BY <1>1
<1> HIDE DEF monday
<1> QED
  BY <1>1, <1>3, <1>4, <1>5, FS_PigeonHole

(* The days at which n business days have passed since `day'.              *)
ReachedAt(n, day, holidays) == {d \in Nat : d >= day /\ CountIn(day, d, holidays) = n}

LEMMA EveryCountIsReached ==
    ASSUME NEW h, IsFiniteSet(h), NEW day \in Nat
    PROVE  \A n \in Nat : ReachedAt(n, day, h) # {}
<1> DEFINE S == {n \in Nat : ReachedAt(n, day, h) # {}}
<1>1. 0 \in S
  BY CountNone DEF ReachedAt
<1>2. ASSUME NEW n \in Nat, n \in S PROVE n + 1 \in S
  <2>1. PICK e \in Nat : e >= day /\ CountIn(day, e, h) = n
    BY <1>2 DEF ReachedAt
  <2> DEFINE later == {d \in Nat : d > e /\ IsBusinessDay(d, h)}
  <2>2. later # {}
    BY BusinessDaysGoOn
  <2>3. PICK next \in later : \A d \in later : next <= d
    BY <2>2, LeastOfNaturals
  <2>4. BusinessIn(day, next, h) = BusinessIn(day, e, h) \cup {next} /\ next \notin BusinessIn(day, e, h)
    BY <2>1, <2>3 DEF BusinessIn
  <2>5. IsFiniteSet(BusinessIn(day, e, h))
    BY CountType
  <2>6. CountIn(day, next, h) = n + 1
    BY <2>1, <2>4, <2>5, FS_AddElement DEF CountIn
  <2> QED
    BY <2>1, <2>3, <2>6 DEF ReachedAt
<1> HIDE DEF S
<1>3. Nat \subseteq S
  BY <1>1, <1>2, Induction
<1> QED
  BY <1>3 DEF S

(* The first of them. *)
DueDay(n, day, holidays) ==
    CHOOSE d \in ReachedAt(n, day, holidays) : \A e \in ReachedAt(n, day, holidays) : d <= e

LEMMA DueDayIsFirst ==
    ASSUME NEW h, IsFiniteSet(h), NEW day \in Nat, NEW n \in Nat
    PROVE  /\ DueDay(n, day, h) \in ReachedAt(n, day, h)
           /\ \A e \in ReachedAt(n, day, h) : DueDay(n, day, h) <= e
<1> DEFINE T == ReachedAt(n, day, h)
<1>1. T # {} /\ T \subseteq Nat
  BY EveryCountIsReached DEF ReachedAt
<1> HIDE DEF T
<1>2. \E d \in T : \A e \in T : d <= e
  BY <1>1, LeastOfNaturals
<1> QED
  BY <1>2 DEF DueDay, T

(* One step of the loop takes nothing from where it ends.                  *)
LEMMA DueDayFromNext ==
    ASSUME NEW h, IsFiniteSet(h), NEW day \in Nat, NEW n \in Nat, n # 0
    PROVE  DueDay(n, day, h) = DueDay(IF IsBusinessDay(day + 1, h) THEN n - 1 ELSE n, day + 1, h)
<1> DEFINE m == IF IsBusinessDay(day + 1, h) THEN n - 1 ELSE n
<1>1. m \in Nat /\ n = m + OneIf(IsBusinessDay(day + 1, h))
  BY DEF OneIf
<1>2. ASSUME NEW d \in Nat
      PROVE  d \in ReachedAt(n, day, h) <=> d \in ReachedAt(m, day + 1, h)
  <2>1. CASE d <= day
    <3>1. d \notin ReachedAt(m, day + 1, h)
      BY <2>1 DEF ReachedAt
    <3>2. CountIn(day, d, h) = 0
      BY <2>1, CountNone
    <3> QED
      BY <3>1, <3>2 DEF ReachedAt
  <2>2. CASE d > day
    <3>1. CountIn(day, d, h) = CountIn(day + 1, d, h) + OneIf(IsBusinessDay(day + 1, h))
      BY <2>2, CountFirst
    <3>2. CountIn(day + 1, d, h) \in Nat /\ CountIn(day, d, h) \in Nat
      BY CountType
    <3>3. OneIf(IsBusinessDay(day + 1, h)) \in Nat
      BY DEF OneIf
    <3> HIDE DEF m
    <3>4. CountIn(day, d, h) = n <=> CountIn(day + 1, d, h) = m
      BY <1>1, <3>1, <3>2, <3>3
    <3> QED
      BY <2>2, <3>4 DEF ReachedAt
  <2> QED
    BY <2>1, <2>2
<1> HIDE DEF m
<1>3. ReachedAt(n, day, h) = ReachedAt(m, day + 1, h)
  BY <1>2 DEF ReachedAt
<1> QED
  BY <1>3 DEF DueDay, m

LEMMA DueDayOfNone ==
    ASSUME NEW h, IsFiniteSet(h), NEW day \in Nat
    PROVE  DueDay(0, day, h) = day
<1>1. day \in ReachedAt(0, day, h)
  BY CountNone DEF ReachedAt
<1>2. DueDay(0, day, h) >= day /\ DueDay(0, day, h) \in Nat
  BY DueDayIsFirst DEF ReachedAt
<1> QED
  BY <1>1, <1>2, DueDayIsFirst

(* One round of the loop, by w from there on. *)
WalkBy(w, holidays) ==
    [at \in Nat \X Nat |->
       IF at[1] = 0 THEN at[2]
       ELSE w[<<IF IsBusinessDay(at[2] + 1, holidays) THEN at[1] - 1 ELSE at[1], at[2] + 1>>]]

LEMMA WalkStep ==
    ASSUME NEW w, NEW h, NEW n \in Nat, NEW day \in Nat
    PROVE  WalkBy(w, h)[<<n, day>>] =
             IF n = 0 THEN day ELSE w[<<IF IsBusinessDay(day + 1, h) THEN n - 1 ELSE n, day + 1>>]
<1> DEFINE p == <<n, day>>
<1>1. p \in Nat \X Nat /\ p[1] = n /\ p[2] = day
  OBVIOUS
<1> HIDE DEF p
<1>2. WalkBy(w, h)[p] =
        IF p[1] = 0 THEN p[2]
        ELSE w[<<IF IsBusinessDay(p[2] + 1, h) THEN p[1] - 1 ELSE p[1], p[2] + 1>>]
  BY <1>1 DEF WalkBy
<1>3. WalkBy(w, h)[p] =
        IF n = 0 THEN day ELSE w[<<IF IsBusinessDay(day + 1, h) THEN n - 1 ELSE n, day + 1>>]
  BY <1>1, <1>2
<1> QED
  BY <1>3 DEF p

(* The walk that ends at the due day takes its own rounds. *)
LEMMA WalkIsThere ==
    ASSUME NEW h, IsFiniteSet(h)
    PROVE  \E w : w = WalkBy(w, h)
<1> DEFINE w == [at \in Nat \X Nat |-> DueDay(at[1], at[2], h)]
<1>1. ASSUME NEW n \in Nat, NEW day \in Nat
      PROVE  w[<<n, day>>] = DueDay(n, day, h)
  OBVIOUS
<1>2. ASSUME NEW at \in Nat \X Nat
      PROVE  w[at] = WalkBy(w, h)[at]
  <2>1. PICK n \in Nat, day \in Nat : at = <<n, day>>
    OBVIOUS
  <2> DEFINE m == IF IsBusinessDay(day + 1, h) THEN n - 1 ELSE n
  <2>2. CASE n = 0
    <3> HIDE DEF w, m
    <3>1. WalkBy(w, h)[<<n, day>>] = day
      <4>1. WalkBy(w, h)[<<n, day>>] =
              IF n = 0 THEN day ELSE w[<<IF IsBusinessDay(day + 1, h) THEN n - 1 ELSE n, day + 1>>]
        BY WalkStep
      <4> QED
        BY <2>2, <4>1
    <3>2. w[<<n, day>>] = DueDay(n, day, h)
      BY <1>1
    <3>3. DueDay(n, day, h) = day
      BY <2>2, DueDayOfNone
    <3> QED
      BY <2>1, <3>1, <3>2, <3>3
  <2>3. CASE n # 0
    <3>1. m \in Nat /\ day + 1 \in Nat
      BY <2>3
    <3> HIDE DEF w
    <3>2. DueDay(n, day, h) = DueDay(m, day + 1, h)
      BY <2>3, DueDayFromNext
    <3>3. WalkBy(w, h)[<<n, day>>] = w[<<m, day + 1>>]
      BY <2>3, WalkStep
    <3> HIDE DEF m
    <3>4. w[<<m, day + 1>>] = DueDay(m, day + 1, h)
      BY <1>1, <3>1
    <3> QED
      BY <1>1, <2>1, <3>2, <3>3, <3>4
  <2> QED
    BY <2>2, <2>3
<1>3. WalkBy(w, h) = [at \in Nat \X Nat |-> WalkBy(w, h)[at]]
  BY DEF WalkBy
<1>4. w = [at \in Nat \X Nat |-> w[at]]
  OBVIOUS
<1> HIDE DEF w
<1>5. w = WalkBy(w, h)
  BY <1>2, <1>3, <1>4
<1> QED
  BY <1>5

(* And every walk ends there. *)
LEMMA WalkEnds ==
    ASSUME NEW h, IsFiniteSet(h), NEW w, w = WalkBy(w, h)
    PROVE  \A n, day \in Nat : w[<<n, day>>] = DueDay(n, day, h)
<1> DEFINE S == {k \in Nat : \A n, day \in Nat :
                   DueDay(n, day, h) = day + k => w[<<n, day>>] = DueDay(n, day, h)}
<1>0. \A n, day \in Nat : /\ DueDay(n, day, h) \in Nat /\ DueDay(n, day, h) >= day
                          /\ CountIn(day, DueDay(n, day, h), h) = n
  BY DueDayIsFirst DEF ReachedAt
<1>1. 0 \in S
  <2> SUFFICES ASSUME NEW n \in Nat, NEW day \in Nat, DueDay(n, day, h) = day
               PROVE  w[<<n, day>>] = DueDay(n, day, h)
    OBVIOUS
  <2>1. n = 0
    BY <1>0, CountNone
  <2>2. WalkBy(w, h)[<<n, day>>] = day
    <3>1. WalkBy(w, h)[<<n, day>>] =
            IF n = 0 THEN day ELSE w[<<IF IsBusinessDay(day + 1, h) THEN n - 1 ELSE n, day + 1>>]
      BY WalkStep
    <3> QED
      BY <2>1, <3>1
  <2> QED
    BY <2>2
<1>2. ASSUME NEW k \in Nat, k \in S PROVE k + 1 \in S
  <2> SUFFICES ASSUME NEW n \in Nat, NEW day \in Nat, DueDay(n, day, h) = day + (k + 1)
               PROVE  w[<<n, day>>] = DueDay(n, day, h)
    BY <1>2
  <2> DEFINE m == IF IsBusinessDay(day + 1, h) THEN n - 1 ELSE n
  <2>1. n # 0
    BY DueDayOfNone
  <2>2. m \in Nat /\ day + 1 \in Nat
    BY <2>1
  <2>3. DueDay(n, day, h) = DueDay(m, day + 1, h)
    BY <2>1, DueDayFromNext
  <2>4. w[<<n, day>>] = w[<<m, day + 1>>]
    <3>1. WalkBy(w, h)[<<n, day>>] = w[<<m, day + 1>>]
      BY <2>1, WalkStep
    <3> QED
      BY <3>1
  <2> HIDE DEF m
  <2>5. w[<<m, day + 1>>] = DueDay(m, day + 1, h)
    BY <1>2, <2>2, <2>3
  <2> QED
    BY <2>3, <2>4, <2>5
<1> HIDE DEF S
<1>3. Nat \subseteq S
  BY <1>1, <1>2, Induction
<1>4. ASSUME NEW n \in Nat, NEW day \in Nat
      PROVE  w[<<n, day>>] = DueDay(n, day, h)
  <2> DEFINE due == DueDay(n, day, h)
  <2>1. due \in Nat /\ due >= day
    BY <1>0
  <2> HIDE DEF due
  <2>2. due - day \in Nat /\ due = day + (due - day)
    BY <2>1
  <2>3. due - day \in S
    BY <1>3, <2>2
  <2>4. DueDay(n, day, h) = day + (due - day) => w[<<n, day>>] = DueDay(n, day, h)
    BY <2>3 DEF S
  <2> QED
    BY <2>2, <2>4 DEF due
<1> QED
  BY <1>4

(* add_business_days returns the first day up to which n business days     *)
(* have passed since the start, at the time of day of the start.           *)
THEOREM AddBusinessDaysReaches ==
    ASSUME NEW h, IsFiniteSet(h), NEW start, Day(start) \in Nat, NEW n \in Nat
    PROVE  AddBusinessDays(start, n, h) = At(DueDay(n, Day(start), h), TimeOfDay(start))
<1> DEFINE w == CHOOSE f : f = WalkBy(f, h)
<1>1. AddBusinessDays(start, n, h) = At(w[<<n, Day(start)>>], TimeOfDay(start))
  BY DEF AddBusinessDays, WalkBy
<1>2. w = WalkBy(w, h)
  BY WalkIsThere
<1> HIDE DEF w
<1>3. w[<<n, Day(start)>>] = DueDay(n, Day(start), h)
  BY <1>2, WalkEnds
<1> QED
  BY <1>1, <1>3

-----------------------------------------------------------------------------
(* The count. *)

CountBy(c, lo, holidays) ==
    [d \in Int |-> IF d <= lo THEN 0
                   ELSE c[d - 1] + IF IsBusinessDay(d, holidays) THEN 1 ELSE 0]

LEMMA CountStep ==
    ASSUME NEW c, NEW h, NEW lo \in Int, NEW d \in Int
    PROVE  CountBy(c, lo, h)[d] = IF d <= lo THEN 0 ELSE c[d - 1] + OneIf(IsBusinessDay(d, h))
BY DEF CountBy, OneIf

(* The number of business days up to each day counts itself. *)
LEMMA CountIsThere ==
    ASSUME NEW h, NEW lo \in Int
    PROVE  \E c : c = CountBy(c, lo, h)
<1> DEFINE c == [d \in Int |-> CountIn(lo, d, h)]
<1>1. ASSUME NEW d \in Int PROVE c[d] = CountBy(c, lo, h)[d]
  <2>1. c[d] = CountIn(lo, d, h)
    OBVIOUS
  <2>2. c[d - 1] = CountIn(lo, d - 1, h)
    OBVIOUS
  <2> HIDE DEF c
  <2>3. CountBy(c, lo, h)[d] = IF d <= lo THEN 0 ELSE c[d - 1] + OneIf(IsBusinessDay(d, h))
    BY CountStep
  <2>4. CASE d <= lo
    BY <2>1, <2>3, <2>4, CountNone
  <2>5. CASE lo < d
    <3>1. CountIn(lo, d, h) = CountIn(lo, d - 1, h) + OneIf(IsBusinessDay(d, h))
      BY <2>5, CountLast
    <3> QED
      BY <2>1, <2>2, <2>3, <2>5, <3>1
  <2> QED
    BY <2>4, <2>5
<1>2. CountBy(c, lo, h) = [d \in Int |-> CountBy(c, lo, h)[d]]
  BY DEF CountBy
<1>3. c = [d \in Int |-> c[d]]
  OBVIOUS
<1> HIDE DEF c
<1>4. c = CountBy(c, lo, h)
  BY <1>1, <1>2, <1>3
<1> QED
  BY <1>4

(* And every count is it. *)
LEMMA CountCounts ==
    ASSUME NEW h, NEW lo \in Int, NEW c, c = CountBy(c, lo, h)
    PROVE  \A hi \in Int : c[hi] = CountIn(lo, hi, h)
<1> DEFINE S == {k \in Nat : c[lo + k] = CountIn(lo, lo + k, h)}
<1>1. ASSUME NEW d \in Int
      PROVE  c[d] = IF d <= lo THEN 0 ELSE c[d - 1] + OneIf(IsBusinessDay(d, h))
  <2>1. CountBy(c, lo, h)[d] = IF d <= lo THEN 0 ELSE c[d - 1] + OneIf(IsBusinessDay(d, h))
    BY CountStep
  <2> QED
    BY <2>1
<1>2. ASSUME NEW d \in Int, d <= lo PROVE c[d] = CountIn(lo, d, h)
  BY <1>1, <1>2, CountNone
<1>3. 0 \in S
  <2>1. c[lo + 0] = CountIn(lo, lo + 0, h)
    BY <1>2
  <2> QED
    BY <2>1
<1>4. ASSUME NEW k \in Nat, k \in S PROVE k + 1 \in S
  <2> DEFINE d == lo + (k + 1)
  <2>1. d \in Int /\ lo < d /\ d - 1 = lo + k
    OBVIOUS
  <2>2. c[lo + k] = CountIn(lo, lo + k, h)
    BY <1>4
  <2> HIDE DEF d, S
  <2>3. c[d] = c[d - 1] + OneIf(IsBusinessDay(d, h))
    BY <1>1, <2>1
  <2>4. CountIn(lo, d, h) = CountIn(lo, d - 1, h) + OneIf(IsBusinessDay(d, h))
    BY <2>1, CountLast
  <2>5. c[d] = CountIn(lo, d, h)
    BY <2>1, <2>2, <2>3, <2>4
  <2> QED
    BY <2>5 DEF d, S
<1> HIDE DEF S
<1>5. Nat \subseteq S
  BY <1>3, <1>4, Induction
<1>6. ASSUME NEW hi \in Int, lo < hi PROVE c[hi] = CountIn(lo, hi, h)
  <2>1. hi - lo \in Nat /\ lo + (hi - lo) = hi
    BY <1>6
  <2>2. hi - lo \in S
    BY <1>5, <2>1
  <2>3. c[lo + (hi - lo)] = CountIn(lo, lo + (hi - lo), h)
    BY <2>2 DEF S
  <2> QED
    BY <2>1, <2>3
<1> QED
  BY <1>2, <1>6

(* business_days_between returns the signed number of business days after  *)
(* the earlier day, up to the later.                                       *)
THEOREM BusinessDaysBetweenCounts ==
    ASSUME NEW h, NEW start \in Int, NEW end \in Int
    PROVE  BusinessDaysBetween(start, end, h) =
             IF end > start THEN CountIn(Day(start), Day(end), h)
                            ELSE 0 - CountIn(Day(end), Day(start), h)
<1> DEFINE lo == Day(IF end > start THEN start ELSE end)
           hi == Day(IF end > start THEN end ELSE start)
           sign == IF end > start THEN 1 ELSE -1
           c == CHOOSE f : f = CountBy(f, lo, h)
<1>1. BusinessDaysBetween(start, end, h) = IF end = start THEN 0 ELSE sign * c[hi]
  BY DEF BusinessDaysBetween, CountBy
<1>2. lo \in Int /\ hi \in Int
  BY DayType
<1>3. c = CountBy(c, lo, h)
  <2> HIDE DEF lo
  <2> QED
    BY <1>2, CountIsThere
<1> HIDE DEF c
<1>4. c[hi] = CountIn(lo, hi, h)
  <2> HIDE DEF lo, hi
  <2> QED
    BY <1>2, <1>3, CountCounts
<1>5. CountIn(lo, hi, h) \in Nat
  <2> HIDE DEF lo, hi
  <2> QED
    BY <1>2, CountType
<1>6. CASE end > start
  <2>1. lo = Day(start) /\ hi = Day(end) /\ sign = 1 /\ end # start
    BY <1>6
  <2> HIDE DEF lo, hi, sign
  <2> QED
    BY <1>1, <1>4, <1>5, <1>6, <2>1
<1>7. CASE end < start
  <2>1. lo = Day(end) /\ hi = Day(start) /\ sign = -1 /\ end # start
    BY <1>7
  <2> HIDE DEF lo, hi, sign
  <2> DEFINE k == CountIn(Day(end), Day(start), h)
  <2>2. k \in Nat /\ BusinessDaysBetween(start, end, h) = (-1) * k
    BY <1>1, <1>4, <1>5, <2>1
  <2> HIDE DEF k
  <2>3. BusinessDaysBetween(start, end, h) = 0 - k
    BY <2>2
  <2> QED
    BY <1>7, <2>3 DEF k
<1>8. CASE end = start
  <2>1. CountIn(Day(end), Day(start), h) = 0
    BY <1>8, CountNone, DayType
  <2>2. BusinessDaysBetween(start, end, h) = 0
    BY <1>1, <1>8
  <2>3. 0 - CountIn(Day(end), Day(start), h) = 0
    BY <2>1
  <2> QED
    BY <1>8, <2>2, <2>3
<1> QED
  BY <1>6, <1>7, <1>8

-----------------------------------------------------------------------------
(* What a deadline is. *)

IsClock(spec) ==
    /\ spec.kind \in ClockKinds
    /\ spec.duration_days \in Nat
    /\ spec.warn_percent \in 0..100

LEMMA AtGrows ==
    ASSUME NEW d \in Int, NEW e \in Int, d <= e, NEW tod \in Int
    PROVE  At(d, tod) <= At(e, tod)
<1> DEFINE T == TicksPerDay
<1>1. T \in Nat
  BY TicksAssumption
<1> HIDE DEF T
<1>2. (e - d) \in Nat /\ (e - d) * T \in Nat
  BY <1>1
<1>3. e * T = d * T + (e - d) * T
  BY <1>1
<1>4. d * T \in Int /\ e * T \in Int
  BY <1>1
<1>5. d * T <= e * T
  BY <1>2, <1>3, <1>4
<1>6. d * T + tod <= e * T + tod
  BY <1>4, <1>5
<1> QED
  BY <1>6 DEF At, T

(* The instant a clock is due: not before its anchor, at the anchor's time *)
(* of day, on the due day of its kind.                                     *)
LEMMA DueInstant ==
    ASSUME NEW spec, IsClock(spec), NEW anchor \in Nat, NEW h, IsFiniteSet(h)
    PROVE  /\ DueAt(spec, anchor, h) \in Nat
           /\ DueAt(spec, anchor, h) >= anchor
           /\ TimeOfDay(DueAt(spec, anchor, h)) = TimeOfDay(anchor)
           /\ Day(anchor) \in Nat
           /\ Day(DueAt(spec, anchor, h)) =
                IF spec.kind = "business" THEN DueDay(spec.duration_days, Day(anchor), h)
                ELSE Day(anchor) + spec.duration_days
<1> DEFINE n    == spec.duration_days
           tod  == TimeOfDay(anchor)
           from == Day(anchor)
           due  == DueAt(spec, anchor, h)
           day  == IF spec.kind = "business" THEN DueDay(n, from, h) ELSE from + n
<1>1. n \in Nat /\ spec.kind \in ClockKinds
  BY DEF IsClock
<1>2. from \in Nat
  <2>1. Day(0) <= Day(anchor)
    BY DayMonotone
  <2>2. Day(0) = 0
    <3>1. At(0, 0) = 0 /\ 0 \in 0..(TicksPerDay - 1)
      BY TicksAssumption DEF At
    <3> QED
      BY <3>1, DayOfAt
  <2> QED
    BY <2>1, <2>2, DayType
<1>3. tod \in 0..(TicksPerDay - 1) /\ tod \in Int
  BY DayType
<1>4. anchor = At(from, tod)
  BY DayAndTime
<1>5. day \in Nat /\ day >= from
  <2> HIDE DEF n, from
  <2>1. DueDay(n, from, h) \in Nat /\ DueDay(n, from, h) >= from
    BY <1>1, <1>2, DueDayIsFirst DEF ReachedAt
  <2> QED
    BY <1>1, <1>2, <2>1
<1>6. due = At(day, tod)
  <2>1. CASE spec.kind = "business"
    BY <1>1, <1>2, <2>1, AddBusinessDaysReaches DEF DueAt
  <2>2. CASE spec.kind # "business"
    <3> DEFINE T == TicksPerDay
    <3>1. T \in Nat
      BY TicksAssumption
    <3>2. due = anchor + n * T
      BY <2>2 DEF DueAt, AddCalendarDays
    <3>3. anchor = from * T + tod
      BY <1>4 DEF At
    <3> HIDE DEF T, n, from, tod, due
    <3>4. due = (from + n) * T + tod
      BY <1>1, <1>2, <1>3, <3>1, <3>2, <3>3
    <3> QED
      BY <2>2, <3>4 DEF At, T
  <2> QED
    BY <2>1, <2>2
<1> HIDE DEF n, tod, from, due, day
<1>7. Day(due) = day /\ TimeOfDay(due) = tod /\ due \in Int
  BY <1>3, <1>5, <1>6, DayOfAt
<1>8. anchor <= due
  BY <1>2, <1>3, <1>4, <1>5, <1>6, AtGrows
<1>9. due \in Nat
  BY <1>7, <1>8
<1> QED
  BY <1>2, <1>7, <1>8, <1>9 DEF n, tod, from, due, day

(* What is left of a clock, by the order of the two instants. *)
LEMMA RemainingSigns ==
    ASSUME NEW spec, IsClock(spec), NEW as_of \in Int, NEW due \in Int, NEW h
    PROVE  /\ Remaining(spec, as_of, due, h) \in Int
           /\ as_of <= due => Remaining(spec, as_of, due, h) >= 0
           /\ as_of >= due => Remaining(spec, as_of, due, h) <= 0
<1> DEFINE left == Remaining(spec, as_of, due, h)
<1>1. Day(as_of) \in Int /\ Day(due) \in Int
  BY DayType
<1>2. as_of <= due => Day(as_of) <= Day(due)
  BY DayMonotone
<1>3. as_of >= due => Day(due) <= Day(as_of)
  BY DayMonotone
<1>4. CASE spec.kind = "business"
  <2> DEFINE k == CountIn(Day(as_of), Day(due), h)
             m == CountIn(Day(due), Day(as_of), h)
  <2>1. k \in Nat /\ m \in Nat
    BY <1>1, CountType
  <2>2. left = IF due > as_of THEN k ELSE 0 - m
    BY <1>4, BusinessDaysBetweenCounts DEF Remaining
  <2>3. due = as_of => m = 0
    BY <1>1, CountNone
  <2> HIDE DEF k, m, left
  <2>4. left \in Int /\ (as_of <= due => left >= 0) /\ (as_of >= due => left <= 0)
    BY <2>1, <2>2, <2>3
  <2> QED
    BY <2>4 DEF left
<1>5. CASE spec.kind # "business"
  <2>1. left = Day(due) - Day(as_of)
    BY <1>5 DEF Remaining, CalendarDaysBetween
  <2> HIDE DEF left
  <2>2. left \in Int /\ (as_of <= due => left >= 0) /\ (as_of >= due => left <= 0)
    BY <1>1, <1>2, <1>3, <2>1
  <2> QED
    BY <2>2 DEF left
<1> QED
  BY <1>4, <1>5

(* Nothing is gained by waiting. *)
LEMMA RemainingShrinks ==
    ASSUME NEW spec, IsClock(spec), NEW due \in Int, NEW h,
           NEW s \in Int, NEW t \in Int, s <= t, t <= due
    PROVE  Remaining(spec, t, due, h) <= Remaining(spec, s, due, h)
<1>1. Day(s) \in Int /\ Day(t) \in Int /\ Day(due) \in Int /\ Day(s) <= Day(t)
  BY DayType, DayMonotone
<1>2. CASE spec.kind = "business"
  <2>1. CountIn(Day(t), Day(due), h) <= CountIn(Day(s), Day(due), h)
    BY <1>1, CountGrows
  <2>2. CASE t < due
    <3>1. Remaining(spec, t, due, h) = CountIn(Day(t), Day(due), h)
      BY <1>2, <2>2, BusinessDaysBetweenCounts DEF Remaining
    <3>2. Remaining(spec, s, due, h) = CountIn(Day(s), Day(due), h)
      BY <1>2, <2>2, BusinessDaysBetweenCounts DEF Remaining
    <3> QED
      BY <2>1, <3>1, <3>2
  <2>3. CASE t = due
    <3>1. Remaining(spec, t, due, h) <= 0 /\ Remaining(spec, s, due, h) >= 0
      BY <2>3, RemainingSigns
    <3>2. Remaining(spec, t, due, h) \in Int /\ Remaining(spec, s, due, h) \in Int
      BY RemainingSigns
    <3> QED
      BY <3>1, <3>2
  <2> QED
    BY <2>2, <2>3
<1>3. CASE spec.kind # "business"
  BY <1>1, <1>3 DEF Remaining, CalendarDaysBetween
<1> QED
  BY <1>2, <1>3

(* The walk and the count are each other's inverse: from its anchor a      *)
(* clock has all its days left.                                            *)
THEOREM RemainingFromAnchor ==
    ASSUME NEW spec, IsClock(spec), NEW anchor \in Nat, NEW h, IsFiniteSet(h)
    PROVE  Remaining(spec, anchor, DueAt(spec, anchor, h), h) = spec.duration_days
<1> DEFINE n    == spec.duration_days
           due  == DueAt(spec, anchor, h)
           from == Day(anchor)
<1>1. n \in Nat
  BY DEF IsClock
<1>2. /\ due \in Nat /\ due >= anchor /\ from \in Nat
      /\ Day(due) = IF spec.kind = "business" THEN DueDay(n, from, h) ELSE from + n
  BY DueInstant
<1>3. CASE spec.kind = "business"
  <2>1. CountIn(from, Day(due), h) = n
    <3> HIDE DEF due, n, from
    <3>1. Day(due) = DueDay(n, from, h)
      BY <1>2, <1>3
    <3>2. DueDay(n, from, h) \in ReachedAt(n, from, h)
      BY <1>1, <1>2, DueDayIsFirst
    <3>3. CountIn(from, DueDay(n, from, h), h) = n
      BY <3>2 DEF ReachedAt
    <3> QED
      BY <3>1, <3>3
  <2>2. CASE due > anchor
    BY <1>2, <1>3, <2>1, <2>2, BusinessDaysBetweenCounts DEF Remaining
  <2>3. CASE due = anchor
    <3>1. CountIn(from, Day(due), h) = 0
      BY <1>2, <2>3, CountNone
    <3>2. Remaining(spec, anchor, due, h) = BusinessDaysBetween(anchor, anchor, h)
      BY <1>3, <2>3 DEF Remaining
    <3>3. BusinessDaysBetween(anchor, anchor, h) = 0
      <4>1. BusinessDaysBetween(anchor, anchor, h) = 0 - CountIn(from, from, h)
        BY BusinessDaysBetweenCounts
      <4> DEFINE k == CountIn(from, from, h)
      <4>2. k \in Int /\ k = 0
        BY <1>2, CountNone
      <4>3. BusinessDaysBetween(anchor, anchor, h) = 0 - k
        BY <4>1
      <4> HIDE DEF k
      <4> QED
        BY <4>2, <4>3
    <3> QED
      BY <2>1, <3>1, <3>2, <3>3
  <2> QED
    BY <1>2, <2>2, <2>3
<1>4. CASE spec.kind # "business"
  <2>1. Remaining(spec, anchor, due, h) = Day(due) - from
    BY <1>4 DEF Remaining, CalendarDaysBetween
  <2>2. Day(due) = from + n
    BY <1>2, <1>4
  <2> HIDE DEF from, n, due
  <2>3. Remaining(spec, anchor, due, h) = n
    BY <1>1, <1>2, <2>1, <2>2
  <2> QED
    BY <2>3 DEF n, due
<1> QED
  BY <1>3, <1>4

LEMMA WarnThresholdType ==
    ASSUME NEW spec, IsClock(spec)
    PROVE  WarnThreshold(spec) \in Nat
<1> DEFINE share == (100 - spec.warn_percent) * spec.duration_days
<1>1. share \in Nat
  <2>1. 100 - spec.warn_percent \in Nat /\ spec.duration_days \in Nat
    BY DEF IsClock
  <2> QED
    BY <2>1
<1> HIDE DEF share
<1>2. share \div 100 + 1 \in Nat /\ (share + 99) \div 100 \in Nat
  BY <1>1
<1> QED
  BY <1>2 DEF WarnThreshold, share
=============================================================================
