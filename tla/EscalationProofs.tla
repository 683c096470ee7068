-------------------------- MODULE EscalationProofs --------------------------
(***************************************************************************)
(* Theorems about the case engine and the console in one service, for      *)
(* every number of threads, cases and people, any workflow definitions and *)
(* any routing policy.                                                     *)
(*                                                                         *)
(* The console's part of every step is one of ReviewConsole's steps or a   *)
(* stutter.  For the router's submission that needs the review to be one   *)
(* that a producer could ask for, which is what the engine's invariant     *)
(* says of planned effects.                                                *)
(*                                                                         *)
(* Each hand-off opens a review of its own, and no disposition opens or    *)
(* loses one; with the engine's balance of escalations and hand-offs that  *)
(* is a review for each escalation.                                        *)
(*                                                                         *)
(* With one handler at a time the maker of each review is the case's last  *)
(* mover, as the trail tells: when an evaluation is recorded nothing that  *)
(* was moved is missing of the trail (RInv), and what the console does     *)
(* with the review leaves its maker alone.                                 *)
(***************************************************************************)
EXTENDS Escalation, CaseWorkflowProofs

(* The engine's part of a step is a step of the engine, or none. *)
LEMMA EngineSteps == [SystemNext]_system => [Next]_vars
<1> SUFFICES ASSUME [SystemNext]_system PROVE [Next]_vars
  OBVIOUS
<1>1. ASSUME NEW w \in Workers, Engine(w)
      PROVE  Next
  BY <1>1 DEF Engine, EngineServes, Next, Serve, Perform
<1>2. ASSUME NEW w \in Workers, HandOver(w)
      PROVE  Next
  BY <1>2 DEF HandOver, Next, Serve, Perform
<1>3. ASSUME NEW w \in Workers, Desk(w)
      PROVE  UNCHANGED vars
  BY <1>3 DEF Desk
<1>4. CASE UNCHANGED system
  BY <1>4 DEF system
<1> QED
  BY <1>1, <1>2, <1>3, <1>4 DEF SystemNext, Next

(* In the composition the engine behaves as it does alone, so what is      *)
(* proved of CaseWorkflow holds of it.                                     *)
THEOREM KeepsEngine == System => Spec
<1>1. SystemInit => Init
  BY DEF SystemInit
<1> QED
  BY <1>1, EngineSteps, PTL DEF System, Spec

(* What is left of a hand-off is a review that can be asked for. *)
LEMMA HandsOverSound ==
    ASSUME WInv, NEW w \in Workers, RouteToReview(w)
    PROVE  SoundReview(Head(todo[w]).review)
<1>1. Founded(todo[w], cases) /\ todo[w] # << >> /\ Head(todo[w]).kind = "route"
  BY DEF WInv, RouteToReview, Doing
<1>2. PICK t, id : Plan(todo[w], t, id)
  BY <1>1 DEF Founded
<1> QED
  BY <1>1, <1>2, PlanStep DEF SoundEffect

(* The router's submission is that of a producer that gives no key. *)
LEMMA HandOverSubmits ==
    ASSUME WInv, NEW w \in Workers, HandOver(w)
    PROVE  Console!SubmitIdempotent(w)
<1> DEFINE r       == Head(todo[w]).review
           id      == CHOOSE i \in Console!FreshIds : TRUE
           request == [severity |-> r.severity, required |-> 1, sod_group |-> NoGroup]
           item    == Console!NewItem(Policy, id, r.tenant, r.maker, request, NoKey)
<1>1. SoundReview(r)
  BY HandsOverSound DEF HandOver
<1>2. id \in Console!FreshIds
  BY DEF HandOver
<1>3. request \in [severity : Severities, required : {1}, sod_group : {NoGroup}]
  BY <1>1 DEF SoundReview
<1>4. item.source_key = NoKey
  BY DEF Console!NewItem, Console!WithEffectiveRouting
<1>5. Console!Conflicting(store, item) = {}
  BY <1>4 DEF Console!Conflicting
<1>6. /\ call[w] = Console!Idle
      /\ store' = Console!Put(store, item)
      /\ call' = [call EXCEPT ![w] = Console!Recording(Console!SubmissionSignOff(item))]
      /\ UNCHANGED <<signoffs, lost>>
  BY DEF HandOver, ReviewOf
<1> QED
  <2> HIDE DEF id, request, r
  <2>1. [v \in Workers |-> Policy][w] = Policy
    OBVIOUS
  <2> QED
    BY <1>1, <1>2, <1>3, <1>5, <1>6, <2>1 DEF Console!SubmitIdempotent, SoundReview

(* The console's part of a step is a step of the console, or none. *)
LEMMA ConsoleSteps ==
    WInv /\ [SystemNext]_system => [Console!Next]_(Console!vars)
<1> SUFFICES ASSUME WInv, [SystemNext]_system
             PROVE  Console!Next \/ UNCHANGED Console!vars
  OBVIOUS
<1>1. CASE UNCHANGED desk
  BY <1>1 DEF desk, Console!vars
<1>2. ASSUME NEW w \in Workers, HandOver(w)
      PROVE  Console!Next
  BY <1>2, HandOverSubmits DEF Console!Next, Console!Accept
<1>3. ASSUME NEW w \in Workers, Desk(w)
      PROVE  Console!Next
  BY <1>3 DEF Desk, Console!Next, Console!Accept
<1>4. CASE UNCHANGED system
  BY <1>4, <1>1 DEF system
<1> QED
  BY <1>1, <1>2, <1>3, <1>4 DEF SystemNext, Engine

(* Beside the engine, the console does nothing that it would not do alone: *)
(* the router is one more producer, and what ReviewConsoleProofs proves of *)
(* stored reviews holds of escalated cases.                                *)
THEOREM ConsoleIsKept == System => KeepsConsole
<1>1. SystemInit => Console!Init
  BY DEF SystemInit, Console!Init
<1>2. System => []WInv
  BY KeepsEngine, WorkflowInvariance, PTL
<1> QED
  BY <1>1, <1>2, ConsoleSteps, PTL DEF System, KeepsConsole, Console!Spec

-----------------------------------------------------------------------------
(* One review for each hand-off. *)

(* Rows have ids of their own, which the hand-offs and the dispositions    *)
(* that are under way know.                                                *)
DeskInv ==
    /\ IsFiniteSet(store)
    /\ call = [w \in Workers |-> call[w]]
    /\ \A r, s \in store : r.review_id = s.review_id => r = s
    /\ \A i, id : << i, id >> \in about => \E r \in store : r.review_id = i
    /\ \A w \in Workers : call[w].step = "put" =>
         \E r \in store : r.review_id = call[w].item.review_id /\ r.tenant = call[w].item.tenant

OneForEach == \A id : Cardinality(ReviewsOf(id)) = Routed(id)

LEMMA ReviewsAreFinite ==
    ASSUME DeskInv, NEW id
    PROVE  IsFiniteSet(ReviewsOf(id)) /\ Cardinality(ReviewsOf(id)) \in Nat
<1>1. ReviewsOf(id) \subseteq store /\ IsFiniteSet(store)
  BY DEF ReviewsOf, DeskInv
<1> QED
  BY <1>1, FS_Subset, FS_CardinalityType

(* A hand-off adds a row, about its case. *)
LEMMA HandOverAddsOne ==
    ASSUME HInv, DeskInv, OneForEach, NEW w \in Workers, HandOver(w)
    PROVE  DeskInv' /\ OneForEach'
<1> DEFINE r    == Head(todo[w]).review
           new  == CHOOSE i \in Console!FreshIds : TRUE
           item == ReviewOf(r, new)
<1>1. new \in Console!FreshIds
  BY DEF HandOver
<1>2. item.review_id = new
  BY DEF ReviewOf, Console!NewItem, Console!WithEffectiveRouting
<1>3. /\ store' = Console!Put(store, item)
      /\ about' = about \cup {<< new, r.case_ref >>}
      /\ call' = [call EXCEPT ![w] = Console!Recording(Console!SubmissionSignOff(item))]
      /\ RouteToReview(w) /\ Head(todo[w]).kind = "route"
  BY DEF HandOver, RouteToReview, Doing
<1> HIDE DEF item, new, r
<1>4. \A s \in store : s.review_id # new
  BY <1>1 DEF Console!FreshIds
<1>5. store' = store \cup {item}
  BY <1>2, <1>3, <1>4 DEF Console!Put, Console!SameRow
<1>6. /\ DOMAIN call' = Workers /\ call' = [v \in Workers |-> call'[v]]
      /\ call'[w].step # "put" /\ \A v \in Workers \ {w} : call'[v] = call[v]
  BY <1>3 DEF DeskInv, Console!Recording
<1>7. DeskInv'
  <2>1. IsFiniteSet(store')
    BY <1>5, FS_AddElement DEF DeskInv
  <2>2. \A s, u \in store' : s.review_id = u.review_id => s = u
    BY <1>2, <1>4, <1>5 DEF DeskInv
  <2>3. \A i, id : << i, id >> \in about' => \E s \in store' : s.review_id = i
    BY <1>2, <1>3, <1>5 DEF DeskInv
  <2>4. \A v \in Workers : call'[v].step = "put" =>
          \E s \in store' : s.review_id = call'[v].item.review_id /\ s.tenant = call'[v].item.tenant
    BY <1>5, <1>6 DEF DeskInv
  <2> QED
    BY <1>6, <2>1, <2>2, <2>3, <2>4 DEF DeskInv
<1>8. ASSUME NEW id
      PROVE  Cardinality(ReviewsOf(id))' = Routed(id)'
  <2> DEFINE p == id = r.case_ref
  <2>1. \A x : << new, x >> \notin about
    BY <1>4 DEF DeskInv
  <2>2. item \notin ReviewsOf(id) /\ ReviewsOf(id)' = ReviewsOf(id) \cup (IF p THEN {item} ELSE {})
    BY <1>2, <1>3, <1>4, <1>5, <2>1 DEF ReviewsOf
  <2>3. p \in BOOLEAN
    OBVIOUS
  <2>4. Routed(id)' = Routed(id) + One(p)
    <3>1. Routed(id)' = Routed(id) + One(IsHandOff(Head(todo[w]), id))
      BY <1>3, RouteCounts
    <3>2. IsHandOff(Head(todo[w]), id) <=> p
      BY <1>3 DEF IsHandOff, r
    <3> QED
      BY <3>1, <3>2 DEF One
  <2> HIDE DEF p
  <2>5. Cardinality(ReviewsOf(id) \cup (IF p THEN {item} ELSE {})) = Cardinality(ReviewsOf(id)) + One(p)
    BY <2>2, <2>3, ReviewsAreFinite, OneMore
  <2> QED
    BY <2>2, <2>4, <2>5 DEF OneForEach
<1> QED
  BY <1>7, <1>8 DEF OneForEach

(* Nobody approves what he made. *)
ConsoleActors == Actors \cup {CaseEngineId}

OtherEyes(item) ==
    /\ {"maker", "approvals"} \subseteq DOMAIN item
    /\ item.approvals \in Seq(ConsoleActors) /\ item.maker \notin Console!Approvers(item)

LEMMA OneApproverMore ==
    ASSUME NEW S, NEW s \in Seq(S), NEW a \in S
    PROVE  /\ Append(s, a) \in Seq(S)
           /\ \A i \in DOMAIN Append(s, a) : Append(s, a)[i] = a \/ \E j \in DOMAIN s : Append(s, a)[i] = s[j]
<1>1. Append(s, a) \in Seq(S)
  OBVIOUS
<1>2. ASSUME NEW i \in DOMAIN Append(s, a)
      PROVE  Append(s, a)[i] = a \/ \E j \in DOMAIN s : Append(s, a)[i] = s[j]
  <2>1. /\ i \in 1..(Len(s) + 1) /\ DOMAIN s = 1..Len(s) /\ Len(s) \in Nat
        /\ Append(s, a)[i] = IF i = Len(s) + 1 THEN a ELSE s[i]
    OBVIOUS
  <2>2. CASE i = Len(s) + 1
    BY <2>1, <2>2
  <2>3. CASE i # Len(s) + 1
    <3>1. i \in DOMAIN s
      BY <2>1, <2>3
    <3> QED
      BY <2>1, <2>3, <3>1
  <2> QED
    BY <2>2, <2>3
<1> QED
  BY <1>1, <1>2

(* A checker who is not the maker approves. *)
LEMMA ApprovedByOther ==
    ASSUME NEW item, OtherEyes(item), NEW checker \in ConsoleActors, checker # item.maker,
           NEW state, NEW out, out = Console!WithApproval(item, checker, state)
    PROVE  OtherEyes(out) /\ out.maker = item.maker
<1>1. out.approvals = Append(item.approvals, checker) /\ out.maker = item.maker
  BY DEF Console!WithApproval, OtherEyes
<1>2. item.approvals \in Seq(ConsoleActors) /\ item.maker \notin Console!Approvers(item)
  BY DEF OtherEyes
<1>3. out.approvals \in Seq(ConsoleActors)
  BY <1>1, <1>2, OneApproverMore
<1>4. ASSUME NEW i \in DOMAIN out.approvals PROVE out.approvals[i] # item.maker
  <2>1. out.approvals[i] = checker \/ \E j \in DOMAIN item.approvals : out.approvals[i] = item.approvals[j]
    BY <1>1, <1>2, OneApproverMore
  <2> QED
    BY <1>2, <2>1 DEF Console!Approvers, Console!Range
<1>5. out.maker \notin Console!Approvers(out)
  BY <1>1, <1>4 DEF Console!Approvers, Console!Range
<1>6. DOMAIN out = DOMAIN item
  BY DEF Console!WithApproval
<1> QED
  BY <1>1, <1>3, <1>5, <1>6 DEF OtherEyes

(* The outcome of a disposition is of the row that it was loaded from, and *)
(* as the maker is not eligible, he is not among its approvers.            *)
LEMMA OutcomeOf ==
    ASSUME NEW w \in Workers, Console!DisposeAllowed(w)
    PROVE  \E item, e : /\ call' = [call EXCEPT ![w] = Console!Putting(item, e)]
                        /\ store' = store
                        /\ \E r \in store : /\ r.review_id = item.review_id /\ r.tenant = item.tenant
                                            /\ OtherEyes(r) => OtherEyes(item) /\ item.maker = r.maker
<1> DEFINE pol == [v \in Workers |-> Policy][w]
           Outcome(item, checker, d) == Console!Dispose(pol, item, checker, d)
<1>1. PICK checker \in Checkers, d \in Console!Dispositions, id \in ReviewIds :
        \E item \in Console!Loaded(w, id, checker) :
          /\ Console!CheckEligibility(pol, item, checker) = {}
          /\ call' = [call EXCEPT ![w] =
               Console!Putting(Outcome(item, checker, d),
                               Console!SignOff(Outcome(item, checker, d), "dispose", checker.actor, d, {}))]
  BY DEF Console!DisposeAllowed
<1>2. PICK item \in Console!Loaded(w, id, checker) :
          /\ Console!CheckEligibility(pol, item, checker) = {}
          /\ call' = [call EXCEPT ![w] =
               Console!Putting(Outcome(item, checker, d),
                               Console!SignOff(Outcome(item, checker, d), "dispose", checker.actor, d, {}))]
  BY <1>1
<1>3. PICK r \in store : item = Console!WithEffectiveRouting(pol, r)
  BY DEF Console!Loaded, Console!Get
<1>4. /\ item.review_id = r.review_id /\ item.tenant = r.tenant
      /\ item.maker = r.maker /\ item.approvals = r.approvals /\ DOMAIN item = DOMAIN r
  BY <1>3 DEF Console!WithEffectiveRouting
<1>5. OtherEyes(r) => OtherEyes(item)
  BY <1>4 DEF OtherEyes, Console!Approvers
<1>6. checker.actor # item.maker
  BY <1>2 DEF Console!CheckEligibility, Console!Findings
<1>7. checker.actor \in ConsoleActors
  BY EscalationAssumption DEF Console!Principal, ConsoleActors
<1> DEFINE out == Outcome(item, checker, d)
<1>8. \/ \E state : out = Console!WithApproval(item, checker.actor, state)
      \/ \E state : out = Console!Resolved(item, state)
  BY DEF Console!Dispose, Console!Approved, Console!Dispositions
<1>9. store' = store
  BY DEF Console!DisposeAllowed
<1>10. call' = [call EXCEPT ![w] = Console!Putting(out, Console!SignOff(out, "dispose", checker.actor, d, {}))]
  BY <1>2
<1> HIDE DEF out, Outcome, pol
<1>11. ASSUME NEW state, out = Console!WithApproval(item, checker.actor, state)
       PROVE  /\ out.review_id = item.review_id /\ out.tenant = item.tenant
              /\ OtherEyes(item) => OtherEyes(out) /\ out.maker = item.maker
  <2>1. out.review_id = item.review_id /\ out.tenant = item.tenant
    BY <1>11 DEF Console!WithApproval
  <2>2. OtherEyes(item) => OtherEyes(out) /\ out.maker = item.maker
    BY <1>6, <1>7, <1>11, ApprovedByOther
  <2> QED
    BY <2>1, <2>2
<1>12. ASSUME NEW state, out = Console!Resolved(item, state)
       PROVE  /\ out.review_id = item.review_id /\ out.tenant = item.tenant
              /\ OtherEyes(item) => OtherEyes(out) /\ out.maker = item.maker
  <2>1. /\ out.review_id = item.review_id /\ out.tenant = item.tenant
        /\ out.maker = item.maker /\ out.approvals = item.approvals /\ DOMAIN out = DOMAIN item
    BY <1>12 DEF Console!Resolved
  <2> QED
    BY <2>1 DEF OtherEyes, Console!Approvers
<1>13. /\ r.review_id = out.review_id /\ r.tenant = out.tenant
       /\ OtherEyes(r) => OtherEyes(out) /\ out.maker = r.maker
  BY <1>4, <1>5, <1>8, <1>11, <1>12
<1> QED
  BY <1>3, <1>9, <1>10, <1>13

LEMMA Swapped ==
    ASSUME NEW S, IsFiniteSet(S), NEW x \in S, NEW y, y \notin S \ {x}
    PROVE  Cardinality((S \ {x}) \cup {y}) = Cardinality(S)
<1> DEFINE R == S \ {x}
<1>1. IsFiniteSet(R) /\ y \notin R /\ x \notin R /\ S = R \cup {x}
  BY FS_Subset
<1> HIDE DEF R
<1>2. Cardinality(R \cup {y}) = Cardinality(R) + 1 /\ Cardinality(R \cup {x}) = Cardinality(R) + 1
  BY <1>1, FS_AddElement
<1> QED
  BY <1>1, <1>2 DEF R

(* An outcome is put in the place of its row. *)
LEMMA PutOutcomeSwaps ==
    ASSUME DeskInv, NEW w \in Workers, Console!PutOutcome(w), UNCHANGED about
    PROVE  DeskInv' /\ \A id : Cardinality(ReviewsOf(id)') = Cardinality(ReviewsOf(id))
<1> DEFINE item == call[w].item
<1>1. PICK r \in store : r.review_id = item.review_id /\ r.tenant = item.tenant
  BY DEF Console!PutOutcome, DeskInv
<1>2. store' = Console!Put(store, item) /\ call' = [call EXCEPT ![w] = Console!Recording(call[w].event)]
  BY DEF Console!PutOutcome
<1>3. /\ DOMAIN call' = Workers /\ call' = [v \in Workers |-> call'[v]]
      /\ call'[w].step # "put" /\ \A v \in Workers \ {w} : call'[v] = call[v]
  BY <1>2 DEF DeskInv, Console!Recording
<1> HIDE DEF item
<1>4. store' = (store \ {r}) \cup {item} /\ item \notin store \ {r}
  BY <1>1, <1>2 DEF Console!Put, Console!SameRow, DeskInv
<1>5. DeskInv'
  <2>1. IsFiniteSet(store')
    BY <1>4, FS_Subset, FS_AddElement DEF DeskInv
  <2>2. \A s, u \in store' : s.review_id = u.review_id => s = u
    BY <1>1, <1>4 DEF DeskInv
  <2>3. \A s \in store : \E u \in store' : u.review_id = s.review_id /\ u.tenant = s.tenant
    BY <1>1, <1>4
  <2>4. \A i, id : << i, id >> \in about' => \E s \in store' : s.review_id = i
    BY <2>3 DEF DeskInv
  <2>5. \A v \in Workers : call'[v].step = "put" =>
          \E s \in store' : s.review_id = call'[v].item.review_id /\ s.tenant = call'[v].item.tenant
    BY <1>3, <2>3 DEF DeskInv
  <2> QED
    BY <1>3, <2>1, <2>2, <2>4, <2>5 DEF DeskInv
<1>6. ASSUME NEW id
      PROVE  Cardinality(ReviewsOf(id)') = Cardinality(ReviewsOf(id))
  <2>1. CASE r \in ReviewsOf(id)
    <3>1. ReviewsOf(id)' = (ReviewsOf(id) \ {r}) \cup {item} /\ item \notin ReviewsOf(id) \ {r}
      BY <1>1, <1>4, <2>1 DEF ReviewsOf
    <3> QED
      BY <2>1, <3>1, ReviewsAreFinite, Swapped
  <2>2. CASE r \notin ReviewsOf(id)
    <3>1. ReviewsOf(id)' = ReviewsOf(id)
      BY <1>1, <1>4, <2>2 DEF ReviewsOf
    <3> QED
      BY <3>1
  <2> QED
    BY <2>1, <2>2
<1> QED
  BY <1>5, <1>6

(* A disposition opens no review and loses none. *)
LEMMA DeskKeeps ==
    ASSUME DeskInv, OneForEach, NEW w \in Workers, Desk(w)
    PROVE  DeskInv' /\ OneForEach'
<1>1. UNCHANGED vars /\ UNCHANGED about
  BY DEF Desk
<1>2. UNCHANGED reviews
  BY <1>1 DEF vars, ports
<1>3. ASSUME DeskInv', \A id : Cardinality(ReviewsOf(id)') = Cardinality(ReviewsOf(id))
      PROVE  DeskInv' /\ OneForEach'
  BY <1>2, <1>3 DEF OneForEach, Routed, RoutedAt
<1>4. CASE Console!DisposeAllowed(w)
  <2>1. PICK item, e : /\ call' = [call EXCEPT ![w] = Console!Putting(item, e)]
                       /\ store' = store
                       /\ \E r \in store : r.review_id = item.review_id /\ r.tenant = item.tenant
    BY <1>4, OutcomeOf
  <2>2. DeskInv'
    BY <1>1, <2>1 DEF DeskInv, Console!Putting
  <2> QED
    BY <1>1, <1>3, <2>1, <2>2 DEF ReviewsOf
<1>5. CASE Console!DisposeDenied(w) \/ Console!Record(w) \/ Console!Fail(w)
  <2>1. /\ store' = store /\ call' = [call EXCEPT ![w] = call'[w]]
        /\ call'[w].step # "put"
    <3>1. CASE Console!DisposeDenied(w)
      <4>1. PICK e : store' = store /\ call' = [call EXCEPT ![w] = Console!Recording(e)]
        BY <3>1 DEF Console!DisposeDenied
      <4> QED
        BY <4>1 DEF DeskInv, Console!Recording
    <3>2. CASE Console!Record(w) \/ Console!Fail(w)
      <4>1. store' = store /\ call' = [call EXCEPT ![w] = Console!Idle]
        BY <3>2 DEF Console!Record, Console!Fail
      <4> QED
        BY <4>1 DEF DeskInv, Console!Idle
    <3> QED
      BY <1>5, <3>1, <3>2
  <2>2. DeskInv'
    BY <1>1, <2>1 DEF DeskInv
  <2> QED
    BY <1>1, <1>3, <2>1, <2>2 DEF ReviewsOf
<1>6. CASE Console!PutOutcome(w)
  BY <1>1, <1>3, <1>6, PutOutcomeSwaps
<1> QED
  BY <1>4, <1>5, <1>6 DEF Desk, Console!Serve

(* Nothing else hands a case over. *)
LEMMA OthersHandNothing ==
    ASSUME DeskInv, OneForEach, UNCHANGED desk, UNCHANGED reviews
    PROVE  DeskInv' /\ OneForEach'
<1>1. DeskInv'
  BY DEF DeskInv, desk
<1>2. ASSUME NEW id
      PROVE  ReviewsOf(id)' = ReviewsOf(id) /\ Routed(id)' = Routed(id)
  BY DEF ReviewsOf, Routed, RoutedAt, desk
<1> QED
  BY <1>1, <1>2 DEF OneForEach

LEMMA EngineHandsNothing ==
    ASSUME NEW w \in Workers, Engine(w)
    PROVE  UNCHANGED desk /\ UNCHANGED reviews
<1>1. CASE EngineServes(w)
  BY <1>1 DEF Engine, EngineServes, CaseNotFound, TransitionCase, RefuseTransition,
    EvaluateCase, Decide, PutCase, ScheduleTimer, CancelTimer, Publish, Record, ports
<1>2. CASE OpenCase(w) \/ Ask(w) \/ TimerFires(w) \/ Fail(w)
  BY <1>2 DEF Engine, OpenCase, Ask, TimerFires, Fail, ports
<1> QED
  BY <1>1, <1>2 DEF Engine

LEMMA EachHandOffOpensOne == System => [](DeskInv /\ OneForEach)
<1>1. SystemInit => DeskInv /\ OneForEach
  <2> SUFFICES ASSUME SystemInit PROVE DeskInv /\ OneForEach
    OBVIOUS
  <2>1. DeskInv
    <3>1. store = {} /\ about = {} /\ call = [w \in Workers |-> Console!Idle]
      BY DEF SystemInit
    <3> QED
      BY <3>1, FS_EmptySet DEF DeskInv, Console!Idle
  <2>2. ASSUME NEW id
        PROVE  ReviewsOf(id) = {} /\ RoutedAt(id) = {}
    BY DEF SystemInit, Init, ReviewsOf, RoutedAt
  <2> QED
    BY <2>1, <2>2 DEF OneForEach, Routed
<1>2. HInv /\ DeskInv /\ OneForEach /\ [SystemNext]_system => DeskInv' /\ OneForEach'
  <2> SUFFICES ASSUME HInv, DeskInv, OneForEach, [SystemNext]_system
               PROVE  DeskInv' /\ OneForEach'
    OBVIOUS
  <2>1. ASSUME NEW w \in Workers, HandOver(w)
        PROVE  DeskInv' /\ OneForEach'
    BY <2>1, HandOverAddsOne
  <2>2. ASSUME NEW w \in Workers, Desk(w)
        PROVE  DeskInv' /\ OneForEach'
    BY <2>2, DeskKeeps
  <2>3. ASSUME NEW w \in Workers, Engine(w)
        PROVE  UNCHANGED desk /\ UNCHANGED reviews
    BY <2>3, EngineHandsNothing
  <2>4. CASE Tick /\ UNCHANGED desk
    BY <2>4, OthersHandNothing DEF Tick, ports
  <2>5. CASE UNCHANGED system
    BY <2>5, OthersHandNothing DEF system, vars, ports
  <2> QED
    BY <2>1, <2>2, <2>3, <2>4, <2>5, OthersHandNothing DEF SystemNext
<1>3. System => []HInv
  BY KeepsEngine, HandOffInvariance, PTL
<1> QED
  BY <1>1, <1>2, <1>3, PTL DEF System

(* However many threads escalate and dispose at once, each escalation in   *)
(* the trail comes to a review of its own, none is made up, and a death    *)
(* loses one at most (evaluate_case, route, dispose).                      *)
THEOREM EscalationsAreReviewed == System => []EachEscalationIsReviewed
<1>1. HInv /\ OneForEach => EachEscalationIsReviewed
  <2> SUFFICES ASSUME HInv, OneForEach, NEW id \in CaseIds
               PROVE  /\ Cardinality(ReviewsOf(id)) <= Escalations(id)
                      /\ Quiescent => Escalations(id) <= Cardinality(ReviewsOf(id)) + failures
    BY DEF EachEscalationIsReviewed
  <2>1. Cardinality(ReviewsOf(id)) = Routed(id)
    BY DEF OneForEach
  <2>2. Routed(id) <= Escalations(id)
    <3>1. Balanced(id)
      BY DEF HInv
    <3> QED
      BY <3>1, CountsAreNaturals DEF Balanced
  <2> QED
    BY <2>1, <2>2, HandOffsMade
<1>2. System => []HInv
  BY KeepsEngine, HandOffInvariance, PTL
<1> QED
  BY <1>1, <1>2, EachHandOffOpensOne, PTL

-----------------------------------------------------------------------------
(* Who moved a case last. *)

LEMMA MaxIsGreatest ==
    ASSUME NEW n \in Nat, NEW T, T \subseteq 1..n, T # {}
    PROVE  Max(T) \in T /\ \A y \in T : y <= Max(T)
<1> DEFINE U == {u \in Nat : \A y \in T : y <= u}
<1>1. n \in U /\ U \subseteq Nat
  OBVIOUS
<1>2. PICK x \in U : \A u \in U : x <= u
  <2> HIDE DEF U
  <2> QED
    BY <1>1, LeastOfNaturals
<1>3. x \in T
  <2> SUFFICES ASSUME x \notin T PROVE FALSE
    OBVIOUS
  <2>1. x \in Nat /\ \A y \in T : y \in Nat /\ y > 0 /\ y < x
    BY <1>2
  <2>2. x - 1 \in Nat /\ \A y \in T : y <= x - 1
    <3>1. PICK y : y \in T
      OBVIOUS
    <3>2. y \in Nat /\ y > 0 /\ y < x
      BY <2>1, <3>1
    <3> HIDE DEF U
    <3>3. x - 1 \in Nat
      BY <2>1, <3>2
    <3> QED
      BY <2>1, <3>3
  <2>3. x - 1 \in U
    BY <2>2
  <2> QED
    BY <1>2, <2>1, <2>3
<1>4. \A y \in T : x >= y
  BY <1>2
<1>5. Max(T) \in T /\ \A y \in T : Max(T) >= y
  BY <1>3, <1>4 DEF Max
<1> QED
  BY <1>5

(* The mover that the trail t tells before the place j. *)
MoverIn(t, j) ==
    LET moves == {i \in MovesIn(t, t[j].case_id) : i < j}
    IN  IF moves = {} THEN CaseEngineId ELSE t[Max(moves)].actor

(* The trail t tells that the case was escalated when m had moved it last. *)
MoverTold(t, id, m) ==
    \E j \in DOMAIN t : /\ t[j].case_id = id /\ t[j].decision = "escalated"
                        /\ MoverIn(t, j) = m

LastOf(c) == IF c.history = << >> THEN CaseEngineId ELSE Last(c.history).actor

(* What was told stays told. *)
LEMMA ToldStays ==
    ASSUME NEW t \in Seq(CaseAuditEvent), NEW e, NEW u, Grows(t, e, u),
           NEW id, NEW m, MoverTold(t, id, m)
    PROVE  MoverTold(u, id, m)
<1>1. PICK j \in DOMAIN t : /\ t[j].case_id = id /\ t[j].decision = "escalated"
                            /\ MoverIn(t, j) = m
  BY DEF MoverTold
<1>2. /\ Len(t) \in Nat /\ DOMAIN t = 1..Len(t) /\ DOMAIN u = 1..(Len(t) + 1)
      /\ \A i \in 1..Len(t) : u[i] = t[i]
  BY DEF Grows
<1>3. j \in DOMAIN u /\ u[j] = t[j] /\ j \in 1..Len(t)
  BY <1>1, <1>2
<1> DEFINE M == {i \in MovesIn(t, id) : i < j}
           N == {i \in MovesIn(u, id) : i < j}
<1>4. N = M
  BY <1>2, <1>3 DEF MovesIn
<1>5. M # {} => t[Max(M)] = u[Max(M)]
  <2> SUFFICES ASSUME M # {} PROVE t[Max(M)] = u[Max(M)]
    OBVIOUS
  <2>1. M \subseteq 1..Len(t)
    BY <1>2 DEF MovesIn
  <2> HIDE DEF M
  <2>2. Max(M) \in M
    BY <1>2, <2>1, MaxIsGreatest
  <2> QED
    BY <1>2, <2>1, <2>2
<1>6. MoverIn(u, j) = MoverIn(t, j)
  <2>1. u[j].case_id = id /\ t[j].case_id = id
    BY <1>1, <1>3
  <2>2. /\ MoverIn(u, j) = IF N = {} THEN CaseEngineId ELSE u[Max(N)].actor
        /\ MoverIn(t, j) = IF M = {} THEN CaseEngineId ELSE t[Max(M)].actor
    BY <2>1 DEF MoverIn
  <2> HIDE DEF M, N
  <2> QED
    BY <1>4, <1>5, <2>2
<1> QED
  BY <1>1, <1>3, <1>6 DEF MoverTold

(* When nothing is missing of a case's moves, an escalation that is told   *)
(* next comes after the case's last one.                                   *)
LEMMA ToldNext ==
    ASSUME NEW t \in Seq(CaseAuditEvent), NEW e, NEW u, Grows(t, e, u),
           NEW c \in Case, Replays(c, t, 0, 0),
           e.case_id = c.case_id, e.decision = "escalated"
    PROVE  MoverTold(u, c.case_id, LastOf(c))
<1> DEFINE id == c.case_id
           n == Len(t) + 1
           M == MovesIn(t, id)
           N == {i \in MovesIn(u, id) : i < n}
<1>1. /\ Len(t) \in Nat /\ DOMAIN t = 1..Len(t) /\ DOMAIN u = 1..n
      /\ \A i \in 1..Len(t) : u[i] = t[i]
      /\ u[n] = e /\ n \in DOMAIN u
  BY DEF Grows
<1>2. N = M
  BY <1>1 DEF MovesIn
<1>3. MoverIn(u, n) = IF M = {} THEN CaseEngineId ELSE u[Max(M)].actor
  <2>1. MoverIn(u, n) = IF N = {} THEN CaseEngineId ELSE u[Max(N)].actor
    BY <1>1 DEF MoverIn
  <2> HIDE DEF M, N
  <2> QED
    BY <1>2, <2>1
<1>4. M \subseteq 1..Len(t) /\ Cardinality(M) \in Nat /\ IsFiniteSet(M)
  BY MovesCounted
<1>5. c.history \in Seq(Transition) /\ Len(c.history) \in Nat
  BY DEF Case
<1>6. Cardinality(M) = Len(c.history) /\ Lost(c, t, 0) = 0
  BY <1>4, <1>5 DEF Replays, Lost
<1>7. CASE c.history = << >>
  <2>1. Len(c.history) = 0
    BY <1>7
  <2>2. M = {}
    BY <1>4, <1>6, <2>1, FS_EmptySet
  <2>3. MoverIn(u, n) = LastOf(c)
    BY <1>3, <1>7, <2>2 DEF LastOf
  <2> QED
    BY <1>1, <2>3 DEF MoverTold
<1>8. CASE c.history # << >>
  <2>1. Len(c.history) # 0
    BY <1>5, <1>8
  <2>2. M # {}
    BY <1>6, <2>1, FS_EmptySet
  <2> DEFINE x == Max(M)
  <2>3. x \in M /\ \A y \in M : y <= x
    <3> HIDE DEF M
    <3> QED
      BY <1>1, <1>4, <2>2, MaxIsGreatest
  <2>4. NthIn(t, x, id) = Cardinality(M)
    <3>1. {j \in M : j <= x} = M
      BY <2>3
    <3> QED
      BY <3>1 DEF NthIn
  <2>5. Tells(t[x], c.history[NthIn(t, x, id)])
    BY <1>6, <2>3 DEF Replays
  <2>6. t[x].actor = Last(c.history).actor
    <3>1. Tells(t[x], c.history[Len(c.history)])
      BY <1>6, <2>4, <2>5
    <3>2. Last(c.history) = c.history[Len(c.history)]
      BY DEF Last
    <3> QED
      BY <3>1, <3>2 DEF Tells
  <2>7. u[x] = t[x]
    BY <1>1, <1>4, <2>3
  <2>8. MoverIn(u, n) = LastOf(c)
    <3> HIDE DEF M
    <3> QED
      BY <1>3, <1>8, <2>2, <2>6, <2>7 DEF LastOf
  <2> QED
    BY <1>1, <2>8 DEF MoverTold
<1> QED
  BY <1>7, <1>8

(* The makers of reviews that have been handed over, and of those that are *)
(* still to be, are told.                                                  *)
Told(rs, t) == \A i \in DOMAIN rs : MoverTold(t, rs[i].case_ref, rs[i].maker)

RoutesTold(s, t) ==
    \A i \in DOMAIN s : s[i].kind = "route" => MoverTold(t, s[i].review.case_ref, s[i].review.maker)

(* A plan that begins with a record has it still to tell. *)
PlanTold(s, t) == s # << >> /\ Head(s).kind # "record" => RoutesTold(s, t)

MInv ==
    /\ RInv
    /\ failures = 0 => Told(reviews, trail) /\ \A w \in Workers : PlanTold(todo[w], trail)

NoRoute(s) == \A i \in DOMAIN s : s[i].kind # "route"

LEMMA NothingToTell == ASSUME NEW s, NEW t, NoRoute(s) PROVE PlanTold(s, t)
BY DEF NoRoute, PlanTold, RoutesTold

(* Only an evaluation hands a case over. *)
LEMMA OthersRouteNothing ==
    ASSUME NEW s \in Seq(Effect), NEW rows,
           \/ s = << >>
           \/ \E c, actor, k : Opening(s, rows, c, actor, k)
           \/ \E c, m, actor, k : Moving(s, rows, c, m, actor, k)
           \/ \E c, actor, to : Refusing(s, rows, c, actor, to)
    PROVE  NoRoute(s)
<1>1. CASE s = << >>
  BY <1>1 DEF NoRoute
<1>2. ASSUME NEW P \in Seq(Effect), NEW k, Left(s, P, k), \A n \in 1..Len(P) : P[n].kind # "route"
      PROVE  NoRoute(s)
  <2> SUFFICES ASSUME NEW i \in 1..Len(s) PROVE s[i].kind # "route"
    BY DEF NoRoute
  <2>1. k \in 0..Len(P) /\ Len(s) = Len(P) - k /\ s[i] = P[i + k] /\ Len(P) \in Nat
    BY <1>2 DEF Left
  <2>2. i + k \in 1..Len(P)
    BY <2>1
  <2> QED
    BY <1>2, <2>1, <2>2
<1>3. ASSUME NEW c, NEW actor, NEW k, Opening(s, rows, c, actor, k)
      PROVE  NoRoute(s)
  <2> DEFINE P == OpenEffects(c, actor)
  <2>1. c \in Case /\ actor \in Actors /\ Left(s, P, k)
    BY <1>3 DEF Opening
  <2>2. P \in Seq(Effect) /\ \A n \in 1..Len(P) : P[n].kind # "route"
    BY <2>1, PlansTyped, OpenKinds
  <2> HIDE DEF P
  <2> QED
    BY <1>2, <2>1, <2>2
<1>4. ASSUME NEW c, NEW m, NEW actor, NEW k, Moving(s, rows, c, m, actor, k)
      PROVE  NoRoute(s)
  <2> DEFINE P == TransitionEffects(c, m, actor)
  <2>1. c \in Case /\ m \in Case /\ actor \in Actors /\ Left(s, P, k)
    BY <1>4 DEF Moving
  <2>2. P \in Seq(Effect) /\ \A n \in 1..Len(P) : P[n].kind # "route"
    BY <2>1, PlansTyped, MoveKinds
  <2> HIDE DEF P
  <2> QED
    BY <1>2, <2>1, <2>2
<1>5. ASSUME NEW c, NEW actor, NEW to, Refusing(s, rows, c, actor, to)
      PROVE  NoRoute(s)
  <2> DEFINE a == Audit(c, "transition", actor, c.state, to, "rejected", {})
  <2>1. s = << a >> /\ a.kind # "route"
    BY <1>5 DEF Refusing, Audit
  <2> HIDE DEF a
  <2> QED
    BY <2>1 DEF NoRoute
<1> QED
  BY <1>1, <1>3, <1>4, <1>5

(* A handler that is about to tell of an evaluation owes nothing else. *)
LEMMA OwesNothing ==
    ASSUME NEW s \in Seq(Effect), NEW rows, NEW o, Owing(s, rows, o), s # << >>,
           Head(s).kind = "record", Head(s).event.action = "evaluate"
    PROVE  o = {}
<1>1. ASSUME NEW c, NEW m, NEW actor, NEW k, Moving(s, rows, c, m, actor, k)
      PROVE  FALSE
  <2> DEFINE P == TransitionEffects(c, m, actor)
             a == Audit(m, "transition", actor, c.state, m.state, "allowed", {})
  <2>1. c \in Case /\ m \in Case /\ actor \in Actors /\ Left(s, P, k)
    BY <1>1 DEF Moving
  <2>2. P \in Seq(Effect)
    BY <2>1, PlansTyped
  <2>3. k + 1 \in 1..Len(P) /\ Head(s) = P[k + 1]
    BY <2>1, <2>2, LeftStep
  <2>4. P[k + 1] = a
    BY <2>1, <2>3, MoveKinds
  <2> QED
    BY <2>3, <2>4 DEF Audit
<1> QED
  BY <1>1 DEF Owing

LEMMA ToldLater ==
    ASSUME NEW t \in Seq(CaseAuditEvent), NEW e, NEW u, u = t \/ Grows(t, e, u)
    PROVE  /\ \A id, m : MoverTold(t, id, m) => MoverTold(u, id, m)
           /\ \A rs : Told(rs, t) => Told(rs, u)
           /\ \A s : RoutesTold(s, t) => RoutesTold(s, u)
<1>1. \A id, m : MoverTold(t, id, m) => MoverTold(u, id, m)
  BY ToldStays
<1> QED
  BY <1>1 DEF Told, RoutesTold

LEMMA TailTold ==
    ASSUME NEW s \in Seq(Effect), s # << >>, NEW t, RoutesTold(s, t)
    PROVE  RoutesTold(Tail(s), t)
<1> SUFFICES ASSUME NEW i \in DOMAIN Tail(s), Tail(s)[i].kind = "route"
             PROVE  MoverTold(t, Tail(s)[i].review.case_ref, Tail(s)[i].review.maker)
  BY DEF RoutesTold
<1>1. i + 1 \in DOMAIN s /\ Tail(s)[i] = s[i + 1]
  OBVIOUS
<1> QED
  BY <1>1 DEF RoutesTold

LEMMA OneMoreTold ==
    ASSUME NEW rs \in Seq(Review), NEW r, NEW t, Told(rs, t), MoverTold(t, r.case_ref, r.maker)
    PROVE  Told(Append(rs, r), t)
<1> SUFFICES ASSUME NEW i \in DOMAIN Append(rs, r)
             PROVE  MoverTold(t, Append(rs, r)[i].case_ref, Append(rs, r)[i].maker)
  BY DEF Told
<1>1. /\ i \in 1..(Len(rs) + 1)
      /\ Append(rs, r)[i] = IF i = Len(rs) + 1 THEN r ELSE rs[i]
      /\ i # Len(rs) + 1 => i \in DOMAIN rs
  OBVIOUS
<1> QED
  BY <1>1 DEF Told

(* The evaluation that is told first is the one that the review is about. *)
LEMMA EvaluationTold ==
    ASSUME MInv, failures = 0, NEW w \in Workers, Perform(w), Workers = {w},
           NEW c, NEW actor, NEW findings, NEW k,
           Evaluating(todo[w], cases, c, actor, findings, k)
    PROVE  Told(reviews', trail') /\ PlanTold(todo'[w], trail')
<1> DEFINE P == EvaluateEffects(c, actor, findings)
           e == Head(todo[w])
<1>1. /\ c \in cases /\ c \in Case /\ actor \in Actors /\ findings \in SUBSET CaseFindings
      /\ Left(todo[w], P, k)
  BY DEF Evaluating, MInv, RInv, SInv, TypeOK
<1>2. P \in Seq(Effect)
  BY <1>1, PlansTyped
<1>3. Doing(w, e.kind) /\ TypeOK /\ todo[w] \in Seq(Effect) /\ todo[w] # << >>
  BY EffectOf DEF MInv, RInv, SInv, TypeOK, Doing
<1>4. /\ k \in Nat /\ k + 1 \in 1..Len(P) /\ e = P[k + 1] /\ Left(todo'[w], P, k + 1)
      /\ todo'[w] = Tail(todo[w])
  BY <1>1, <1>2, <1>3, HeadIsNext
<1>5. /\ e.kind = "record" => e.event.case_id = c.case_id /\ e.event.action = "evaluate"
      /\ e.kind = "record" <=> k + 1 = 1
  BY <1>4, EvaluateKinds
<1>6. /\ trail' = IF e.kind = "record" THEN Append(trail, e.event) ELSE trail
      /\ reviews' = IF e.kind = "route" THEN Append(reviews, e.review) ELSE reviews
  BY EffectOf
<1>7. /\ trail \in Seq(CaseAuditEvent) /\ reviews \in Seq(Review)
      /\ Told(reviews, trail) /\ PlanTold(todo[w], trail)
  BY <1>3 DEF MInv, TypeOK
<1>8. CASE e.kind = "record"
  <2>1. k = 0 /\ reviews' = reviews
    BY <1>4, <1>5, <1>6, <1>8
  <2>2. Grows(trail, e.event, trail')
    BY <1>6, <1>7, <1>8, AppendGrows
  <2>3. Told(reviews', trail')
    BY <1>7, <2>1, <2>2, ToldLater
  <2>4. Replays(c, trail, 0, 0)
    <3>1. PICK o : Owing(todo[w], cases, o) /\ Replayed(cases, trail, o, failures)
      BY DEF MInv, RInv, Accounted
    <3>2. o = {}
      BY <1>3, <1>5, <1>8, <3>1, OwesNothing
    <3> QED
      BY <1>1, <3>1, <3>2 DEF Replayed, Owed
  <2>5. ASSUME NEW i \in DOMAIN todo'[w], todo'[w][i].kind = "route"
        PROVE  MoverTold(trail', todo'[w][i].review.case_ref, todo'[w][i].review.maker)
    <3>1. /\ Len(P) \in Nat /\ i \in 1..Len(todo'[w]) /\ Len(todo'[w]) = Len(P) - 1
          /\ todo'[w][i] = P[i + 1]
      <4>1. todo'[w] \in Seq(Effect)
        BY <1>3, <1>4
      <4> HIDE DEF P
      <4> QED
        BY <1>2, <1>4, <2>1, <4>1 DEF Left
    <3>2. /\ RequiresHumanReview(c, findings)
          /\ P[1] = Audit(c, "evaluate", actor, c.state, c.state, "escalated", findings)
          /\ P[i + 1] = Route(c, findings)
      <4>1. i + 1 \in 1..Len(P) /\ i + 1 # 1
        BY <3>1
      <4>2. Len(P) # 1
        BY <3>1, <4>1
      <4>3. /\ RequiresHumanReview(c, findings) /\ Len(P) = 3
            /\ P[1] = Audit(c, "evaluate", actor, c.state, c.state, "escalated", findings)
            /\ P[2] = Emit("case.escalated", c) /\ P[3] = Route(c, findings)
        BY <4>2, EvaluatePlaces
      <4>4. P[2].kind # "route"
        BY <4>3 DEF Emit
      <4>5. i + 1 = 3
        <5> HIDE DEF P
        <5> QED
          BY <2>5, <3>1, <4>1, <4>3, <4>4
      <4> QED
        BY <4>3, <4>5
    <3>3. e.event.case_id = c.case_id /\ e.event.decision = "escalated"
      <4>1. e = P[1]
        BY <1>4, <2>1
      <4> HIDE DEF P, e
      <4> QED
        BY <3>2, <4>1 DEF Audit
    <3>4. MoverTold(trail', c.case_id, LastOf(c))
      BY <1>1, <1>7, <2>2, <2>4, <3>3, ToldNext
    <3>5. todo'[w][i].review.case_ref = c.case_id /\ todo'[w][i].review.maker = LastOf(c)
      <4>1. todo'[w][i] = Route(c, findings)
        BY <3>1, <3>2
      <4> QED
        BY <4>1 DEF Route, LastOf
    <3> QED
      BY <3>4, <3>5
  <2> QED
    BY <2>3, <2>5 DEF PlanTold, RoutesTold
<1>9. CASE e.kind # "record"
  <2>1. trail' = trail /\ RoutesTold(todo[w], trail)
    BY <1>3, <1>6, <1>7, <1>9 DEF PlanTold
  <2>2. PlanTold(todo'[w], trail')
    BY <1>3, <1>4, <2>1, TailTold DEF PlanTold
  <2>3. e.kind = "route" => MoverTold(trail, e.review.case_ref, e.review.maker)
    <3>1. 1 \in DOMAIN todo[w] /\ todo[w][1] = e
      BY <1>3
    <3> HIDE DEF e
    <3> QED
      BY <2>1, <3>1 DEF RoutesTold
  <2>4. Told(reviews', trail')
    <3> HIDE DEF e
    <3> QED
      BY <1>6, <1>7, <2>1, <2>3, OneMoreTold
  <2> QED
    BY <2>2, <2>4
<1> QED
  BY <1>8, <1>9

LEMMA MakersPerform ==
    ASSUME MInv, failures = 0, NEW w \in Workers, Perform(w), Workers = {w}
    PROVE  Told(reviews', trail') /\ PlanTold(todo'[w], trail')
<1> DEFINE e == Head(todo[w])
<1>1. /\ TypeOK /\ SInv /\ todo[w] \in Seq(Effect) /\ todo[w] # << >>
      /\ trail \in Seq(CaseAuditEvent) /\ Told(reviews, trail)
      /\ todo'[w] = Tail(todo[w])
  BY EffectOf DEF MInv, RInv, SInv, TypeOK, Doing
<1>2. Progress(todo[w], cases)
  BY <1>1 DEF SInv
<1>3. CASE NoRoute(todo[w])
  <2>1. e.kind # "route"
    <3>1. 1 \in DOMAIN todo[w] /\ todo[w][1] = e
      BY <1>1
    <3> QED
      BY <1>3, <3>1 DEF NoRoute
  <2>2. NoRoute(todo'[w])
    <3> SUFFICES ASSUME NEW i \in DOMAIN Tail(todo[w]) PROVE Tail(todo[w])[i].kind # "route"
      BY <1>1 DEF NoRoute
    <3>1. i + 1 \in DOMAIN todo[w] /\ Tail(todo[w])[i] = todo[w][i + 1]
      BY <1>1
    <3> QED
      BY <1>3, <3>1 DEF NoRoute
  <2>3. /\ reviews' = reviews
        /\ trail' = IF e.kind = "record" THEN Append(trail, e.event) ELSE trail
    BY <2>1, EffectOf
  <2>4. trail' = trail \/ Grows(trail, e.event, trail')
    <3> HIDE DEF e
    <3> QED
      BY <1>1, <2>3, AppendGrows
  <2> QED
    BY <1>1, <2>2, <2>3, <2>4, ToldLater, NothingToTell
<1>4. ASSUME NEW c, NEW actor, NEW findings, NEW k,
             Evaluating(todo[w], cases, c, actor, findings, k)
      PROVE  Told(reviews', trail') /\ PlanTold(todo'[w], trail')
  BY <1>4, EvaluationTold
<1> QED
  BY <1>1, <1>2, <1>3, <1>4, OthersRouteNothing DEF Progress

LEMMA MakersInductive == ASSUME Serial, MInv, [Next]_vars PROVE MInv'
<1>1. PICK w : w \in Workers /\ Workers = {w}
  BY DEF Serial
<1>2. RInv' /\ RInv /\ SInv
  BY ReplayInductive DEF MInv, RInv
<1>3. TypeOK /\ TypeOK' /\ todo'[w] \in Seq(Effect)
  BY <1>1, <1>2 DEF RInv, SInv, TypeOK
<1>4. ASSUME failures' = 0 => Told(reviews', trail') /\ PlanTold(todo'[w], trail')
      PROVE  MInv'
  BY <1>1, <1>2, <1>4 DEF MInv
<1>5. failures = 0 => Told(reviews, trail) /\ PlanTold(todo[w], trail)
  BY <1>1 DEF MInv
<1>6. CASE Perform(w)
  <2>1. failures' = failures
    BY <1>1, <1>6, EffectOf DEF Doing
  <2> QED
    BY <1>1, <1>4, <1>6, <2>1, MakersPerform
<1>7. CASE CaseNotFound(w) \/ TransitionCase(w) \/ RefuseTransition(w) \/ EvaluateCase(w)
  <2>1. /\ UNCHANGED <<ports, failures>>
        /\ \/ todo'[w] = << >>
           \/ \E c, m, actor : Moving(todo'[w], cases', c, m, actor, 0)
           \/ \E c, actor, to : Refusing(todo'[w], cases', c, actor, to)
           \/ \E c, actor, findings : Evaluating(todo'[w], cases', c, actor, findings, 0)
    BY <1>1, <1>2, <1>7, SerialServe
  <2>2. ASSUME NEW c, NEW actor, NEW findings, Evaluating(todo'[w], cases', c, actor, findings, 0)
        PROVE  PlanTold(todo'[w], trail')
    <3> DEFINE P == EvaluateEffects(c, actor, findings)
    <3>1. c \in Case /\ actor \in Actors /\ findings \in SUBSET CaseFindings /\ Left(todo'[w], P, 0)
      BY <1>3, <2>2 DEF Evaluating, TypeOK
    <3>2. P \in Seq(Effect)
      BY <3>1, PlansTyped
    <3>3. todo'[w] # << >> => 0 + 1 \in 1..Len(P) /\ Head(todo'[w]) = P[0 + 1]
      BY <1>3, <3>1, <3>2, LeftStep
    <3>4. todo'[w] # << >> => Head(todo'[w]).kind = "record"
      <4> SUFFICES ASSUME todo'[w] # << >> PROVE Head(todo'[w]).kind = "record"
        OBVIOUS
      <4>1. 1 \in 1..Len(P) /\ Head(todo'[w]) = P[1]
        BY <3>3
      <4> QED
        BY <4>1, EvaluateKinds
    <3> QED
      BY <3>4 DEF PlanTold
  <2>3. PlanTold(todo'[w], trail')
    BY <1>3, <2>1, <2>2, OthersRouteNothing, NothingToTell
  <2> QED
    BY <1>4, <1>5, <2>1, <2>3 DEF ports
<1>8. CASE OpenCase(w)
  <2>1. /\ UNCHANGED <<ports, failures>>
        /\ \E c, actor : Opening(todo'[w], cases', c, actor, 0)
    BY <1>1, <1>2, <1>8, SerialOpen
  <2>2. PlanTold(todo'[w], trail')
    BY <1>3, <2>1, OthersRouteNothing, NothingToTell
  <2> QED
    BY <1>4, <1>5, <2>1, <2>2 DEF ports
<1>9. CASE Tick \/ Ask(w) \/ TimerFires(w) \/ UNCHANGED vars
  <2>1. UNCHANGED <<cases, trail, reviews, todo, failures>>
    BY <1>1, <1>2, <1>9, SerialOthers
  <2> QED
    BY <1>4, <1>5, <2>1
<1>10. CASE Fail(w)
  <2>1. failures' = failures + 1 /\ failures \in Nat
    BY <1>3, <1>10 DEF Fail, TypeOK
  <2>2. failures' # 0
    BY <2>1
  <2> QED
    BY <1>4, <2>2
<1> QED
  BY <1>1, <1>6, <1>7, <1>8, <1>9, <1>10 DEF Next, Serve

LEMMA MakersInvariance == ASSUME Serial PROVE Spec => [](failures = 0 => Told(reviews, trail))
<1> DEFINE Makers == failures = 0 => Told(reviews, trail) /\ \A w \in Workers : PlanTold(todo[w], trail)
<1>1. Init => Makers
  <2> SUFFICES ASSUME Init
               PROVE  Told(reviews, trail) /\ \A w \in Workers : PlanTold(todo[w], trail)
    OBVIOUS
  <2>1. reviews = << >> /\ \A w \in Workers : todo[w] = << >>
    BY DEF Init
  <2>2. ASSUME NEW w \in Workers PROVE PlanTold(todo[w], trail)
    BY <2>1 DEF PlanTold
  <2> QED
    BY <2>1, <2>2 DEF Told
<1>2. RInv /\ Makers /\ [Next]_vars => Makers'
  BY MakersInductive DEF MInv
<1>3. Makers => (failures = 0 => Told(reviews, trail))
  OBVIOUS
<1>4. Spec => []RInv
  BY ReplayInvariance
<1> QED
  BY <1>1, <1>2, <1>3, <1>4, PTL DEF Spec

-----------------------------------------------------------------------------
(* Who is the maker of a review, and who is not among its approvers. *)

(* The reviews are those that were handed over, and neither a disposition  *)
(* that is under way nor one that is put makes it another's.               *)
EyesInv ==
    /\ \A s \in store : OtherEyes(s)
    /\ \A w \in Workers : call[w].step = "put" =>
         /\ OtherEyes(call[w].item)
         /\ \A s \in store : s.review_id = call[w].item.review_id => s.maker = call[w].item.maker
    /\ \A s \in store : \A id : << s.review_id, id >> \in about =>
         \E n \in DOMAIN reviews : reviews[n].case_ref = id /\ reviews[n].maker = s.maker

(* A hand-off's review has its maker, and nobody has approved it. *)
LEMMA HandOverEyes ==
    ASSUME TypeOK, DeskInv, EyesInv, NEW w \in Workers, HandOver(w)
    PROVE  EyesInv'
<1> DEFINE r    == Head(todo[w]).review
           new  == CHOOSE i \in Console!FreshIds : TRUE
           item == ReviewOf(r, new)
<1>1. new \in Console!FreshIds
  BY DEF HandOver
<1>2. item.review_id = new /\ item.maker = r.maker /\ OtherEyes(item)
  <2>1. /\ item.review_id = new /\ item.maker = r.maker /\ item.approvals = << >>
        /\ {"maker", "approvals"} \subseteq DOMAIN item
    BY DEF ReviewOf, Console!NewItem, Console!WithEffectiveRouting
  <2> HIDE DEF item
  <2> QED
    BY <2>1 DEF OtherEyes, Console!Approvers, Console!Range
<1>3. /\ store' = Console!Put(store, item)
      /\ about' = about \cup {<< new, r.case_ref >>}
      /\ call' = [call EXCEPT ![w] = Console!Recording(Console!SubmissionSignOff(item))]
      /\ reviews' = Append(reviews, r)
  BY DEF HandOver, RouteToReview
<1> HIDE DEF item, new, r
<1>4. \A s \in store : s.review_id # new
  BY <1>1 DEF Console!FreshIds
<1>5. store' = store \cup {item}
  BY <1>2, <1>3, <1>4 DEF Console!Put, Console!SameRow
<1>6. call'[w].step # "put" /\ \A v \in Workers \ {w} : call'[v] = call[v]
  BY <1>3 DEF DeskInv, Console!Recording
<1>7. /\ reviews \in Seq(Review) /\ DOMAIN reviews' = 1..(Len(reviews) + 1)
      /\ DOMAIN reviews = 1..Len(reviews) /\ Len(reviews) \in Nat
      /\ reviews'[Len(reviews) + 1] = r
      /\ \A n \in DOMAIN reviews : n \in DOMAIN reviews' /\ reviews'[n] = reviews[n]
  BY <1>3 DEF TypeOK
<1>8. \A s \in store' : OtherEyes(s)
  BY <1>2, <1>5 DEF EyesInv
<1>9. ASSUME NEW v \in Workers, call'[v].step = "put"
      PROVE  /\ OtherEyes(call'[v].item)
             /\ \A s \in store' : s.review_id = call'[v].item.review_id => s.maker = call'[v].item.maker
  <2>1. call'[v] = call[v] /\ call[v].step = "put"
    BY <1>6, <1>9
  <2>2. call[v].item.review_id # new
    BY <1>4, <2>1 DEF DeskInv
  <2> QED
    BY <1>2, <1>5, <2>1, <2>2 DEF EyesInv
<1>10. ASSUME NEW s \in store', NEW id, << s.review_id, id >> \in about'
       PROVE  \E n \in DOMAIN reviews' : reviews'[n].case_ref = id /\ reviews'[n].maker = s.maker
  <2>1. CASE << s.review_id, id >> \in about
    <3>1. \E t \in store : t.review_id = s.review_id
      BY <2>1 DEF DeskInv
    <3>2. s \in store
      BY <1>2, <1>4, <1>5, <3>1
    <3> QED
      BY <1>7, <2>1, <3>2 DEF EyesInv
  <2>2. CASE s.review_id = new /\ id = r.case_ref
    <3>1. s = item
      BY <1>4, <1>5, <2>2
    <3>2. Len(reviews) + 1 \in DOMAIN reviews'
      BY <1>7
    <3> QED
      BY <1>2, <1>7, <2>2, <3>1, <3>2
  <2> QED
    BY <1>3, <1>10, <2>1, <2>2
<1> QED
  BY <1>8, <1>9, <1>10 DEF EyesInv

(* A disposition leaves the makers as they are. *)
LEMMA DeskEyes ==
    ASSUME DeskInv, EyesInv, NEW w \in Workers, Desk(w)
    PROVE  EyesInv'
<1>1. UNCHANGED about /\ UNCHANGED reviews
  BY DEF Desk, vars, ports
<1>2. CASE Console!DisposeAllowed(w)
  <2>1. PICK item, e : /\ call' = [call EXCEPT ![w] = Console!Putting(item, e)]
                       /\ store' = store
                       /\ \E r \in store : /\ r.review_id = item.review_id /\ r.tenant = item.tenant
                                           /\ OtherEyes(r) => OtherEyes(item) /\ item.maker = r.maker
    BY <1>2, OutcomeOf
  <2>2. OtherEyes(item) /\ \A s \in store : s.review_id = item.review_id => s.maker = item.maker
    BY <2>1 DEF EyesInv, DeskInv
  <2>3. \A v \in Workers : call'[v] = IF v = w THEN Console!Putting(item, e) ELSE call[v]
    BY <2>1 DEF DeskInv
  <2>4. Console!Putting(item, e).item = item
    BY DEF Console!Putting
  <2> QED
    BY <1>1, <2>1, <2>2, <2>3, <2>4 DEF EyesInv
<1>3. CASE Console!DisposeDenied(w) \/ Console!Record(w) \/ Console!Fail(w)
  <2>1. /\ store' = store /\ call'[w].step # "put" /\ \A v \in Workers \ {w} : call'[v] = call[v]
    <3>1. CASE Console!DisposeDenied(w)
      <4>1. PICK e : store' = store /\ call' = [call EXCEPT ![w] = Console!Recording(e)]
        BY <3>1 DEF Console!DisposeDenied
      <4> QED
        BY <4>1 DEF DeskInv, Console!Recording
    <3>2. CASE Console!Record(w) \/ Console!Fail(w)
      <4>1. store' = store /\ call' = [call EXCEPT ![w] = Console!Idle]
        BY <3>2 DEF Console!Record, Console!Fail
      <4> QED
        BY <4>1 DEF DeskInv, Console!Idle
    <3> QED
      BY <1>3, <3>1, <3>2
  <2> QED
    BY <1>1, <2>1 DEF EyesInv
<1>4. CASE Console!PutOutcome(w)
  <2> DEFINE item == call[w].item
  <2>1. /\ OtherEyes(item) /\ \A s \in store : s.review_id = item.review_id => s.maker = item.maker
        /\ \E s \in store : s.review_id = item.review_id
    BY <1>4 DEF Console!PutOutcome, EyesInv, DeskInv
  <2>2. store' = Console!Put(store, item) /\ call' = [call EXCEPT ![w] = Console!Recording(call[w].event)]
    BY <1>4 DEF Console!PutOutcome
  <2>3. call'[w].step # "put" /\ \A v \in Workers \ {w} : call'[v] = call[v]
    BY <2>2 DEF DeskInv, Console!Recording
  <2> HIDE DEF item
  <2>4. \A s \in store' : s = item \/ s \in store
    BY <2>2 DEF Console!Put
  <2>5. \A s \in store' : \E t \in store : t.review_id = s.review_id /\ t.maker = s.maker
    BY <2>1, <2>4
  <2>6. \A s \in store' : OtherEyes(s)
    BY <2>1, <2>4 DEF EyesInv
  <2>7. ASSUME NEW v \in Workers, call'[v].step = "put"
        PROVE  /\ OtherEyes(call'[v].item)
               /\ \A s \in store' : s.review_id = call'[v].item.review_id => s.maker = call'[v].item.maker
    <3>1. call'[v] = call[v] /\ call[v].step = "put"
      BY <2>3, <2>7
    <3> QED
      BY <2>5, <3>1 DEF EyesInv
  <2>8. \A s \in store' : \A id : << s.review_id, id >> \in about' =>
          \E n \in DOMAIN reviews' : reviews'[n].case_ref = id /\ reviews'[n].maker = s.maker
    BY <1>1, <2>5 DEF EyesInv
  <2> QED
    BY <2>6, <2>7, <2>8 DEF EyesInv
<1> QED
  BY <1>2, <1>3, <1>4 DEF Desk, Console!Serve

LEMMA EyesInvariance == System => []EyesInv
<1>1. SystemInit => EyesInv
  <2> SUFFICES ASSUME SystemInit PROVE EyesInv
    OBVIOUS
  <2>1. store = {} /\ call = [w \in Workers |-> Console!Idle]
    BY DEF SystemInit
  <2>2. \A w \in Workers : call[w].step # "put"
    BY <2>1 DEF Console!Idle
  <2> QED
    BY <2>1, <2>2 DEF EyesInv
<1>2. TypeOK /\ DeskInv /\ EyesInv /\ [SystemNext]_system => EyesInv'
  <2> SUFFICES ASSUME TypeOK, DeskInv, EyesInv, [SystemNext]_system PROVE EyesInv'
    OBVIOUS
  <2>1. ASSUME NEW w \in Workers, HandOver(w)
        PROVE  EyesInv'
    BY <2>1, HandOverEyes
  <2>2. ASSUME NEW w \in Workers, Desk(w)
        PROVE  EyesInv'
    BY <2>2, DeskEyes
  <2>3. ASSUME UNCHANGED desk, UNCHANGED reviews
        PROVE  EyesInv'
    BY <2>3 DEF EyesInv, desk
  <2>4. ASSUME NEW w \in Workers, Engine(w)
        PROVE  UNCHANGED desk /\ UNCHANGED reviews
    BY <2>4, EngineHandsNothing
  <2>5. CASE Tick /\ UNCHANGED desk
    BY <2>3, <2>5 DEF Tick, ports
  <2>6. CASE UNCHANGED system
    BY <2>3, <2>6 DEF system, vars, ports
  <2> QED
    BY <2>1, <2>2, <2>3, <2>4, <2>5, <2>6 DEF SystemNext
<1>3. System => [](DeskInv /\ OneForEach)
  BY EachHandOffOpensOne
<1>4. System => []TypeOK
  BY KeepsEngine, WellTyped, PTL
<1> QED
  BY <1>1, <1>2, <1>3, <1>4, PTL DEF System

(* With one handler at a time, and none dead, the maker of an escalated    *)
(* case's review is whoever the trail says moved the case last before it   *)
(* was escalated, and he does not approve it.                              *)
THEOREM MoversAreMakers == ASSUME Serial PROVE System => []MoversDoNotCheck
<1>1. EyesInv /\ (failures = 0 => Told(reviews, trail)) => MoversDoNotCheck
  <2> SUFFICES ASSUME EyesInv, failures = 0, Told(reviews, trail),
                      NEW id \in CaseIds, NEW item \in ReviewsOf(id)
               PROVE  \E j \in EscalatedAt(id) :
                        LastMover(j) = item.maker /\ LastMover(j) \notin Console!Approvers(item)
    BY DEF MoversDoNotCheck
  <2>1. item \in store /\ << item.review_id, id >> \in about
    BY DEF ReviewsOf
  <2>2. PICK n \in DOMAIN reviews : reviews[n].case_ref = id /\ reviews[n].maker = item.maker
    BY <2>1 DEF EyesInv
  <2>3. PICK j \in DOMAIN trail : /\ trail[j].case_id = id /\ trail[j].decision = "escalated"
                                  /\ MoverIn(trail, j) = item.maker
    BY <2>2 DEF Told, MoverTold
  <2>4. LastMover(j) = MoverIn(trail, j)
    BY DEF LastMover, MoverIn, MovesAt, MovesIn, IsMove
  <2>5. item.maker \notin Console!Approvers(item)
    BY <2>1 DEF EyesInv, OtherEyes
  <2> QED
    BY <2>3, <2>4, <2>5 DEF EscalatedAt
<1>2. System => [](failures = 0 => Told(reviews, trail))
  BY KeepsEngine, MakersInvariance, PTL
<1> QED
  BY <1>1, <1>2, EyesInvariance, PTL
=============================================================================
