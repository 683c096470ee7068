----------------------------- MODULE Escalation -----------------------------
(***************************************************************************)
(* The case workflow and the review console in one service: what a breach  *)
(* or a stall hands to a human, and what becomes of it there.              *)
(*                                                                         *)
(* The router submits an escalated case to the console in the same process *)
(* and on the same thread (adapters/review_router.py), so the handler of   *)
(* an evaluation ends with the console's own two writes:                   *)
(*                                                                         *)
(*   case handler ... record, publish, HandOver --Console!Record--> idle   *)
(*   idle --Console!DisposeAllowed--> put --> record --> idle              *)
(*                                                                         *)
(* The engine's actions are CaseWorkflow's, the console's are those of     *)
(* ReviewConsole; a thread serves one of the two at a time.                *)
(***************************************************************************)
EXTENDS CaseWorkflow

CONSTANTS
    Groups, NoGroup, SourceKeys, NoKey, NoChecker,
    ReviewIds,      \* the uuids of reviews, interchangeable
    Checkers,       \* principals that dispose of reviews
    Policy,         \* the routing policy in service
    MaxSignOffs     \* bound: dispositions stop when the trail is this long

VARIABLES
    store, signoffs, call,  \* the console's, as in ReviewConsole
    lost,       \* handlers that died in the console
    about       \* the case_ref of each review, <<review id, case id>>

Console == INSTANCE ReviewConsole WITH
    Actors     <- Actors \cup {CaseEngineId},
    Principals <- Checkers,
    Policies   <- {Policy},
    Requests   <- [severity : Severities, required : {1}, sod_group : {NoGroup}],
    policy     <- [w \in Workers |-> Policy],
    failures   <- lost

ASSUME EscalationAssumption ==
    /\ NoGroup \notin Groups /\ NoKey \notin SourceKeys
    /\ NoChecker \notin Actors \cup {CaseEngineId}
    /\ Policy \in Console!RoutingPolicy
    /\ Checkers \subseteq Console!Principal
    /\ MaxSignOffs \in Nat

desk   == <<store, signoffs, call, lost, about>>
system == <<vars, desk>>

SystemInit ==
    /\ Init
    /\ store = {} /\ signoffs = << >> /\ about = {}
    /\ call = [w \in Workers |-> Console!Idle]
    /\ lost = 0

-----------------------------------------------------------------------------
(* Mutant: whoever moved the case, the engine is the maker of its review.  *)
ReviewOf_ByEngine(r, id) ==
    Console!NewItem(Policy, id, r.tenant, CaseEngineId,
        [severity |-> r.severity, required |-> 1, sod_group |-> NoGroup], NoKey)

(* Mutant: the router builds the item itself, without the active floor.    *)
ReviewOf_AsAsked(r, id) ==
    [ review_id |-> id, tenant |-> r.tenant, maker |-> r.maker, severity |-> r.severity,
      required |-> 1, sod_group |-> NoGroup, source_key |-> NoKey,
      state |-> "pending", approvals |-> << >> ]

(* One approval is asked for, no group is segregated; the floor may raise  *)
(* the former.                                                             *)
ReviewOf(r, id) ==
    Console!NewItem(Policy, id, r.tenant, r.maker,
        [severity |-> r.severity, required |-> 1, sod_group |-> NoGroup], NoKey)

(* Mutant: an open review of the case stands for the new one.              *)
HandOver_Once(w) ==
    /\ call[w] = Console!Idle
    /\ Console!FreshIds # {}
    /\ RouteToReview(w)
    /\ LET r    == Head(todo[w]).review
           id   == CHOOSE i \in Console!FreshIds : TRUE
           item == ReviewOf(r, id)
       IN  IF \E s \in store : <<s.review_id, r.case_ref>> \in about
             THEN UNCHANGED <<store, call, about>>
             ELSE /\ store' = Console!Put(store, item)
                  /\ about' = about \cup {<<id, r.case_ref>>}
                  /\ call' = [call EXCEPT ![w] =
                       Console!Recording(Console!SubmissionSignOff(item))]
    /\ UNCHANGED <<signoffs, lost>>

(* route(): a new review under a fresh id, on every hand-off.              *)
HandOver(w) ==
    /\ call[w] = Console!Idle
    /\ Console!FreshIds # {}
    /\ RouteToReview(w)
    /\ LET r    == Head(todo[w]).review
           id   == CHOOSE i \in Console!FreshIds : TRUE
           item == ReviewOf(r, id)
       IN  /\ store' = Console!Put(store, item)
           /\ about' = about \cup {<<id, r.case_ref>>}
           /\ call' = [call EXCEPT ![w] = Console!Recording(Console!SubmissionSignOff(item))]
    /\ UNCHANGED <<signoffs, lost>>

EngineServes(w) ==
    \/ CaseNotFound(w) \/ TransitionCase(w) \/ RefuseTransition(w) \/ EvaluateCase(w)
    \/ PutCase(w) \/ ScheduleTimer(w) \/ CancelTimer(w) \/ Publish(w) \/ Record(w)

(* A thread of the engine, which no review in the console keeps busy.      *)
Engine(w) ==
    /\ call[w] = Console!Idle
    /\ \/ OpenCase(w) \/ Ask(w) \/ EngineServes(w) \/ TimerFires(w)
       \/ Fail(w) /\ failures + lost < MaxFailures
    /\ UNCHANGED desk

(* A thread of the console, which no case keeps busy.                      *)
Desk(w) ==
    /\ IsIdle(w)
    /\ \/ Console!DisposeAllowed(w) \/ Console!DisposeDenied(w)
       \/ Console!Serve(w)
       \/ Console!Fail(w) /\ failures + lost < MaxFailures
    /\ UNCHANGED <<vars, about>>

SystemNext ==
    \/ Tick /\ UNCHANGED desk
    \/ \E w \in Workers : Engine(w) \/ HandOver(w) \/ Desk(w)

System == SystemInit /\ [][SystemNext]_system

(* Handlers run to their end, time passes and the queue delivers.          *)
SystemServes(w) ==
    \/ call[w] = Console!Idle /\ EngineServes(w) /\ UNCHANGED desk
    \/ HandOver(w)
    \/ IsIdle(w) /\ Console!Serve(w) /\ UNCHANGED <<vars, about>>

FairSystem ==
    /\ System
    /\ WF_system(Tick /\ UNCHANGED desk)
    /\ \A w \in Workers :
         /\ WF_system(SystemServes(w))
         /\ WF_system(call[w] = Console!Idle /\ TimerFires(w) /\ UNCHANGED desk)

-----------------------------------------------------------------------------
(* To the console the router is one more producer: with the engine beside  *)
(* it, it does nothing that ReviewConsole does not allow, so that whatever *)
(* holds of the console's reviews holds of escalated cases (route).        *)
KeepsConsole == Console!Spec

ReviewsOf(id) == {item \in store : <<item.review_id, id>> \in about}

(* The actor of the last transition that the trail tells before entry j,   *)
(* or the engine.                                                          *)
LastMover(j) ==
    LET moves == {i \in MovesAt(trail[j].case_id) : i < j}
    IN  IF moves = {} THEN CaseEngineId ELSE trail[Max(moves)].actor

(* Four-eyes across the two services: the maker of an escalated case's     *)
(* review is whoever the trail says had made the last move when it was     *)
(* escalated, and he is not among those who approve it (evaluate_case      *)
(* takes the maker from the history, check_eligibility refuses him).       *)
MoversDoNotCheck ==
    failures = 0 =>
      \A id \in CaseIds : \A item \in ReviewsOf(id) : \E j \in EscalatedAt(id) :
        LastMover(j) = item.maker /\ LastMover(j) \notin Console!Approvers(item)

(* An evaluation that escalates opens one review of its own, of a case     *)
(* that has open ones too: a human sees each, and none is made up.  Only a *)
(* handler's death may lose one (evaluate_case, route).                    *)
EachEscalationIsReviewed ==
    \A id \in CaseIds :
      /\ Cardinality(ReviewsOf(id)) <= Escalations(id)
      /\ Quiescent => Escalations(id) <= Cardinality(ReviewsOf(id)) + failures

(* Every escalation in the trail comes to a review in the queue that has   *)
(* its submission on record, unless a handler dies (evaluate_case, route,  *)
(* submit).                                                                *)
Submitted(id) ==
    {item \in ReviewsOf(id) :
       \E i \in DOMAIN signoffs : Console!Submits(signoffs[i], item)}

EscalationsReachAHuman ==
    \A id \in CaseIds :
      Escalations(id) > Cardinality(Submitted(id))
        ~> (Escalations(id) = Cardinality(Submitted(id)) \/ failures + lost > 0)
=============================================================================
