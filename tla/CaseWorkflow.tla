---------------------------- MODULE CaseWorkflow ----------------------------
(***************************************************************************)
(* The case-workflow service: cases over the case store, their deadline    *)
(* timers, lifecycle events, audit trail and hand-off to human review,     *)
(* served by several request threads (domain/cases/workflow_service.py).   *)
(*                                                                         *)
(* A handler takes its stamp from the clock when it starts, then loads the *)
(* case, decides from that snapshot, and then writes to one port after     *)
(* another.  The decision leaves a list of effects; each effect is a step, *)
(* and other handlers, timers and the clock move in between:               *)
(*                                                                         *)
(*   idle --Ask--> asked --Transition, Refuse, Evaluate--> effects --> idle*)
(*   idle --OpenCase-------------------------------------> effects --> idle*)
(*                                                                         *)
(* A handler dies between two steps when a port raises or its instance is  *)
(* killed (Fail).  The route to the console is one effect here; its own    *)
(* two writes are ReviewConsole's Submit and Record.                       *)
(***************************************************************************)
EXTENDS CaseEngine

CONSTANTS
    Workers,            \* request threads, of one or of several instances
    Principals,         \* the verified principals that call the case API
    CallbackPrincipal,  \* whom the timers' callback is resolved to, or Nobody
    Nobody,             \* no principal: the callback is answered with a 401
    NoState,            \* the from_state of an "open" audit event
    TaskName,           \* a clock's name as it stands in the id of its timer's task
    Horizon,            \* bound: the last instant
    MaxRequests,        \* bound: requests by principals
    MaxFailures         \* bound: handlers that die half-way

Principal == [actor : Actors, tenant : Tenants]

ASSUME WorkflowAssumption ==
    /\ IsFiniteSet(Workers)
    /\ Principals \subseteq Principal
    /\ CallbackPrincipal \in Principal \cup {Nobody}
    /\ Nobody \notin Principal
    /\ NoState \notin States
    /\ DOMAIN TaskName = ClockNames
    /\ Horizon \in Nat /\ MaxRequests \in Nat /\ MaxFailures \in Nat

(* Those the service acts for: a principal, or the timers' callback. *)
Callers == Principals \cup ({CallbackPrincipal} \ {Nobody})

(* One handler at a time: requests that do not overlap. *)
Serial == \E w \in Workers : Workers = {w}

(* What a consumer may be expected to mean, and nothing checks: a case does *)
(* not open at its end, does not leave an end for a state that is none,    *)
(* and the tasks of its clocks have ids of their own.                      *)
OrderlyWorkflows ==
    \A type \in DOMAIN Definitions :
      LET d == Definitions[type]
      IN  /\ d.initial \notin d.terminal
          /\ \A from, to \in States :
               <<from, to>> \in d.transitions /\ from \in d.terminal => to \in d.terminal
          /\ \A i, j \in DOMAIN d.clocks :
               TaskName[d.clocks[i].name] = TaskName[d.clocks[j].name] => i = j

VARIABLES
    cases,      \* the rows of the case store
    timers,     \* the scheduled timers
    events,     \* the lifecycle events, in the order of publication
    trail,      \* the write-once audit trail, in the order of the writes
    reviews,    \* the cases routed into human review, in order
    now,        \* the clock
    asked,      \* each worker's request that is stamped and not decided
    todo,       \* the effects each worker has still to perform, in order
    requests, failures  \* counters of the bounds

vars == <<cases, timers, events, trail, reviews, now, asked, todo, requests, failures>>
ports == <<cases, timers, events, trail, reviews>>

-----------------------------------------------------------------------------
(* The ports.  A row and a timer are addressed by their ids: a second      *)
(* write replaces the first, and what is not there can be cancelled.       *)

SameCase(c, d)  == c.tenant = d.tenant /\ c.case_id = d.case_id
Put(rows, c)    == {r \in rows : ~SameCase(r, c)} \cup {c}

(* Mutant: the id alone finds the row. *)
Get_AnyTenant(rows, tenant, id) == {r \in rows : r.case_id = id}
Get(rows, tenant, id) == {r \in rows : r.tenant = tenant /\ r.case_id = id}

(* The id of a timer's task is made of the tenant, the case's uuid and the  *)
(* clock's name, which the task queue's alphabet and length may make that  *)
(* of another clock (_task_id); the local register keeps names as they are.*)
TimerAt(Instants) ==
    [tenant : Tenants, case_id : CaseIds, clock : ClockNames, fire_at : Instants]
Timer == TimerAt(Nat)
SameTimer(s, t) ==
    s.tenant = t.tenant /\ s.case_id = t.case_id /\ TaskName[s.clock] = TaskName[t.clock]
Schedule(ts, t) == {s \in ts : ~SameTimer(s, t)} \cup {t}

Cancel(ts, t)   == {s \in ts : ~SameTimer(s, t)}

CaseEvent == [type : {"case.opened", "case.transitioned", "case.escalated"},
              tenant : Tenants, case_id : CaseIds, state : States]

CaseDecisions == {"allowed", "escalated", "rejected"}

CaseAuditEvent ==
    [ action : {"open", "transition", "evaluate"}, case_id : CaseIds, tenant : Tenants,
      actor : Actors, from_state : States \cup {NoState}, to_state : States,
      decision : CaseDecisions, findings : SUBSET CaseFindings ]

Review == [ case_ref : CaseIds, tenant : Tenants, maker : Actors \cup {CaseEngineId},
            severity : Severities, findings : SUBSET CaseFindings ]

-----------------------------------------------------------------------------
(* Effects: one call of one port. *)

Store(c)     == [kind |-> "put", case |-> c]
Emit(type, c) ==
    [kind |-> "publish",
     event |-> [type |-> type, tenant |-> c.tenant, case_id |-> c.case_id, state |-> c.state]]
Audit(c, action, actor, from, to, decision, findings) ==
    [kind |-> "record",
     event |-> [ action |-> action, case_id |-> c.case_id, tenant |-> c.tenant,
                 actor |-> actor, from_state |-> from, to_state |-> to,
                 decision |-> decision, findings |-> findings ]]
Wake(kind, c, clock, at) ==
    [kind |-> kind,
     timer |-> [tenant |-> c.tenant, case_id |-> c.case_id, clock |-> clock, fire_at |-> at]]

Effect ==
    [kind : {"put"}, case : Case]
      \cup [kind : {"schedule", "cancel"}, timer : TimerAt(Nat \cup {NotStarted})]
      \cup [kind : {"publish"}, event : CaseEvent]
      \cup [kind : {"record"}, event : CaseAuditEvent]
      \cup [kind : {"route"}, review : Review]

(* One round of the loop for each clock, in definition order, with the due *)
(* instant that the clock has so far.                                      *)
ScheduleClocks(c, as_of) ==
    LET clocks == Definition(c).clocks
    IN  [i \in DOMAIN clocks |->
           Wake("schedule", c, clocks[i].name, Deadline(c, clocks[i], as_of).due_at)]

(* Mutant: the loop leaves after the first clock. *)
CancelClocks_FirstOnly(c) ==
    LET clocks == Definition(c).clocks
    IN  IF clocks = << >> THEN << >> ELSE << Wake("cancel", c, clocks[1].name, 0) >>

(* Mutant: the cancellation is addressed to the last state's clock. *)
CancelClocks_Skewed(c) ==
    LET clocks == Definition(c).clocks
    IN  [i \in DOMAIN clocks |-> Wake("cancel", c, clocks[i].start_state, 0)]

(* Every clock's timer is cancelled, whether or not it was scheduled. *)
CancelClocks(c) ==
    LET clocks == Definition(c).clocks
    IN  [i \in DOMAIN clocks |-> Wake("cancel", c, clocks[i].name, 0)]

(* The review's maker is whoever moved the case last. *)
Route(c, findings) ==
    [kind |-> "route",
     review |-> [ case_ref |-> c.case_id, tenant |-> c.tenant,
                  maker |-> IF c.history = << >> THEN CaseEngineId ELSE Last(c.history).actor,
                  severity |-> c.severity, findings |-> findings ]]

OpenEffects(c, actor) ==
    << Store(c) >> \o ScheduleClocks(c, c.opened_at)
      \o << Emit("case.opened", c),
            Audit(c, "open", actor, NoState, c.state, "allowed", {}) >>

(* Mutant: the trail tells of the transition in the state it leads to. *)
TransitionEffects_FromNew(c, moved, actor) ==
    << Store(moved) >> \o (IF IsTerminal(moved) THEN CancelClocks(moved) ELSE << >>)
      \o << Emit("case.transitioned", moved),
            Audit(moved, "transition", actor, moved.state, moved.state, "allowed", {}) >>

(* Mutant: every transition cancels the timers. *)
TransitionEffects_CancelAlways(c, moved, actor) ==
    << Store(moved) >> \o CancelClocks(moved)
      \o << Emit("case.transitioned", moved),
            Audit(moved, "transition", actor, c.state, moved.state, "allowed", {}) >>

TransitionEffects(c, moved, actor) ==
    << Store(moved) >> \o (IF IsTerminal(moved) THEN CancelClocks(moved) ELSE << >>)
      \o << Emit("case.transitioned", moved),
            Audit(moved, "transition", actor, c.state, moved.state, "allowed", {}) >>

(* Mutant: the case is routed before the trail tells of it. *)
EvaluateEffects_RouteFirst(c, actor, findings) ==
    IF RequiresHumanReview(c, findings)
      THEN << Route(c, findings), Emit("case.escalated", c),
              Audit(c, "evaluate", actor, c.state, c.state, "escalated", findings) >>
      ELSE << Audit(c, "evaluate", actor, c.state, c.state, "allowed", findings) >>

(* Mutant: an escalation is recorded and announced only. *)
EvaluateEffects_NotRouted(c, actor, findings) ==
    IF RequiresHumanReview(c, findings)
      THEN << Audit(c, "evaluate", actor, c.state, c.state, "escalated", findings),
              Emit("case.escalated", c) >>
      ELSE << Audit(c, "evaluate", actor, c.state, c.state, "allowed", findings) >>

EvaluateEffects(c, actor, findings) ==
    IF RequiresHumanReview(c, findings)
      THEN << Audit(c, "evaluate", actor, c.state, c.state, "escalated", findings),
              Emit("case.escalated", c), Route(c, findings) >>
      ELSE << Audit(c, "evaluate", actor, c.state, c.state, "allowed", findings) >>

-----------------------------------------------------------------------------

NotAsked == [what |-> "nothing"]

Request ==
    {NotAsked}
      \cup [what : {"transition"}, who : Principal, case_id : CaseIds, to : States, stamp : Nat]
      \cup [what : {"evaluate"}, who : Principal, case_id : CaseIds, stamp : Nat]

IsIdle(w) == asked[w] = NotAsked /\ todo[w] = << >>

FreshIds == {id \in CaseIds :
               /\ \A c \in cases : c.case_id # id
               /\ \A w \in Workers : \A i \in DOMAIN todo[w] :
                    todo[w][i].kind = "put" => todo[w][i].case.case_id # id}

Init ==
    /\ cases = {} /\ timers = {} /\ reviews = << >>
    /\ events = << >> /\ trail = << >>
    /\ now = 0
    /\ asked = [w \in Workers |-> NotAsked]
    /\ todo = [w \in Workers |-> << >>]
    /\ requests = 0 /\ failures = 0

(* POST /v1/cases: a fresh id, the actor and tenant of the principal. *)
OpenCase(w) ==
    /\ IsIdle(w) /\ requests < MaxRequests
    /\ \E p \in Principals, id \in FreshIds, type \in DOMAIN Definitions, s \in Severities :
         todo' = [todo EXCEPT ![w] = OpenEffects(NewCase(id, p.tenant, type, s, now), p.actor)]
    /\ requests' = requests + 1
    /\ UNCHANGED <<ports, now, asked, failures>>

(* A transition or an evaluation starts: the stamp is taken before the     *)
(* case is loaded.                                                         *)
Ask(w) ==
    /\ IsIdle(w) /\ requests < MaxRequests
    /\ \E p \in Principals, id \in CaseIds :
         \/ \E to \in States :
              asked' = [asked EXCEPT ![w] = [ what |-> "transition", who |-> p,
                                              case_id |-> id, to |-> to, stamp |-> now ]]
         \/ asked' = [asked EXCEPT ![w] = [ what |-> "evaluate", who |-> p,
                                            case_id |-> id, stamp |-> now ]]
    /\ requests' = requests + 1
    /\ UNCHANGED <<ports, now, todo, failures>>

Loaded(w) == Get(cases, asked[w].who.tenant, asked[w].case_id)

(* The request is decided: what is left of it are its effects. *)
Decide(w, effects) ==
    /\ asked' = [asked EXCEPT ![w] = NotAsked]
    /\ todo' = [todo EXCEPT ![w] = effects]
    /\ UNCHANGED <<ports, now, requests, failures>>

(* No such case in the caller's tenant: a 404. *)
CaseNotFound(w) ==
    /\ asked[w] # NotAsked
    /\ Loaded(w) = {}
    /\ Decide(w, << >>)

(* Mutant: any state may be moved to. *)
TransitionCase_Unchecked(w) ==
    /\ asked[w].what = "transition"
    /\ \E c \in Loaded(w) :
         LET r == asked[w]
         IN  Decide(w, TransitionEffects(c, Moved(c, r.to, r.who.actor, r.stamp), r.who.actor))

(* A legal transition. *)
TransitionCase(w) ==
    /\ asked[w].what = "transition"
    /\ \E c \in Loaded(w) :
         LET r == asked[w]
         IN  /\ IsLegal(c, r.to)
             /\ Decide(w, TransitionEffects(c, Moved(c, r.to, r.who.actor, r.stamp),
                                            r.who.actor))

(* An illegal transition: the refusal is recorded, then answered: a 409. *)
RefuseTransition(w) ==
    /\ asked[w].what = "transition"
    /\ \E c \in Loaded(w) :
         LET r == asked[w]
         IN  /\ ~IsLegal(c, r.to)
             /\ Decide(w, << Audit(c, "transition", r.who.actor, c.state, r.to, "rejected", {}) >>)

EvaluateCase(w) ==
    /\ asked[w].what = "evaluate"
    /\ \E c \in Loaded(w) :
         LET r == asked[w]
         IN  Decide(w, EvaluateEffects(c, r.who.actor, Findings(c, r.stamp)))

-----------------------------------------------------------------------------
(* The effects, each one call of a port. *)

Doing(w, kind) ==
    /\ todo[w] # << >>
    /\ Head(todo[w]).kind = kind
    /\ todo' = [todo EXCEPT ![w] = Tail(@)]
    /\ UNCHANGED <<now, asked, requests, failures>>

PutCase(w) ==
    /\ Doing(w, "put")
    /\ cases' = Put(cases, Head(todo[w]).case)
    /\ UNCHANGED <<timers, events, trail, reviews>>

(* A clock whose start state is ahead has no instant, and gets no timer. *)
ScheduleTimer(w) ==
    /\ Doing(w, "schedule")
    /\ LET t == Head(todo[w]).timer
       IN  timers' = IF t.fire_at = NotStarted THEN timers ELSE Schedule(timers, t)
    /\ UNCHANGED <<cases, events, trail, reviews>>

CancelTimer(w) ==
    /\ Doing(w, "cancel")
    /\ timers' = Cancel(timers, Head(todo[w]).timer)
    /\ UNCHANGED <<cases, events, trail, reviews>>

Publish(w) ==
    /\ Doing(w, "publish")
    /\ events' = Append(events, Head(todo[w]).event)
    /\ UNCHANGED <<cases, timers, trail, reviews>>

Record(w) ==
    /\ Doing(w, "record")
    /\ trail' = Append(trail, Head(todo[w]).event)
    /\ UNCHANGED <<cases, timers, events, reviews>>

RouteToReview(w) ==
    /\ Doing(w, "route")
    /\ reviews' = Append(reviews, Head(todo[w]).review)
    /\ UNCHANGED <<cases, timers, events, trail>>

(* A port raises or the instance dies: the rest is never done. *)
Fail(w) ==
    /\ ~IsIdle(w) /\ failures < MaxFailures
    /\ asked' = [asked EXCEPT ![w] = NotAsked]
    /\ todo' = [todo EXCEPT ![w] = << >>]
    /\ failures' = failures + 1
    /\ UNCHANGED <<ports, now, requests>>

-----------------------------------------------------------------------------
(* The clock, and the timers' callback.  A task is delivered after its     *)
(* instant and posts an evaluation of the case to the service, as whoever  *)
(* its credentials resolve to: the tenant header it carries is not read.   *)
(* With no such principal every attempt is answered with a 401 until the   *)
(* queue gives up.                                                         *)

Tick == /\ now < Horizon
        /\ now' = now + 1
        /\ UNCHANGED <<ports, asked, todo, requests, failures>>

TimerFires(w) ==
    /\ \E t \in timers :
         /\ now > t.fire_at
         /\ timers' = timers \ {t}
         /\ IF CallbackPrincipal = Nobody THEN asked' = asked
            ELSE /\ IsIdle(w)
                 /\ asked' = [asked EXCEPT ![w] = [ what |-> "evaluate",
                        who |-> CallbackPrincipal, case_id |-> t.case_id, stamp |-> now ]]
    /\ UNCHANGED <<cases, events, trail, reviews, now, todo, requests, failures>>

Perform(w) == \/ PutCase(w) \/ ScheduleTimer(w) \/ CancelTimer(w)
              \/ Publish(w) \/ Record(w) \/ RouteToReview(w)

Serve(w) == \/ CaseNotFound(w) \/ TransitionCase(w) \/ RefuseTransition(w) \/ EvaluateCase(w)
            \/ Perform(w)

Next ==
    \/ Tick
    \/ \E w \in Workers : OpenCase(w) \/ Ask(w) \/ Serve(w) \/ Fail(w) \/ TimerFires(w)

Spec == Init /\ [][Next]_vars

(* A handler that started runs to its end, time passes, and the queue      *)
(* delivers its tasks; nobody is obliged to ask for anything.              *)
FairSpec ==
    /\ Spec
    /\ WF_vars(Tick)
    /\ \A w \in Workers : WF_vars(Serve(w)) /\ WF_vars(TimerFires(w))

-----------------------------------------------------------------------------
(* Every port, and every worker's locals, hold what they are meant to.     *)
TypeOK ==
    /\ cases \subseteq Case
    /\ timers \subseteq Timer
    /\ events \in Seq(CaseEvent)
    /\ trail \in Seq(CaseAuditEvent)
    /\ reviews \in Seq(Review)
    /\ now \in 0..Horizon
    /\ asked \in [Workers -> Request]
    /\ todo \in [Workers -> Seq(Effect)]
    /\ requests \in 0..MaxRequests
    /\ failures \in 0..MaxFailures

(* A case's history is a walk along legal edges from the initial state of  *)
(* its workflow to its current state, numbered without a gap, whatever     *)
(* threads wrote it (transition, put): no interleaving splices two walks.  *)
StateBefore(c, i) ==
    IF i = 1 THEN Definition(c).initial ELSE c.history[i - 1].to_state

IsWalk(c) ==
    /\ \A i \in DOMAIN c.history :
         LET t == c.history[i]
         IN  /\ t.seq = i
             /\ t.from_state = StateBefore(c, i)
             /\ <<t.from_state, t.to_state>> \in Definition(c).transitions
    /\ c.state = StateBefore(c, NextSeq(c))

HistoryIsWalk == \A c \in cases : IsWalk(c)

Stored(rows, tenant, id) == \E c \in rows : c.tenant = tenant /\ c.case_id = id
Own(actor, tenant)       == [actor |-> actor, tenant |-> tenant] \in Callers

(* Tenants stay apart: a case's history and its trail name principals of   *)
(* the case's own tenant only (or the timers' in theirs), and whatever is  *)
(* recorded, announced, scheduled or handed over in a tenant's name is of  *)
(* a case that this tenant has, by a maker that is one of its own; so no   *)
(* handler, wherever it dies, reaches over (_load by tenant).              *)
TenantsStayApart ==
    /\ \A c \in cases : \A i \in DOMAIN c.history : Own(c.history[i].actor, c.tenant)
    /\ \A i \in DOMAIN trail :
         Own(trail[i].actor, trail[i].tenant) /\ Stored(cases, trail[i].tenant, trail[i].case_id)
    /\ \A i \in DOMAIN events : Stored(cases, events[i].tenant, events[i].case_id)
    /\ \A t \in timers : Stored(cases, t.tenant, t.case_id)
    /\ \A i \in DOMAIN reviews :
         LET r == reviews[i]
         IN  Stored(cases, r.tenant, r.case_ref) /\ (r.maker = CaseEngineId \/ Own(r.maker, r.tenant))

EscalatedAt(id) ==
    {i \in DOMAIN trail : trail[i].case_id = id /\ trail[i].decision = "escalated"}
AnnouncedAt(id) ==
    {i \in DOMAIN events : events[i].case_id = id /\ events[i].type = "case.escalated"}
RoutedAt(id) == {i \in DOMAIN reviews : reviews[i].case_ref = id}

Escalations(id) == Cardinality(EscalatedAt(id))
Announced(id)   == Cardinality(AnnouncedAt(id))
Routed(id)      == Cardinality(RoutedAt(id))

(* No human is handed a case that the trail does not say was escalated,    *)
(* and none before the lifecycle event, wherever handlers die or overlap   *)
(* (evaluate_case records, then emits, then routes).                       *)
HandOffsAreTold ==
    \A id \in CaseIds : Escalations(id) >= Announced(id) /\ Announced(id) >= Routed(id)

(* A clock that has breached once is breached ever after, while a case is  *)
(* moved, back to where the clock started or into a terminal state too: no *)
(* transition restarts a clock (first_entered, transition).                *)
BreachedClocks(c, at) ==
    {spec \in ToSet(Definition(c).clocks) : Deadline(c, spec, at).breached}

BreachesStay ==
    [][\A c \in cases : \E d \in cases' :
         SameCase(c, d) /\ BreachedClocks(c, now) \subseteq BreachedClocks(d, now')]_vars

Quiescent == \A w \in Workers : IsIdle(w)

(* The entries of the trail that tell of a move of a case, and which of    *)
(* them an entry is.                                                       *)
MovesAt(id) == {i \in DOMAIN trail : /\ trail[i].case_id = id
                                     /\ trail[i].action = "transition"
                                     /\ trail[i].decision = "allowed"}
Nth(i, id) == Cardinality({j \in MovesAt(id) : j <= i})

Tells(e, t) == e.from_state = t.from_state /\ e.to_state = t.to_state /\ e.actor = t.actor

(* Once the handlers are done, the trail replays each case's history: as   *)
(* many transitions, the same, by the same actors and in the same order,   *)
(* but for one that a handler did not live to record (transition_case).    *)
TrailReplaysHistory ==
    Quiescent =>
      \A c \in cases :
        LET lost == Len(c.history) - Cardinality(MovesAt(c.case_id))
        IN  /\ lost \in 0..failures
            /\ lost = 0 => \A i \in MovesAt(c.case_id) :
                             Tells(trail[i], c.history[Nth(i, c.case_id)])

(* The clocks of a case that run, are not past due, and have no timer at   *)
(* their due instant.                                                      *)
Untimed(c) ==
    {spec \in ToSet(Definition(c).clocks) :
       LET due == Deadline(c, spec, now).due_at
       IN  /\ due # NotStarted /\ ~(now > due)
           /\ [tenant |-> c.tenant, case_id |-> c.case_id,
               clock |-> spec.name, fire_at |-> due] \notin timers}

(* Once the handlers are done, a clock that runs in an open case and is    *)
(* not past due has a timer at its due instant ("schedules a timer per     *)
(* clock").                                                                *)
RunningClocksAreTimed ==
    Quiescent => \A c \in cases : ~IsTerminal(c) => Untimed(c) = {}

(* Once the handlers are done, the timers are those of the open cases, but *)
(* for a case whose opening or closing was cut short: the clocks that run  *)
(* from the opening, which are the ones that _schedule_clocks meets, are   *)
(* timed until they are past due, and a closed case, which an evaluation   *)
(* would assess like an open one, wakes nobody ("on a terminal state, the  *)
(* clocks are cancelled").                                                 *)
Mistimed(c) ==
    IF IsTerminal(c)
      THEN \E t \in timers : t.tenant = c.tenant /\ t.case_id = c.case_id
      ELSE \E spec \in Untimed(c) : spec.start_state = Definition(c).initial

TimersFollowCases == Quiescent => Cardinality({c \in cases : Mistimed(c)}) <= failures

(* A breach is not missed, though nobody polls: a case that is open past   *)
(* the due instant of a clock that runs from the opening is handed to a    *)
(* human, or closed, unless a handler died.                                *)
OpenPastDue(id) ==
    \E c \in cases : /\ c.case_id = id /\ ~IsTerminal(c)
                     /\ \E spec \in BreachedClocks(c, now) :
                          spec.start_state = Definition(c).initial
Closed(id) == \E c \in cases : c.case_id = id /\ IsTerminal(c)

BreachesAreNotMissed ==
    \A id \in CaseIds : OpenPastDue(id) ~> (Routed(id) > 0 \/ Closed(id) \/ failures > 0)
=============================================================================
