------------------------- MODULE CaseWorkflowProofs -------------------------
(***************************************************************************)
(* Theorems about the case workflow for every number of threads, cases,    *)
(* people and tenants, every set of workflow definitions, and any          *)
(* interleaving and failures.                                              *)
(*                                                                         *)
(* The invariants speak of what is stored.  They are inductive once they   *)
(* are also said of what handlers are about to store: the plan of effects  *)
(* a decision leaves.  A plan is a sequence over some set of fair effects. *)
(*                                                                         *)
(* That hand-offs are told is a matter of counting: what is left of a plan *)
(* that escalates tells what was done, and what was recorded, announced    *)
(* and routed balances with what is still to be (HInv).                    *)
(*                                                                         *)
(* The theorems that assume Serial are false of several threads, whose     *)
(* writes of a row overwrite each other: with one handler at a time the    *)
(* row it read is still the row it writes over (SInv), and what is missing *)
(* of the trail or of the timers is what its plan has still to do, or what *)
(* a handler that died had (RInv, TInv).                                   *)
(***************************************************************************)
EXTENDS CaseWorkflow, BusinessClockProofs

(* A case that could be stored. *)
OwnHistory(c) == \A i \in DOMAIN c.history : Own(c.history[i].actor, c.tenant)
SoundCase(c)  == c \in Case /\ IsWalk(c) /\ OwnHistory(c)

(* A review that the console can be asked for. *)
SoundReview(r) ==
    /\ r.tenant \in Tenants /\ r.severity \in Severities
    /\ r.maker \in Actors \cup {CaseEngineId}
    /\ r.maker = CaseEngineId \/ Own(r.maker, r.tenant)

(* An effect in the name of a tenant, on a case of that id. *)
SoundEffect(e, tenant, id) ==
    /\ e.kind = "put" =>
         SoundCase(e.case) /\ e.case.tenant = tenant /\ e.case.case_id = id
    /\ e.kind = "record" =>
         Own(e.event.actor, tenant) /\ e.event.tenant = tenant /\ e.event.case_id = id
    /\ e.kind = "publish" => e.event.tenant = tenant /\ e.event.case_id = id
    /\ e.kind = "schedule" => e.timer.tenant = tenant /\ e.timer.case_id = id
    /\ e.kind = "route" =>
         SoundReview(e.review) /\ e.review.tenant = tenant /\ e.review.case_ref = id

Plan(s, tenant, id) == \E S : s \in Seq(S) /\ \A e \in S : SoundEffect(e, tenant, id)

(* A plan is of a case that is stored, or that it stores first. *)
Founded(s, rows) ==
    \E tenant, id : /\ Plan(s, tenant, id)
                    /\ s # << >> => Stored(rows, tenant, id) \/ Head(s).kind = "put"

IsSeq(s) == \E S : s \in Seq(S)

SoundRequest(r) == r = NotAsked \/ (r.who \in Callers /\ r.stamp \in Nat)

(* The inductive invariant: rows, drafts, requests and what was sent.      *)
WInv ==
    /\ \A c \in cases : SoundCase(c)
    /\ now \in Nat
    /\ DOMAIN asked = Workers /\ \A w \in Workers : SoundRequest(asked[w])
    /\ DOMAIN todo = Workers /\ \A w \in Workers : Founded(todo[w], cases)
    /\ IsSeq(trail) /\ IsSeq(events) /\ IsSeq(reviews)
    /\ TenantsStayApart

-----------------------------------------------------------------------------
(* Plans. *)

(* A sequence over sound effects is a plan. *)
LEMMA PlanOver ==
    ASSUME NEW S, NEW s \in Seq(S), NEW t, NEW id, \A e \in S : SoundEffect(e, t, id)
    PROVE  Plan(s, t, id)
  BY DEF Plan

(* One, two or three effects, or none, are a plan when they are sound. *)
LEMMA PlanNone == ASSUME NEW t, NEW id PROVE Plan(<< >>, t, id)
<1> DEFINE s == << >>
           S == {}
<1>1. s \in Seq(S) /\ \A x \in S : SoundEffect(x, t, id)
  OBVIOUS
<1>2. Plan(s, t, id)
  <2> HIDE DEF s, S
  <2> QED
    BY <1>1, PlanOver
<1> QED
  BY <1>2

LEMMA PlanOne ==
    ASSUME NEW t, NEW id, NEW e, SoundEffect(e, t, id)
    PROVE  Plan(<< e >>, t, id)
<1> DEFINE s == << e >>
           S == {e}
<1>1. s \in Seq(S) /\ \A x \in S : SoundEffect(x, t, id)
  OBVIOUS
<1>2. Plan(s, t, id)
  <2> HIDE DEF s, S
  <2> QED
    BY <1>1, PlanOver
<1> QED
  BY <1>2

LEMMA PlanTwo ==
    ASSUME NEW t, NEW id, NEW d, NEW e, SoundEffect(d, t, id), SoundEffect(e, t, id)
    PROVE  Plan(<< d, e >>, t, id)
<1> DEFINE s == << d, e >>
           S == {d, e}
<1>1. s \in Seq(S) /\ \A x \in S : SoundEffect(x, t, id)
  OBVIOUS
<1>2. Plan(s, t, id)
  <2> HIDE DEF s, S
  <2> QED
    BY <1>1, PlanOver
<1> QED
  BY <1>2

LEMMA PlanThree ==
    ASSUME NEW t, NEW id, NEW d, NEW e, NEW f,
           SoundEffect(d, t, id), SoundEffect(e, t, id), SoundEffect(f, t, id)
    PROVE  Plan(<< d, e, f >>, t, id)
<1> DEFINE s == << d, e, f >>
           S == {d, e, f}
<1>1. s \in Seq(S) /\ \A x \in S : SoundEffect(x, t, id)
  OBVIOUS
<1>2. Plan(s, t, id)
  <2> HIDE DEF s, S
  <2> QED
    BY <1>1, PlanOver
<1> QED
  BY <1>2

(* One plan after another is a plan, and starts as the first does. *)
LEMMA PlanConcat ==
    ASSUME NEW t, NEW id, NEW s, NEW u, Plan(s, t, id), Plan(u, t, id)
    PROVE  /\ Plan(s \o u, t, id)
           /\ s # << >> => s \o u # << >> /\ Head(s \o u) = Head(s)
<1>1. PICK S : s \in Seq(S) /\ \A e \in S : SoundEffect(e, t, id)
  BY DEF Plan
<1>2. PICK T : u \in Seq(T) /\ \A e \in T : SoundEffect(e, t, id)
  BY DEF Plan
<1>3. s \in Seq(S \cup T) /\ u \in Seq(S \cup T)
  BY <1>1, <1>2
<1>4. s \o u \in Seq(S \cup T)
  BY <1>3
<1>5. s # << >> => s \o u # << >> /\ Head(s \o u) = Head(s)
  BY <1>3, <1>4
<1> QED
  BY <1>1, <1>2, <1>4, <1>5 DEF Plan

(* What is done first of a plan is sound, and the rest is a plan. *)
LEMMA PlanStep ==
    ASSUME NEW t, NEW id, NEW s, Plan(s, t, id), s # << >>
    PROVE  SoundEffect(Head(s), t, id) /\ Plan(Tail(s), t, id)
<1>1. PICK S : s \in Seq(S) /\ \A e \in S : SoundEffect(e, t, id)
  BY DEF Plan
<1>2. Head(s) \in S /\ Tail(s) \in Seq(S)
  BY <1>1
<1> QED
  BY <1>1, <1>2 DEF Plan

(* The loops over the clocks of a definition are about the case. *)
LEMMA PlanLoops ==
    ASSUME NEW c \in Case, NEW as_of
    PROVE  /\ Plan(ScheduleClocks(c, as_of), c.tenant, c.case_id)
           /\ Plan(CancelClocks(c), c.tenant, c.case_id)
<1> DEFINE clocks == Definition(c).clocks
<1>1. clocks \in Seq(ClockSpec(ClockNames, States))
  BY EngineAssumption DEF Case, Definition, IsWorkflowDefinition
<1>2. DOMAIN clocks = 1..Len(clocks) /\ Len(clocks) \in Nat
  BY <1>1
<1>3. Plan(ScheduleClocks(c, as_of), c.tenant, c.case_id)
  <2> DEFINE E(i) == Wake("schedule", c, clocks[i].name, Deadline(c, clocks[i], as_of).due_at)
             S    == {E(i) : i \in DOMAIN clocks}
  <2>1. \A i : SoundEffect(E(i), c.tenant, c.case_id)
    BY DEF SoundEffect, Wake
  <2> HIDE DEF E, clocks
  <2>2. [i \in DOMAIN clocks |-> E(i)] \in Seq(S)
    BY <1>2
  <2>3. Plan([i \in DOMAIN clocks |-> E(i)], c.tenant, c.case_id)
    BY <2>1, <2>2, PlanOver
  <2> QED
    BY <2>3 DEF E, clocks, ScheduleClocks
<1>4. Plan(CancelClocks(c), c.tenant, c.case_id)
  <2> DEFINE E(i) == Wake("cancel", c, clocks[i].name, 0)
             S    == {E(i) : i \in DOMAIN clocks}
  <2>1. \A i : SoundEffect(E(i), c.tenant, c.case_id)
    BY DEF SoundEffect, Wake
  <2> HIDE DEF E, clocks
  <2>2. [i \in DOMAIN clocks |-> E(i)] \in Seq(S)
    BY <1>2
  <2>3. Plan([i \in DOMAIN clocks |-> E(i)], c.tenant, c.case_id)
    BY <2>1, <2>2, PlanOver
  <2> QED
    BY <2>3 DEF E, clocks, CancelClocks
<1> QED
  BY <1>3, <1>4

(* One entry is appended to what was sent. *)
LEMMA CountAfterAppend ==
    ASSUME NEW s, IsSeq(s), NEW e
    PROVE  /\ IsSeq(Append(s, e)) /\ Len(s) + 1 \notin DOMAIN s
           /\ DOMAIN Append(s, e) = DOMAIN s \cup {Len(s) + 1}
           /\ Append(s, e)[Len(s) + 1] = e
           /\ \A i \in DOMAIN s : Append(s, e)[i] = s[i]
<1>1. PICK S : s \in Seq(S)
  BY DEF IsSeq
<1>2. s \in Seq(S \cup {e}) /\ e \in S \cup {e}
  BY <1>1
<1>3. Append(s, e) \in Seq(S \cup {e})
  BY <1>2
<1> QED
  BY <1>1, <1>2, <1>3 DEF IsSeq

-----------------------------------------------------------------------------
(* Cases. *)

(* A case as it is opened is sound: its walk is empty. *)
LEMMA NewCaseSound ==
    ASSUME NEW id \in CaseIds, NEW tenant \in Tenants, NEW type \in DOMAIN Definitions,
           NEW severity \in Severities, NEW as_of \in Nat
    PROVE  SoundCase(NewCase(id, tenant, type, severity, as_of))
<1> DEFINE c == NewCase(id, tenant, type, severity, as_of)
<1>1. c \in Case
  <2>1. Definitions[type].initial \in States
    BY EngineAssumption DEF IsWorkflowDefinition
  <2>2. << >> \in Seq(Transition)
    OBVIOUS
  <2> QED
    BY <2>1, <2>2 DEF NewCase, Case
<1>2. IsWalk(c)
  <2>1. c.history = << >> /\ c.state = Definition(c).initial
    BY DEF NewCase, Definition
  <2> QED
    BY <2>1 DEF IsWalk, NextSeq, StateBefore
<1>3. OwnHistory(c)
  BY DEF OwnHistory, NewCase
<1> QED
  BY <1>1, <1>2, <1>3 DEF SoundCase

(* A legal move takes a sound case to a sound case: the walk is one edge   *)
(* longer, whatever rows other threads have stored in the meantime.        *)
LEMMA MovedSound ==
    ASSUME NEW c, SoundCase(c), NEW to, IsLegal(c, to),
           NEW actor \in Actors, Own(actor, c.tenant), NEW as_of \in Nat
    PROVE  SoundCase(Moved(c, to, actor, as_of))
<1> DEFINE m == Moved(c, to, actor, as_of)
           h == c.history
           n == Len(h)
           entry == [ seq |-> n + 1, from_state |-> c.state, to_state |-> to,
                      actor |-> actor, at |-> as_of ]
           Edge(d, i) ==
             /\ d.history[i].seq = i
             /\ d.history[i].from_state = StateBefore(d, i)
             /\ <<d.history[i].from_state, d.history[i].to_state>> \in Definition(d).transitions
<1>1. c \in Case /\ IsWalk(c)
  BY DEF SoundCase
<1>2. to \in States /\ c.state \in States /\ <<c.state, to>> \in Definition(c).transitions
  BY <1>1, EngineAssumption DEF Case, IsLegal, Definition, IsWorkflowDefinition
<1>3. h \in Seq(Transition) /\ n \in Nat
  BY <1>1 DEF Case
<1>4. entry \in Transition
  BY <1>2, <1>3 DEF Transition
<1>5. Append(h, entry) \in Seq(Transition)
  BY <1>3, <1>4
<1>6. m = [c EXCEPT !.state = to, !.history = Append(h, entry)]
  BY DEF Moved, NextSeq
<1>7. m \in Case
  BY <1>1, <1>2, <1>5, <1>6 DEF Case
<1>8. m.history = Append(h, entry) /\ m.state = to /\ Definition(m) = Definition(c)
  BY <1>1, <1>6 DEF Case, Definition
<1>9. IsWalk(m)
  <2>1. /\ DOMAIN m.history = 1..(n + 1) /\ Len(m.history) = n + 1
        /\ m.history[n + 1] = entry
        /\ \A i \in 1..n : m.history[i] = h[i]
    BY <1>3, <1>4, <1>8
  <2>2. /\ \A i \in 1..n : Edge(c, i)
        /\ c.state = StateBefore(c, n + 1)
    <3>1. DOMAIN h = 1..n /\ NextSeq(c) = n + 1
      BY <1>3 DEF NextSeq
    <3>2. \A i \in DOMAIN h : Edge(c, i)
      BY <1>1 DEF IsWalk
    <3>3. c.state = StateBefore(c, NextSeq(c))
      BY <1>1 DEF IsWalk
    <3> HIDE DEF Edge, n
    <3> QED
      BY <3>1, <3>2, <3>3
  <2>3. StateBefore(m, n + 1) = StateBefore(c, n + 1)
    BY <2>1, <1>3, <1>8 DEF StateBefore
  <2>4. ASSUME NEW i \in 1..(n + 1)
        PROVE  Edge(m, i)
    <3>1. CASE i \in 1..n
      <4>1. m.history[i] = h[i] /\ StateBefore(m, i) = StateBefore(c, i)
        BY <3>1, <2>1, <1>3, <1>8 DEF StateBefore
      <4> QED
        BY <3>1, <4>1, <2>2, <1>8
    <3>2. CASE i = n + 1
      BY <3>2, <2>1, <2>2, <2>3, <1>2, <1>8
    <3> QED
      BY <3>1, <3>2, <1>3
  <2>5. StateBefore(m, n + 2) = to
    <3>1. (n + 2) - 1 = n + 1 /\ n + 2 # 1
      BY <1>3
    <3> QED
      BY <2>1, <3>1 DEF StateBefore
  <2>6. NextSeq(m) = n + 2
    BY <2>1, <1>3 DEF NextSeq
  <2> QED
    BY <2>1, <2>4, <2>5, <2>6, <1>8 DEF IsWalk
<1>10. OwnHistory(m)
  <2>1. m.tenant = c.tenant
    BY <1>1, <1>6 DEF Case
  <2>2. ASSUME NEW i \in DOMAIN m.history PROVE Own(m.history[i].actor, c.tenant)
    <3>1. (i \in DOMAIN h /\ m.history[i] = h[i]) \/ m.history[i] = entry
      BY <1>3, <1>4, <1>8
    <3>2. OwnHistory(c)
      BY DEF SoundCase
    <3> QED
      BY <3>1, <3>2 DEF OwnHistory
  <2> QED
    BY <2>1, <2>2 DEF OwnHistory
<1> QED
  BY <1>7, <1>9, <1>10 DEF SoundCase

-----------------------------------------------------------------------------
(* What decisions leave to be done. *)

LEMMA CallerIsOwn ==
    ASSUME NEW p \in Callers
    PROVE  p.actor \in Actors /\ p.tenant \in Tenants /\ Own(p.actor, p.tenant)
<1>1. p \in Principal
  BY WorkflowAssumption DEF Callers
<1> QED
  BY <1>1 DEF Principal, Own

(* A record of what a caller does to a case of its own tenant. *)
LEMMA AuditSound ==
    ASSUME NEW p \in Callers, NEW c, c.tenant = p.tenant,
           NEW action, NEW from, NEW to, NEW decision, NEW findings
    PROVE  SoundEffect(Audit(c, action, p.actor, from, to, decision, findings), c.tenant, c.case_id)
  BY CallerIsOwn DEF SoundEffect, Audit

LEMMA StoreSound ==
    ASSUME NEW c, SoundCase(c)
    PROVE  SoundEffect(Store(c), c.tenant, c.case_id) /\ Store(c).kind = "put"
  BY DEF SoundEffect, Store

LEMMA EmitSound ==
    ASSUME NEW c, NEW type
    PROVE  SoundEffect(Emit(type, c), c.tenant, c.case_id)
  BY DEF SoundEffect, Emit

(* The maker of a review is an actor of the case's history, or the engine. *)
LEMMA RouteSound ==
    ASSUME NEW c, SoundCase(c), NEW findings
    PROVE  SoundEffect(Route(c, findings), c.tenant, c.case_id)
<1> DEFINE r == Route(c, findings).review
<1>1. c.tenant \in Tenants /\ c.severity \in Severities /\ c.history \in Seq(Transition)
  BY DEF Case, SoundCase
<1>2. ASSUME c.history # << >>
      PROVE  Last(c.history).actor \in Actors /\ Own(Last(c.history).actor, c.tenant)
  <2>1. Last(c.history) \in Transition
    BY <1>1, <1>2 DEF Last
  <2>2. Len(c.history) \in DOMAIN c.history
    BY <1>1, <1>2
  <2> QED
    BY <2>1, <2>2 DEF Transition, SoundCase, OwnHistory, Last
<1>3. SoundReview(r)
  BY <1>1, <1>2 DEF Route, SoundReview
<1>4. Route(c, findings).kind = "route" /\ r.tenant = c.tenant /\ r.case_ref = c.case_id
  BY DEF Route
<1> QED
  BY <1>3, <1>4 DEF SoundEffect

LEMMA OpenPlan ==
    ASSUME NEW p \in Callers, NEW c, SoundCase(c), c.tenant = p.tenant, NEW rows
    PROVE  Founded(OpenEffects(c, p.actor), rows)
<1> DEFINE s == << Store(c) >>
           l == ScheduleClocks(c, c.opened_at)
           u == << Emit("case.opened", c), Audit(c, "open", p.actor, NoState, c.state, "allowed", {}) >>
<1>1. Plan(s, c.tenant, c.case_id) /\ s # << >> /\ Head(s) = Store(c)
  BY StoreSound, PlanOne
<1>2. Plan(l, c.tenant, c.case_id)
  BY PlanLoops DEF SoundCase
<1>3. Plan(u, c.tenant, c.case_id)
  BY EmitSound, AuditSound, PlanTwo
<1>4. OpenEffects(c, p.actor) = s \o l \o u
  BY DEF OpenEffects
<1> HIDE DEF s, l, u
<1>5. Plan(s \o l, c.tenant, c.case_id) /\ s \o l # << >> /\ Head(s \o l) = Store(c)
  BY <1>1, <1>2, PlanConcat
<1>6. Plan(s \o l \o u, c.tenant, c.case_id) /\ Head(s \o l \o u) = Store(c)
  BY <1>3, <1>5, PlanConcat
<1> QED
  BY <1>4, <1>6, StoreSound DEF Founded

LEMMA TransitionPlan ==
    ASSUME NEW p \in Callers, NEW c, NEW moved, SoundCase(moved), moved.tenant = p.tenant, NEW rows
    PROVE  Founded(TransitionEffects(c, moved, p.actor), rows)
<1> DEFINE s == << Store(moved) >>
           l == IF IsTerminal(moved) THEN CancelClocks(moved) ELSE << >>
           u == << Emit("case.transitioned", moved),
                   Audit(moved, "transition", p.actor, c.state, moved.state, "allowed", {}) >>
<1>1. Plan(s, moved.tenant, moved.case_id) /\ s # << >> /\ Head(s) = Store(moved)
  BY StoreSound, PlanOne
<1>2. Plan(l, moved.tenant, moved.case_id)
  BY PlanLoops, PlanNone DEF SoundCase
<1>3. Plan(u, moved.tenant, moved.case_id)
  BY EmitSound, AuditSound, PlanTwo
<1>4. TransitionEffects(c, moved, p.actor) = s \o l \o u
  BY DEF TransitionEffects
<1> HIDE DEF s, l, u
<1>5. Plan(s \o l, moved.tenant, moved.case_id) /\ s \o l # << >> /\ Head(s \o l) = Store(moved)
  BY <1>1, <1>2, PlanConcat
<1>6. Plan(s \o l \o u, moved.tenant, moved.case_id) /\ Head(s \o l \o u) = Store(moved)
  BY <1>3, <1>5, PlanConcat
<1> QED
  BY <1>4, <1>6, StoreSound DEF Founded

LEMMA EvaluatePlan ==
    ASSUME NEW p \in Callers, NEW c, SoundCase(c), c.tenant = p.tenant, NEW findings,
           NEW rows, Stored(rows, c.tenant, c.case_id)
    PROVE  Founded(EvaluateEffects(c, p.actor, findings), rows)
<1>1. Plan(<< Audit(c, "evaluate", p.actor, c.state, c.state, "escalated", findings),
              Emit("case.escalated", c), Route(c, findings) >>, c.tenant, c.case_id)
  BY AuditSound, EmitSound, RouteSound, PlanThree
<1>2. Plan(<< Audit(c, "evaluate", p.actor, c.state, c.state, "allowed", findings) >>,
           c.tenant, c.case_id)
  BY AuditSound, PlanOne
<1>3. Plan(EvaluateEffects(c, p.actor, findings), c.tenant, c.case_id)
  BY <1>1, <1>2 DEF EvaluateEffects
<1> QED
  BY <1>3 DEF Founded

(* Nothing to do is founded on anything. *)
LEMMA FoundedNone == ASSUME NEW rows PROVE Founded(<< >>, rows)
<1> DEFINE s == << >>
<1>1. \A t, id : Plan(s, t, id)
  BY PlanNone
<1>2. s = << >>
  OBVIOUS
<1> HIDE DEF s
<1>3. Founded(s, rows)
  BY <1>1, <1>2 DEF Founded
<1> QED
  BY <1>3 DEF s

(* What is founded on some rows is founded on more. *)
LEMMA FoundedOnMore ==
    ASSUME NEW s, NEW rows, NEW more, Founded(s, rows),
           \A t, id : Stored(rows, t, id) => Stored(more, t, id)
    PROVE  Founded(s, more)
<1>1. PICK t, id : Plan(s, t, id) /\ (s # << >> => Stored(rows, t, id) \/ Head(s).kind = "put")
  BY DEF Founded
<1>2. s # << >> => Stored(more, t, id) \/ Head(s).kind = "put"
  BY <1>1
<1> QED
  BY <1>1, <1>2 DEF Founded

(* A put drops nobody's row. *)
LEMMA PutKeepsRows ==
    ASSUME NEW rows, NEW c
    PROVE  /\ \A t, id : Stored(rows, t, id) => Stored(Put(rows, c), t, id)
           /\ Stored(Put(rows, c), c.tenant, c.case_id)
  BY DEF Stored, Put, SameCase

-----------------------------------------------------------------------------
(* The actions. *)

LEMMA TypeOfLoaded ==
    ASSUME WInv, NEW w \in Workers, asked[w] # NotAsked, NEW c \in Loaded(w)
    PROVE  /\ SoundCase(c) /\ Stored(cases, c.tenant, c.case_id)
           /\ asked[w].who \in Callers /\ asked[w].stamp \in Nat
           /\ asked[w].who.actor \in Actors
           /\ c.tenant = asked[w].who.tenant /\ Own(asked[w].who.actor, c.tenant)
<1>1. /\ SoundCase(c) /\ c \in cases
      /\ asked[w].who \in Callers /\ asked[w].stamp \in Nat
      /\ c.tenant = asked[w].who.tenant
  BY DEF WInv, SoundRequest, Loaded, Get
<1>2. Stored(cases, c.tenant, c.case_id)
  BY <1>1 DEF Stored
<1> QED
  BY <1>1, <1>2, CallerIsOwn

(* A decision whose effects are a plan. *)
LEMMA DecideKeeps ==
    ASSUME WInv, NEW w \in Workers, NEW effects, Founded(effects, cases), Decide(w, effects)
    PROVE  WInv'
<1>1. DOMAIN asked' = Workers /\ \A v \in Workers : SoundRequest(asked'[v])
  BY DEF WInv, Decide, SoundRequest
<1>2. UNCHANGED <<cases, timers, events, trail, reviews, now>>
  BY DEF Decide, ports
<1>3. DOMAIN todo' = Workers /\ \A v \in Workers : Founded(todo'[v], cases')
  BY <1>2 DEF WInv, Decide
<1>4. TenantsStayApart'
  BY <1>2 DEF WInv, TenantsStayApart
<1> QED
  BY <1>1, <1>2, <1>3, <1>4 DEF WInv

LEMMA OpenCaseKeeps ==
    ASSUME WInv, NEW w \in Workers, OpenCase(w)
    PROVE  WInv'
<1>1. PICK p \in Principals, id \in FreshIds, type \in DOMAIN Definitions, s \in Severities :
        todo' = [todo EXCEPT ![w] = OpenEffects(NewCase(id, p.tenant, type, s, now), p.actor)]
  BY DEF OpenCase
<1> DEFINE c == NewCase(id, p.tenant, type, s, now)
<1>2. p \in Callers /\ p.tenant \in Tenants
  BY CallerIsOwn DEF Callers
<1>3. SoundCase(c) /\ c.tenant = p.tenant
  <2>1. id \in CaseIds /\ now \in Nat
    BY DEF FreshIds, WInv
  <2>2. SoundCase(c)
    BY <1>2, <2>1, NewCaseSound
  <2> QED
    BY <2>2 DEF NewCase
<1>4. Founded(OpenEffects(c, p.actor), cases)
  <2> HIDE DEF c
  <2> QED
    BY <1>2, <1>3, OpenPlan
<1>5. UNCHANGED <<cases, timers, events, trail, reviews, now, asked>>
  BY DEF OpenCase, ports
<1>6. DOMAIN todo' = Workers /\ \A v \in Workers : Founded(todo'[v], cases')
  BY <1>1, <1>4, <1>5 DEF WInv
<1>7. TenantsStayApart'
  BY <1>5 DEF WInv, TenantsStayApart
<1> QED
  BY <1>5, <1>6, <1>7 DEF WInv

LEMMA AskKeeps ==
    ASSUME WInv, NEW w \in Workers, Ask(w)
    PROVE  WInv'
<1>1. DOMAIN asked' = Workers /\ \A v \in Workers : SoundRequest(asked'[v])
  BY DEF WInv, Ask, SoundRequest, Callers
<1>2. UNCHANGED <<cases, timers, events, trail, reviews, now, todo>>
  BY DEF Ask, ports
<1>3. TenantsStayApart'
  BY <1>2 DEF WInv, TenantsStayApart
<1> QED
  BY <1>1, <1>2, <1>3 DEF WInv

LEMMA ServeKeeps ==
    ASSUME WInv, NEW w \in Workers,
           CaseNotFound(w) \/ TransitionCase(w) \/ RefuseTransition(w) \/ EvaluateCase(w)
    PROVE  WInv'
<1> DEFINE r == asked[w]
<1>1. CASE CaseNotFound(w)
  BY <1>1, FoundedNone, DecideKeeps DEF CaseNotFound
<1>2. CASE TransitionCase(w)
  <2>1. r # NotAsked
    BY <1>2 DEF TransitionCase, NotAsked
  <2>2. PICK c \in Loaded(w) :
          /\ IsLegal(c, r.to)
          /\ Decide(w, TransitionEffects(c, Moved(c, r.to, r.who.actor, r.stamp), r.who.actor))
    BY <1>2 DEF TransitionCase
  <2>3. /\ SoundCase(c) /\ r.who \in Callers /\ r.stamp \in Nat /\ c.tenant = r.who.tenant
        /\ r.who.actor \in Actors /\ Own(r.who.actor, c.tenant)
    BY <2>1, TypeOfLoaded
  <2> DEFINE m == Moved(c, r.to, r.who.actor, r.stamp)
  <2>4. SoundCase(m)
    BY <2>2, <2>3, MovedSound
  <2>5. m.tenant = r.who.tenant
    BY <2>3 DEF Moved, SoundCase, Case
  <2>6. Founded(TransitionEffects(c, m, r.who.actor), cases)
    <3> HIDE DEF m
    <3> QED
      BY <2>3, <2>4, <2>5, TransitionPlan
  <2> QED
    BY <2>2, <2>6, DecideKeeps
<1>3. CASE RefuseTransition(w)
  <2>1. r # NotAsked
    BY <1>3 DEF RefuseTransition, NotAsked
  <2>2. PICK c \in Loaded(w) :
          Decide(w, << Audit(c, "transition", r.who.actor, c.state, r.to, "rejected", {}) >>)
    BY <1>3 DEF RefuseTransition
  <2>3. r.who \in Callers /\ c.tenant = r.who.tenant /\ Stored(cases, c.tenant, c.case_id)
    BY <2>1, TypeOfLoaded
  <2>4. Plan(<< Audit(c, "transition", r.who.actor, c.state, r.to, "rejected", {}) >>,
             c.tenant, c.case_id)
    BY <2>3, AuditSound, PlanOne
  <2>5. Founded(<< Audit(c, "transition", r.who.actor, c.state, r.to, "rejected", {}) >>, cases)
    BY <2>3, <2>4 DEF Founded
  <2> QED
    BY <2>2, <2>5, DecideKeeps
<1>4. CASE EvaluateCase(w)
  <2>1. r # NotAsked
    BY <1>4 DEF EvaluateCase, NotAsked
  <2>2. PICK c \in Loaded(w) :
          Decide(w, EvaluateEffects(c, r.who.actor, Findings(c, r.stamp)))
    BY <1>4 DEF EvaluateCase
  <2>3. /\ r.who \in Callers /\ c.tenant = r.who.tenant /\ SoundCase(c)
        /\ Stored(cases, c.tenant, c.case_id)
    BY <2>1, TypeOfLoaded
  <2>4. Founded(EvaluateEffects(c, r.who.actor, Findings(c, r.stamp)), cases)
    BY <2>3, EvaluatePlan
  <2> QED
    BY <2>2, <2>4, DecideKeeps
<1> QED
  BY <1>1, <1>2, <1>3, <1>4

(* What is performed is sound, and what is stored stays: one effect of a   *)
(* plan leaves the tenants apart.                                          *)
LEMMA PerformApart ==
    ASSUME WInv, NEW w \in Workers, Perform(w), NEW t, NEW id,
           SoundEffect(Head(todo[w]), t, id), Stored(cases', t, id),
           \A u, i : Stored(cases, u, i) => Stored(cases', u, i),
           \A c \in cases' : SoundCase(c)
    PROVE  IsSeq(trail') /\ IsSeq(events') /\ IsSeq(reviews') /\ TenantsStayApart'
<1> DEFINE e == Head(todo[w])
<1>1. IsSeq(trail) /\ IsSeq(events) /\ IsSeq(reviews) /\ TenantsStayApart
  BY DEF WInv
<1>2. \A c \in cases' : \A i \in DOMAIN c.history : Own(c.history[i].actor, c.tenant)
  BY DEF SoundCase, OwnHistory
<1>3. /\ IsSeq(trail')
      /\ \A i \in DOMAIN trail' : /\ Own(trail'[i].actor, trail'[i].tenant)
                                  /\ Stored(cases', trail'[i].tenant, trail'[i].case_id)
  <2>1. CASE Record(w)
    <3>1. trail' = Append(trail, e.event) /\ e.kind = "record"
      BY <2>1 DEF Record, Doing
    <3>2. Own(e.event.actor, e.event.tenant) /\ Stored(cases', e.event.tenant, e.event.case_id)
      BY <3>1 DEF SoundEffect
    <3> HIDE DEF e
    <3> QED
      BY <1>1, <3>1, <3>2, CountAfterAppend DEF TenantsStayApart
  <2>2. CASE trail' = trail
    BY <1>1, <2>2 DEF TenantsStayApart
  <2> QED
    BY <2>1, <2>2 DEF Perform, PutCase, ScheduleTimer, CancelTimer, Publish, RouteToReview
<1>4. /\ IsSeq(events')
      /\ \A i \in DOMAIN events' : Stored(cases', events'[i].tenant, events'[i].case_id)
  <2>1. CASE Publish(w)
    <3>1. events' = Append(events, e.event) /\ e.kind = "publish"
      BY <2>1 DEF Publish, Doing
    <3>2. Stored(cases', e.event.tenant, e.event.case_id)
      BY <3>1 DEF SoundEffect
    <3> HIDE DEF e
    <3> QED
      BY <1>1, <3>1, <3>2, CountAfterAppend DEF TenantsStayApart
  <2>2. CASE events' = events
    BY <1>1, <2>2 DEF TenantsStayApart
  <2> QED
    BY <2>1, <2>2 DEF Perform, PutCase, ScheduleTimer, CancelTimer, Record, RouteToReview
<1>5. \A x \in timers' : Stored(cases', x.tenant, x.case_id)
  <2>1. CASE ScheduleTimer(w)
    <3>1. e.kind = "schedule" /\ timers' \subseteq timers \cup {e.timer}
      BY <2>1 DEF ScheduleTimer, Doing, Schedule
    <3>2. Stored(cases', e.timer.tenant, e.timer.case_id)
      BY <3>1 DEF SoundEffect
    <3> QED
      BY <1>1, <3>1, <3>2 DEF TenantsStayApart
  <2>2. CASE timers' \subseteq timers
    BY <1>1, <2>2 DEF TenantsStayApart
  <2> QED
    BY <2>1, <2>2 DEF Perform, PutCase, CancelTimer, Cancel, Publish, Record, RouteToReview
<1>6. /\ IsSeq(reviews')
      /\ \A i \in DOMAIN reviews' :
           /\ Stored(cases', reviews'[i].tenant, reviews'[i].case_ref)
           /\ reviews'[i].maker = CaseEngineId \/ Own(reviews'[i].maker, reviews'[i].tenant)
  <2>1. CASE RouteToReview(w)
    <3>1. reviews' = Append(reviews, e.review) /\ e.kind = "route"
      BY <2>1 DEF RouteToReview, Doing
    <3>2. /\ Stored(cases', e.review.tenant, e.review.case_ref)
          /\ e.review.maker = CaseEngineId \/ Own(e.review.maker, e.review.tenant)
      BY <3>1 DEF SoundEffect, SoundReview
    <3> HIDE DEF e
    <3> QED
      BY <1>1, <3>1, <3>2, CountAfterAppend DEF TenantsStayApart
  <2>2. CASE reviews' = reviews
    BY <1>1, <2>2 DEF TenantsStayApart
  <2> QED
    BY <2>1, <2>2 DEF Perform, PutCase, ScheduleTimer, CancelTimer, Publish, Record
<1> QED
  BY <1>2, <1>3, <1>4, <1>5, <1>6 DEF TenantsStayApart

(* An effect takes the head of a plan: what is stored or sent is sound.    *)
LEMMA PerformKeeps ==
    ASSUME WInv, NEW w \in Workers, Perform(w)
    PROVE  WInv'
<1> DEFINE e == Head(todo[w])
<1>1. PICK kind : Doing(w, kind)
  BY DEF Perform, PutCase, ScheduleTimer, CancelTimer, Publish, Record, RouteToReview
<1>2. PICK t, id : Plan(todo[w], t, id) /\ (Stored(cases, t, id) \/ e.kind = "put")
  BY <1>1 DEF WInv, Doing, Founded
<1>3. SoundEffect(e, t, id) /\ Plan(Tail(todo[w]), t, id)
  BY <1>1, <1>2, PlanStep DEF Doing
<1>4. /\ now' \in Nat
      /\ DOMAIN asked' = Workers /\ \A v \in Workers : SoundRequest(asked'[v])
  BY <1>1 DEF WInv, Doing
<1>5. /\ \A c \in cases' : SoundCase(c)
      /\ \A u, i : Stored(cases, u, i) => Stored(cases', u, i)
      /\ Stored(cases', t, id)
  <2>1. CASE PutCase(w)
    <3>1. cases' = Put(cases, e.case) /\ e.kind = "put"
      BY <2>1 DEF PutCase, Doing
    <3>2. SoundCase(e.case) /\ e.case.tenant = t /\ e.case.case_id = id
      BY <1>3, <3>1 DEF SoundEffect
    <3> HIDE DEF e
    <3>3. /\ \A u, i : Stored(cases, u, i) => Stored(cases', u, i)
          /\ Stored(cases', t, id)
      BY <3>1, <3>2, PutKeepsRows
    <3>4. \A c \in cases' : SoundCase(c)
      BY <3>1, <3>2 DEF Put, WInv
    <3> QED
      BY <3>3, <3>4
  <2>2. CASE cases' = cases /\ e.kind # "put"
    BY <1>2, <2>2 DEF WInv
  <2> QED
    BY <2>1, <2>2 DEF Perform, ScheduleTimer, CancelTimer, Publish, Record, RouteToReview, Doing
<1>6. DOMAIN todo' = Workers /\ \A v \in Workers : Founded(todo'[v], cases')
  <2>1. DOMAIN todo' = Workers /\ todo'[w] = Tail(todo[w])
        /\ \A v \in Workers : v # w => todo'[v] = todo[v]
    BY <1>1 DEF WInv, Doing
  <2>2. Founded(todo'[w], cases')
    BY <1>3, <1>5, <2>1 DEF Founded
  <2>3. ASSUME NEW v \in Workers, v # w PROVE Founded(todo'[v], cases')
    <3>1. Founded(todo[v], cases)
      BY DEF WInv
    <3> QED
      BY <1>5, <2>1, <2>3, <3>1, FoundedOnMore
  <2> QED
    BY <2>1, <2>2, <2>3
<1>7. IsSeq(trail') /\ IsSeq(events') /\ IsSeq(reviews') /\ TenantsStayApart'
  BY <1>3, <1>5, PerformApart
<1> QED
  BY <1>4, <1>5, <1>6, <1>7 DEF WInv

LEMMA FailKeeps ==
    ASSUME WInv, NEW w \in Workers, Fail(w)
    PROVE  WInv'
<1>1. DOMAIN asked' = Workers /\ \A v \in Workers : SoundRequest(asked'[v])
  BY DEF WInv, Fail, SoundRequest
<1>2. UNCHANGED <<cases, timers, events, trail, reviews, now>>
  BY DEF Fail, ports
<1>3. DOMAIN todo' = Workers /\ \A v \in Workers : Founded(todo'[v], cases')
  BY <1>2, FoundedNone DEF WInv, Fail
<1>4. TenantsStayApart'
  BY <1>2 DEF WInv, TenantsStayApart
<1> QED
  BY <1>1, <1>2, <1>3, <1>4 DEF WInv

LEMMA TimerFiresKeeps ==
    ASSUME WInv, NEW w \in Workers, TimerFires(w)
    PROVE  WInv'
<1>1. DOMAIN asked' = Workers /\ \A v \in Workers : SoundRequest(asked'[v])
  BY DEF WInv, TimerFires, SoundRequest, Callers
<1>2. UNCHANGED <<cases, events, trail, reviews, now, todo>> /\ timers' \subseteq timers
  BY DEF TimerFires
<1>3. TenantsStayApart'
  BY <1>2 DEF WInv, TenantsStayApart
<1> QED
  BY <1>1, <1>2, <1>3 DEF WInv

-----------------------------------------------------------------------------

(* The invariant holds in every reachable state. *)
THEOREM WorkflowInvariance == Spec => []WInv
<1>1. Init => WInv
  <2> SUFFICES ASSUME Init PROVE WInv
    OBVIOUS
  <2>1. /\ DOMAIN todo = Workers /\ \A w \in Workers : todo[w] = << >>
        /\ \A w \in Workers : Founded(todo[w], cases)
    BY FoundedNone DEF Init
  <2>2. trail = << >> /\ events = << >> /\ reviews = << >>
    BY DEF Init
  <2>3. << >> \in Seq({}) /\ DOMAIN << >> = {}
    OBVIOUS
  <2>4. IsSeq(trail) /\ IsSeq(events) /\ IsSeq(reviews)
    BY <2>2, <2>3 DEF IsSeq
  <2>5. TenantsStayApart
    BY <2>2, <2>3 DEF Init, TenantsStayApart
  <2> QED
    BY <2>1, <2>4, <2>5 DEF Init, WInv, SoundRequest
<1>2. WInv /\ [Next]_vars => WInv'
  <2> SUFFICES ASSUME WInv, [Next]_vars PROVE WInv'
    OBVIOUS
  <2>1. CASE Tick
    BY <2>1 DEF Tick, WInv, ports, TenantsStayApart
  <2>2. ASSUME NEW w \in Workers,
               OpenCase(w) \/ Ask(w) \/ Serve(w) \/ Fail(w) \/ TimerFires(w)
        PROVE  WInv'
    BY <2>2, OpenCaseKeeps, AskKeeps, ServeKeeps, PerformKeeps, FailKeeps, TimerFiresKeeps
       DEF Serve
  <2>3. CASE UNCHANGED vars
    BY <2>3 DEF vars, WInv, TenantsStayApart
  <2> QED
    BY <2>1, <2>2, <2>3 DEF Next
<1> QED
  BY <1>1, <1>2, PTL DEF Spec

(* However many threads overwrite each other's rows and wherever they die, *)
(* every stored history is a legal walk that ends in the stored state.     *)
THEOREM HistoriesAreWalks == Spec => []HistoryIsWalk
<1>1. WInv => HistoryIsWalk
  BY DEF WInv, HistoryIsWalk, SoundCase
<1> QED
  BY <1>1, WorkflowInvariance, PTL

(* However the requests of several tenants overlap and wherever a handler  *)
(* dies, a case's history and trail name its own tenant's principals only, *)
(* and what is recorded, announced, scheduled or handed over in a tenant's *)
(* name is of a case that this tenant has.                                 *)
THEOREM TenantsApart == Spec => []TenantsStayApart
<1>1. WInv => TenantsStayApart
  BY DEF WInv
<1> QED
  BY <1>1, WorkflowInvariance, PTL

-----------------------------------------------------------------------------
(* Hand-offs.  An evaluation that escalates tells the trail, then          *)
(* announces, then routes, and no other plan does any of the three; so     *)
(* what is left of a plan says which of the three were done.               *)

IsEscalation(e, id) ==
    e.kind = "record" /\ e.event.case_id = id /\ e.event.decision = "escalated"
IsAnnouncement(e, id) ==
    e.kind = "publish" /\ e.event.case_id = id /\ e.event.type = "case.escalated"
IsHandOff(e, id) == e.kind = "route" /\ e.review.case_ref = id

ToTell(s, id) ==
    /\ Len(s) = 3
    /\ IsEscalation(s[1], id) /\ IsAnnouncement(s[2], id) /\ IsHandOff(s[3], id)
ToAnnounce(s, id) == Len(s) = 2 /\ IsAnnouncement(s[1], id) /\ IsHandOff(s[2], id)
ToRoute(s, id)    == Len(s) = 1 /\ IsHandOff(s[1], id)

(* An effect that is none of the three. *)
Quiet(e) ==
    /\ ~(e.kind = "record" /\ e.event.decision = "escalated")
    /\ ~(e.kind = "publish" /\ e.event.type = "case.escalated")
    /\ e.kind # "route"

QuietPlan(s) == \E S : s \in Seq(S) /\ \A e \in S : Quiet(e)
Shaped(s)    ==
    /\ IsSeq(s)
    /\ QuietPlan(s) \/ \E id : ToTell(s, id) \/ ToAnnounce(s, id) \/ ToRoute(s, id)

(* A plan as a decision leaves it: nothing of an escalation is done.       *)
Begins(s) == Shaped(s) /\ \A id : ~ToAnnounce(s, id) /\ ~ToRoute(s, id)

LEMMA QuietOver ==
    ASSUME NEW S, NEW s \in Seq(S), \A e \in S : Quiet(e)
    PROVE  QuietPlan(s)
  BY DEF QuietPlan

LEMMA QuietElements ==
    ASSUME NEW s, QuietPlan(s)
    PROVE  IsSeq(s) /\ \A i \in DOMAIN s : Quiet(s[i])
<1>1. PICK S : s \in Seq(S) /\ \A e \in S : Quiet(e)
  BY DEF QuietPlan
<1> QED
  BY <1>1 DEF IsSeq

LEMMA QuietBegins ==
    ASSUME NEW s, QuietPlan(s)
    PROVE  Begins(s) /\ \A id : ~ToTell(s, id)
<1>1. /\ IsSeq(s)
      /\ \A i \in 1..Len(s) : Quiet(s[i])
  BY QuietElements DEF IsSeq
<1>2. ASSUME NEW id
      PROVE  ~ToTell(s, id) /\ ~ToAnnounce(s, id) /\ ~ToRoute(s, id)
  <2>1. \A i \in 1..Len(s) : ~IsEscalation(s[i], id) /\ ~IsAnnouncement(s[i], id) /\ ~IsHandOff(s[i], id)
    BY <1>1 DEF Quiet, IsEscalation, IsAnnouncement, IsHandOff
  <2> QED
    BY <2>1 DEF ToTell, ToAnnounce, ToRoute
<1> QED
  BY <1>1, <1>2 DEF Begins, Shaped

LEMMA TellingBegins ==
    ASSUME NEW s, IsSeq(s), NEW id, ToTell(s, id)
    PROVE  Begins(s)
  BY DEF Begins, Shaped, ToTell, ToAnnounce, ToRoute

LEMMA QuietConcat ==
    ASSUME NEW s, NEW t, QuietPlan(s), QuietPlan(t)
    PROVE  QuietPlan(s \o t)
<1>1. PICK S : s \in Seq(S) /\ \A e \in S : Quiet(e)
  BY DEF QuietPlan
<1>2. PICK T : t \in Seq(T) /\ \A e \in T : Quiet(e)
  BY DEF QuietPlan
<1>3. s \in Seq(S \cup T) /\ t \in Seq(S \cup T)
  BY <1>1, <1>2
<1>4. s \o t \in Seq(S \cup T)
  BY <1>3
<1> QED
  BY <1>1, <1>2, <1>4 DEF QuietPlan

LEMMA QuietNone == QuietPlan(<< >>)
<1> DEFINE s == << >>
           S == {}
<1>1. s \in Seq(S) /\ \A x \in S : Quiet(x)
  OBVIOUS
<1>2. QuietPlan(s)
  <2> HIDE DEF s, S
  <2> QED
    BY <1>1, QuietOver
<1> QED
  BY <1>2

LEMMA QuietOne == ASSUME NEW e, Quiet(e) PROVE QuietPlan(<< e >>)
<1> DEFINE s == << e >>
           S == {e}
<1>1. s \in Seq(S) /\ \A x \in S : Quiet(x)
  OBVIOUS
<1>2. QuietPlan(s)
  <2> HIDE DEF s, S
  <2> QED
    BY <1>1, QuietOver
<1> QED
  BY <1>2

LEMMA QuietTwo == ASSUME NEW d, NEW e, Quiet(d), Quiet(e) PROVE QuietPlan(<< d, e >>)
<1> DEFINE s == << d, e >>
           S == {d, e}
<1>1. s \in Seq(S) /\ \A x \in S : Quiet(x)
  OBVIOUS
<1>2. QuietPlan(s)
  <2> HIDE DEF s, S
  <2> QED
    BY <1>1, QuietOver
<1> QED
  BY <1>2

LEMMA QuietEffects ==
    ASSUME NEW c, NEW action, NEW actor, NEW from, NEW to, NEW decision, NEW findings, NEW type,
           decision # "escalated", type # "case.escalated"
    PROVE  Quiet(Store(c)) /\ Quiet(Emit(type, c))
           /\ Quiet(Audit(c, action, actor, from, to, decision, findings))
  BY DEF Quiet, Store, Emit, Audit

(* The loops over the clocks of a definition are quiet. *)
LEMMA QuietLoops ==
    ASSUME NEW c \in Case, NEW as_of
    PROVE  QuietPlan(ScheduleClocks(c, as_of)) /\ QuietPlan(CancelClocks(c))
<1> DEFINE clocks == Definition(c).clocks
<1>1. clocks \in Seq(ClockSpec(ClockNames, States))
  BY EngineAssumption DEF Case, Definition, IsWorkflowDefinition
<1>2. DOMAIN clocks = 1..Len(clocks) /\ Len(clocks) \in Nat
  BY <1>1
<1>3. QuietPlan(ScheduleClocks(c, as_of))
  <2> DEFINE E(i) == Wake("schedule", c, clocks[i].name, Deadline(c, clocks[i], as_of).due_at)
             S    == {E(i) : i \in DOMAIN clocks}
  <2>1. \A i : Quiet(E(i))
    BY DEF Quiet, Wake
  <2> HIDE DEF E, clocks
  <2>2. [i \in DOMAIN clocks |-> E(i)] \in Seq(S)
    BY <1>2
  <2>3. QuietPlan([i \in DOMAIN clocks |-> E(i)])
    BY <2>1, <2>2, QuietOver
  <2> QED
    BY <2>3 DEF E, clocks, ScheduleClocks
<1>4. QuietPlan(CancelClocks(c))
  <2> DEFINE E(i) == Wake("cancel", c, clocks[i].name, 0)
             S    == {E(i) : i \in DOMAIN clocks}
  <2>1. \A i : Quiet(E(i))
    BY DEF Quiet, Wake
  <2> HIDE DEF E, clocks
  <2>2. [i \in DOMAIN clocks |-> E(i)] \in Seq(S)
    BY <1>2
  <2>3. QuietPlan([i \in DOMAIN clocks |-> E(i)])
    BY <2>1, <2>2, QuietOver
  <2> QED
    BY <2>3 DEF E, clocks, CancelClocks
<1> QED
  BY <1>3, <1>4

LEMMA EffectsBegin ==
    ASSUME NEW c, SoundCase(c), NEW moved, SoundCase(moved), NEW actor, NEW findings, NEW to
    PROVE  /\ Begins(OpenEffects(c, actor))
           /\ Begins(TransitionEffects(c, moved, actor))
           /\ Begins(<< Audit(c, "transition", actor, c.state, to, "rejected", {}) >>)
           /\ Begins(EvaluateEffects(c, actor, findings))
<1>1. Begins(OpenEffects(c, actor))
  <2>1. QuietPlan(<< Store(c) >>) /\ QuietPlan(ScheduleClocks(c, c.opened_at))
    BY QuietEffects, QuietOne, QuietLoops DEF SoundCase
  <2>2. QuietPlan(<< Emit("case.opened", c), Audit(c, "open", actor, NoState, c.state, "allowed", {}) >>)
    BY QuietEffects, QuietTwo
  <2>3. QuietPlan(<< Store(c) >> \o ScheduleClocks(c, c.opened_at))
    BY <2>1, QuietConcat
  <2> QED
    BY <2>2, <2>3, QuietConcat, QuietBegins DEF OpenEffects
<1>2. Begins(TransitionEffects(c, moved, actor))
  <2> DEFINE cancels == IF IsTerminal(moved) THEN CancelClocks(moved) ELSE << >>
  <2>1. QuietPlan(<< Store(moved) >>)
    BY QuietEffects, QuietOne
  <2>2. QuietPlan(cancels)
    BY QuietNone, QuietLoops DEF SoundCase
  <2>3. QuietPlan(<< Emit("case.transitioned", moved),
                     Audit(moved, "transition", actor, c.state, moved.state, "allowed", {}) >>)
    BY QuietEffects, QuietTwo
  <2>4. QuietPlan(<< Store(moved) >> \o cancels)
    <3> HIDE DEF cancels
    <3> QED
      BY <2>1, <2>2, QuietConcat
  <2> QED
    BY <2>3, <2>4, QuietConcat, QuietBegins DEF TransitionEffects
<1>3. Begins(<< Audit(c, "transition", actor, c.state, to, "rejected", {}) >>)
  <2>1. Quiet(Audit(c, "transition", actor, c.state, to, "rejected", {}))
    BY QuietEffects
  <2> QED
    BY <2>1, QuietOne, QuietBegins
<1>4. Begins(EvaluateEffects(c, actor, findings))
  <2>1. Begins(<< Audit(c, "evaluate", actor, c.state, c.state, "allowed", findings) >>)
    <3>1. Quiet(Audit(c, "evaluate", actor, c.state, c.state, "allowed", findings))
      BY QuietEffects
    <3> QED
      BY <3>1, QuietOne, QuietBegins
  <2>2. Begins(<< Audit(c, "evaluate", actor, c.state, c.state, "escalated", findings),
                  Emit("case.escalated", c), Route(c, findings) >>)
    <3> DEFINE a == Audit(c, "evaluate", actor, c.state, c.state, "escalated", findings)
               e == Emit("case.escalated", c)
               r == Route(c, findings)
               s == << a, e, r >>
    <3>1. /\ IsEscalation(a, c.case_id) /\ IsAnnouncement(e, c.case_id) /\ IsHandOff(r, c.case_id)
      BY DEF IsEscalation, IsAnnouncement, IsHandOff, Audit, Emit, Route
    <3> HIDE DEF a, e, r
    <3>2. s \in Seq({a, e, r}) /\ Len(s) = 3 /\ s[1] = a /\ s[2] = e /\ s[3] = r
      OBVIOUS
    <3> HIDE DEF s
    <3>3. Begins(s)
      BY <3>1, <3>2, TellingBegins DEF ToTell, IsSeq
    <3> QED
      BY <3>3 DEF s, a, e, r
  <2> QED
    BY <2>1, <2>2 DEF EvaluateEffects
<1> QED
  BY <1>1, <1>2, <1>3, <1>4

(* What is left of a plan when its first effect is performed.              *)
LEMMA ShapeStep ==
    ASSUME NEW s, Shaped(s), s # << >>, NEW id
    PROVE  /\ Shaped(Tail(s))
           /\ IsEscalation(Head(s), id) <=> ToTell(s, id)
           /\ IsAnnouncement(Head(s), id) <=> ToAnnounce(s, id)
           /\ IsHandOff(Head(s), id) <=> ToRoute(s, id)
           /\ ToAnnounce(Tail(s), id) <=> ToTell(s, id)
           /\ ToRoute(Tail(s), id) <=> ToAnnounce(s, id)
<1>1. PICK S : s \in Seq(S)
  BY DEF Shaped, IsSeq
<1>2. /\ Head(s) = s[1] /\ Tail(s) \in Seq(S) /\ Len(s) \in Nat \ {0} /\ Len(Tail(s)) = Len(s) - 1
      /\ \A i \in 1..(Len(s) - 1) : Tail(s)[i] = s[i + 1]
  BY <1>1
<1>3. CASE QuietPlan(s)
  <2>1. PICK T : s \in Seq(T) /\ \A e \in T : Quiet(e)
    BY <1>3 DEF QuietPlan
  <2>2. Tail(s) \in Seq(T) /\ Quiet(Head(s))
    BY <1>2, <2>1
  <2>3. QuietPlan(Tail(s))
    BY <2>1, <2>2 DEF QuietPlan
  <2>4. ~IsEscalation(Head(s), id) /\ ~IsAnnouncement(Head(s), id) /\ ~IsHandOff(Head(s), id)
    BY <2>2 DEF Quiet, IsEscalation, IsAnnouncement, IsHandOff
  <2> QED
    BY <1>3, <2>3, <2>4, QuietBegins DEF Begins
<1>4. ASSUME NEW x, ToTell(s, x) \/ ToAnnounce(s, x) \/ ToRoute(s, x)
      PROVE  /\ Shaped(Tail(s))
             /\ IsEscalation(Head(s), id) <=> ToTell(s, id)
             /\ IsAnnouncement(Head(s), id) <=> ToAnnounce(s, id)
             /\ IsHandOff(Head(s), id) <=> ToRoute(s, id)
             /\ ToAnnounce(Tail(s), id) <=> ToTell(s, id)
             /\ ToRoute(Tail(s), id) <=> ToAnnounce(s, id)
  <2>1. CASE ToTell(s, x)
    <3>1. ToAnnounce(Tail(s), x)
      BY <1>2, <2>1 DEF ToTell, ToAnnounce
    <3> QED
      BY <1>2, <2>1, <3>1 DEF ToTell, ToAnnounce, ToRoute, Shaped, IsSeq, IsEscalation,
                              IsAnnouncement, IsHandOff
  <2>2. CASE ToAnnounce(s, x)
    <3>1. ToRoute(Tail(s), x)
      BY <1>2, <2>2 DEF ToRoute, ToAnnounce
    <3> QED
      BY <1>2, <2>2, <3>1 DEF ToTell, ToAnnounce, ToRoute, Shaped, IsSeq, IsEscalation,
                              IsAnnouncement, IsHandOff
  <2>3. CASE ToRoute(s, x)
    <3>1. Len(Tail(s)) = 0
      BY <1>2, <2>3 DEF ToRoute
    <3>2. Begins(Tail(s))
      <4> DEFINE u == Tail(s)
      <4>1. u \in Seq(S) /\ Len(u) = 0
        BY <1>2, <3>1
      <4> HIDE DEF u
      <4>2. u = << >>
        BY <4>1
      <4>3. Begins(u)
        BY <4>2, QuietNone, QuietBegins
      <4> QED
        BY <4>3 DEF u
    <3> QED
      BY <1>2, <2>3, <3>1, <3>2
         DEF ToTell, ToAnnounce, ToRoute, Begins, Shaped, IsEscalation, IsAnnouncement, IsHandOff
  <2> QED
    BY <1>4, <2>1, <2>2, <2>3
<1> QED
  BY <1>3, <1>4 DEF Shaped

-----------------------------------------------------------------------------
(* Counting. *)

Announcers(id) == {w \in Workers : ToAnnounce(todo[w], id)}
Routers(id)    == {w \in Workers : ToRoute(todo[w], id)}

(* One for what is so, none for what is not. *)
One(p) == IF p THEN 1 ELSE 0

(* What the trail tells was announced or is to be, and so on.              *)
Balanced(id) ==
    /\ Escalations(id) >= Announced(id) + Cardinality(Announcers(id))
    /\ Announced(id) >= Routed(id) + Cardinality(Routers(id))
    /\ Escalations(id) <=
         Routed(id) + Cardinality(Announcers(id)) + Cardinality(Routers(id)) + failures

HInv ==
    /\ IsSeq(trail) /\ IsSeq(events) /\ IsSeq(reviews)
    /\ failures \in Nat
    /\ DOMAIN asked = Workers /\ todo = [w \in Workers |-> todo[w]]
    /\ \A w \in Workers : Shaped(todo[w]) /\ (asked[w] = NotAsked \/ todo[w] = << >>)
    /\ \A id : Balanced(id)

LEMMA CountsAreNaturals ==
    ASSUME HInv, NEW id
    PROVE  /\ Escalations(id) \in Nat /\ Announced(id) \in Nat /\ Routed(id) \in Nat
           /\ Cardinality(Announcers(id)) \in Nat /\ Cardinality(Routers(id)) \in Nat
           /\ IsFiniteSet(EscalatedAt(id)) /\ IsFiniteSet(AnnouncedAt(id))
           /\ IsFiniteSet(RoutedAt(id))
           /\ IsFiniteSet(Announcers(id)) /\ IsFiniteSet(Routers(id))
<1>1. ASSUME NEW s, IsSeq(s) PROVE IsFiniteSet(DOMAIN s)
  <2>1. DOMAIN s = 1..Len(s) /\ Len(s) \in Nat
    BY <1>1 DEF IsSeq
  <2> QED
    BY <2>1, FS_Interval
<1>2. /\ IsFiniteSet(DOMAIN trail) /\ IsFiniteSet(DOMAIN events) /\ IsFiniteSet(DOMAIN reviews)
  BY <1>1 DEF HInv
<1>3. /\ EscalatedAt(id) \subseteq DOMAIN trail /\ AnnouncedAt(id) \subseteq DOMAIN events
      /\ RoutedAt(id) \subseteq DOMAIN reviews
      /\ Announcers(id) \subseteq Workers /\ Routers(id) \subseteq Workers
  BY DEF EscalatedAt, AnnouncedAt, RoutedAt, Announcers, Routers
<1>4. IsFiniteSet(Workers)
  BY WorkflowAssumption
<1>5. /\ IsFiniteSet(EscalatedAt(id)) /\ IsFiniteSet(AnnouncedAt(id)) /\ IsFiniteSet(RoutedAt(id))
      /\ IsFiniteSet(Announcers(id)) /\ IsFiniteSet(Routers(id))
  BY <1>2, <1>3, <1>4, FS_Subset
<1> QED
  BY <1>5, FS_CardinalityType DEF Escalations, Announced, Routed

(* One more, or one less. *)
LEMMA OneMore ==
    ASSUME NEW S, IsFiniteSet(S), NEW x, x \notin S, NEW p \in BOOLEAN
    PROVE  Cardinality(S \cup (IF p THEN {x} ELSE {})) = Cardinality(S) + One(p)
<1>1. Cardinality(S) \in Nat
  BY FS_CardinalityType
<1>2. CASE p
  BY <1>1, <1>2, FS_AddElement DEF One
<1>3. CASE ~p
  <2>1. S \cup (IF p THEN {x} ELSE {}) = S
    BY <1>3
  <2> QED
    BY <1>1, <1>3, <2>1 DEF One
<1> QED
  BY <1>2, <1>3

LEMMA OneElsewhere ==
    ASSUME NEW S, IsFiniteSet(S), NEW T, NEW x, S \ {x} = T \ {x}
    PROVE  Cardinality(T) = Cardinality(S) + One(x \in T) - One(x \in S)
<1> DEFINE R == S \ {x}
<1>1. IsFiniteSet(R)
  BY FS_Subset
<1>2. S = R \cup (IF x \in S THEN {x} ELSE {}) /\ T = R \cup (IF x \in T THEN {x} ELSE {}) /\ x \notin R
  OBVIOUS
<1> HIDE DEF R
<1>3. Cardinality(S) = Cardinality(R) + One(x \in S) /\ Cardinality(T) = Cardinality(R) + One(x \in T)
  <2> DEFINE p == x \in S
             q == x \in T
  <2>1. p \in BOOLEAN /\ q \in BOOLEAN
    OBVIOUS
  <2>2. /\ Cardinality(R \cup (IF p THEN {x} ELSE {})) = Cardinality(R) + One(p)
        /\ Cardinality(R \cup (IF q THEN {x} ELSE {})) = Cardinality(R) + One(q)
    <3> HIDE DEF p, q
    <3> QED
      BY <1>1, <1>2, <2>1, OneMore
  <2> QED
    BY <1>2, <2>2
<1>4. Cardinality(R) \in Nat /\ One(x \in S) \in Nat /\ One(x \in T) \in Nat
  BY <1>1, FS_CardinalityType DEF One
<1> QED
  BY <1>3, <1>4

(* One thread's plan changes. *)
LEMMA PlanChanges ==
    ASSUME HInv, NEW w \in Workers, NEW s, todo' = [todo EXCEPT ![w] = s], NEW id
    PROVE  /\ Cardinality(Announcers(id)') =
                Cardinality(Announcers(id)) + One(ToAnnounce(s, id)) - One(ToAnnounce(todo[w], id))
           /\ Cardinality(Routers(id)') =
                Cardinality(Routers(id)) + One(ToRoute(s, id)) - One(ToRoute(todo[w], id))
<1>1. todo'[w] = s /\ \A v \in Workers \ {w} : todo'[v] = todo[v]
  BY DEF HInv
<1>2. /\ Announcers(id) \ {w} = Announcers(id)' \ {w}
      /\ Routers(id) \ {w} = Routers(id)' \ {w}
      /\ (w \in Announcers(id)) <=> ToAnnounce(todo[w], id)
      /\ (w \in Announcers(id)') <=> ToAnnounce(s, id)
      /\ (w \in Routers(id)) <=> ToRoute(todo[w], id)
      /\ (w \in Routers(id)') <=> ToRoute(s, id)
  BY <1>1 DEF Announcers, Routers
<1>3. /\ Cardinality(Announcers(id)') =
           Cardinality(Announcers(id)) + One(w \in Announcers(id)') - One(w \in Announcers(id))
      /\ Cardinality(Routers(id)') =
           Cardinality(Routers(id)) + One(w \in Routers(id)') - One(w \in Routers(id))
  BY <1>2, CountsAreNaturals, OneElsewhere
<1> QED
  BY <1>2, <1>3 DEF One

LEMMA RecordCounts ==
    ASSUME HInv, NEW w \in Workers, Record(w), NEW id
    PROVE  Escalations(id)' = Escalations(id) + One(IsEscalation(Head(todo[w]), id))
<1> DEFINE e == Head(todo[w]).event
           p == IsEscalation(Head(todo[w]), id)
           n == Len(trail) + 1
<1>1. trail' = Append(trail, e) /\ IsSeq(trail) /\ Head(todo[w]).kind = "record"
  BY DEF Record, Doing, HInv
<1>2. p <=> e.case_id = id /\ e.decision = "escalated"
  BY <1>1 DEF IsEscalation
<1> HIDE DEF e, p
<1>3. EscalatedAt(id)' = EscalatedAt(id) \cup (IF p THEN {n} ELSE {}) /\ n \notin EscalatedAt(id)
  BY <1>1, <1>2, CountAfterAppend DEF EscalatedAt
<1>4. p \in BOOLEAN
  BY DEF p, IsEscalation
<1> HIDE DEF n
<1> QED
  BY <1>3, <1>4, CountsAreNaturals, OneMore DEF Escalations, p

LEMMA PublishCounts ==
    ASSUME HInv, NEW w \in Workers, Publish(w), NEW id
    PROVE  Announced(id)' = Announced(id) + One(IsAnnouncement(Head(todo[w]), id))
<1> DEFINE e == Head(todo[w]).event
           p == IsAnnouncement(Head(todo[w]), id)
           n == Len(events) + 1
<1>1. events' = Append(events, e) /\ IsSeq(events) /\ Head(todo[w]).kind = "publish"
  BY DEF Publish, Doing, HInv
<1>2. p <=> e.case_id = id /\ e.type = "case.escalated"
  BY <1>1 DEF IsAnnouncement
<1> HIDE DEF e, p
<1>3. AnnouncedAt(id)' = AnnouncedAt(id) \cup (IF p THEN {n} ELSE {}) /\ n \notin AnnouncedAt(id)
  BY <1>1, <1>2, CountAfterAppend DEF AnnouncedAt
<1>4. p \in BOOLEAN
  BY DEF p, IsAnnouncement
<1> HIDE DEF n
<1> QED
  BY <1>3, <1>4, CountsAreNaturals, OneMore DEF Announced, p

LEMMA RouteCounts ==
    ASSUME HInv, NEW w \in Workers, RouteToReview(w), NEW id
    PROVE  Routed(id)' = Routed(id) + One(IsHandOff(Head(todo[w]), id))
<1> DEFINE r == Head(todo[w]).review
           p == IsHandOff(Head(todo[w]), id)
           n == Len(reviews) + 1
<1>1. reviews' = Append(reviews, r) /\ IsSeq(reviews) /\ Head(todo[w]).kind = "route"
  BY DEF RouteToReview, Doing, HInv
<1>2. p <=> r.case_ref = id
  BY <1>1 DEF IsHandOff
<1> HIDE DEF r, p
<1>3. RoutedAt(id)' = RoutedAt(id) \cup (IF p THEN {n} ELSE {}) /\ n \notin RoutedAt(id)
  BY <1>1, <1>2, CountAfterAppend DEF RoutedAt
<1>4. p \in BOOLEAN
  BY DEF p, IsHandOff
<1> HIDE DEF n
<1> QED
  BY <1>3, <1>4, CountsAreNaturals, OneMore DEF Routed, p

(* An effect keeps the balance. *)
LEMMA EffectCounts ==
    ASSUME HInv, NEW w \in Workers, Perform(w), NEW id
    PROVE  /\ Escalations(id)' = Escalations(id) + One(ToTell(todo[w], id))
           /\ Announced(id)' = Announced(id) + One(ToAnnounce(todo[w], id))
           /\ Routed(id)' = Routed(id) + One(ToRoute(todo[w], id))
<1> DEFINE e == Head(todo[w])
<1>1. /\ IsEscalation(e, id) <=> ToTell(todo[w], id)
      /\ IsAnnouncement(e, id) <=> ToAnnounce(todo[w], id)
      /\ IsHandOff(e, id) <=> ToRoute(todo[w], id)
  <2>1. todo[w] # << >>
    BY DEF Perform, PutCase, ScheduleTimer, CancelTimer, Publish, Record, RouteToReview, Doing
  <2> QED
    BY <2>1, ShapeStep DEF HInv
<1>2. /\ trail' = trail => Escalations(id)' = Escalations(id)
      /\ events' = events => Announced(id)' = Announced(id)
      /\ reviews' = reviews => Routed(id)' = Routed(id)
      /\ Escalations(id) + 0 = Escalations(id) /\ Announced(id) + 0 = Announced(id)
      /\ Routed(id) + 0 = Routed(id)
  <2>1. /\ trail' = trail => Escalations(id)' = Escalations(id)
        /\ events' = events => Announced(id)' = Announced(id)
        /\ reviews' = reviews => Routed(id)' = Routed(id)
    BY DEF Escalations, EscalatedAt, Announced, AnnouncedAt, Routed, RoutedAt
  <2>2. Escalations(id) \in Nat /\ Announced(id) \in Nat /\ Routed(id) \in Nat
    BY CountsAreNaturals
  <2> QED
    BY <2>1, <2>2
<1>3. CASE Record(w)
  <2>1. e.kind = "record" /\ events' = events /\ reviews' = reviews
    BY <1>3 DEF Record, Doing
  <2>2. ~IsAnnouncement(e, id) /\ ~IsHandOff(e, id)
    BY <2>1 DEF IsAnnouncement, IsHandOff
  <2>3. Escalations(id)' = Escalations(id) + One(IsEscalation(e, id))
    BY <1>3, RecordCounts
  <2> HIDE DEF e
  <2> QED
    BY <1>1, <1>2, <2>1, <2>2, <2>3 DEF One
<1>4. CASE Publish(w)
  <2>1. e.kind = "publish" /\ trail' = trail /\ reviews' = reviews
    BY <1>4 DEF Publish, Doing
  <2>2. ~IsEscalation(e, id) /\ ~IsHandOff(e, id)
    BY <2>1 DEF IsEscalation, IsHandOff
  <2>3. Announced(id)' = Announced(id) + One(IsAnnouncement(e, id))
    BY <1>4, PublishCounts
  <2> HIDE DEF e
  <2> QED
    BY <1>1, <1>2, <2>1, <2>2, <2>3 DEF One
<1>5. CASE RouteToReview(w)
  <2>1. e.kind = "route" /\ trail' = trail /\ events' = events
    BY <1>5 DEF RouteToReview, Doing
  <2>2. ~IsEscalation(e, id) /\ ~IsAnnouncement(e, id)
    BY <2>1 DEF IsEscalation, IsAnnouncement
  <2>3. Routed(id)' = Routed(id) + One(IsHandOff(e, id))
    BY <1>5, RouteCounts
  <2> HIDE DEF e
  <2> QED
    BY <1>1, <1>2, <2>1, <2>2, <2>3 DEF One
<1>6. CASE PutCase(w) \/ ScheduleTimer(w) \/ CancelTimer(w)
  <2>1. /\ e.kind \in {"put", "schedule", "cancel"}
        /\ trail' = trail /\ events' = events /\ reviews' = reviews
    BY <1>6 DEF PutCase, ScheduleTimer, CancelTimer, Doing
  <2>2. ~IsEscalation(e, id) /\ ~IsAnnouncement(e, id) /\ ~IsHandOff(e, id)
    BY <2>1 DEF IsEscalation, IsAnnouncement, IsHandOff
  <2> HIDE DEF e
  <2> QED
    BY <1>1, <1>2, <2>1, <2>2 DEF One
<1> QED
  BY <1>3, <1>4, <1>5, <1>6 DEF Perform

LEMMA PerformBalances ==
    ASSUME HInv, NEW w \in Workers, Perform(w)
    PROVE  HInv'
<1> DEFINE s == todo[w]
<1>1. PICK kind : Doing(w, kind)
  BY DEF Perform, PutCase, ScheduleTimer, CancelTimer, Publish, Record, RouteToReview
<1>2. s # << >> /\ todo' = [todo EXCEPT ![w] = Tail(s)] /\ asked' = asked /\ failures' = failures
  BY <1>1 DEF Doing
<1>3. \A id : /\ Shaped(Tail(s))
              /\ ToAnnounce(Tail(s), id) <=> ToTell(s, id)
              /\ ToRoute(Tail(s), id) <=> ToAnnounce(s, id)
  BY <1>2, ShapeStep DEF HInv
<1>4. IsSeq(trail') /\ IsSeq(events') /\ IsSeq(reviews')
  <2>1. IsSeq(trail) /\ IsSeq(events) /\ IsSeq(reviews)
    BY DEF HInv
  <2>2. /\ trail' = trail \/ \E e : trail' = Append(trail, e)
        /\ events' = events \/ \E e : events' = Append(events, e)
        /\ reviews' = reviews \/ \E e : reviews' = Append(reviews, e)
    BY DEF Perform, PutCase, ScheduleTimer, CancelTimer, Publish, Record, RouteToReview
  <2>3. \A s1, e : IsSeq(s1) => IsSeq(Append(s1, e))
    BY CountAfterAppend
  <2> QED
    BY <2>1, <2>2, <2>3
<1>5. ASSUME NEW id
      PROVE  Balanced(id)'
  <2>1. /\ Cardinality(Announcers(id)') =
              Cardinality(Announcers(id)) + One(ToTell(s, id)) - One(ToAnnounce(s, id))
        /\ Cardinality(Routers(id)') =
              Cardinality(Routers(id)) + One(ToAnnounce(s, id)) - One(ToRoute(s, id))
    BY <1>2, <1>3, PlanChanges DEF One
  <2>2. /\ Escalations(id)' = Escalations(id) + One(ToTell(s, id))
        /\ Announced(id)' = Announced(id) + One(ToAnnounce(s, id))
        /\ Routed(id)' = Routed(id) + One(ToRoute(s, id))
    BY EffectCounts
  <2>3. One(ToTell(s, id)) \in Nat /\ One(ToAnnounce(s, id)) \in Nat /\ One(ToRoute(s, id)) \in Nat
    BY DEF One
  <2>4. Balanced(id) /\ failures \in Nat
    BY DEF HInv
  <2> DEFINE tell == One(ToTell(s, id))
             announce == One(ToAnnounce(s, id))
             route    == One(ToRoute(s, id))
             a == Cardinality(Announcers(id))
             b == Cardinality(Routers(id))
  <2>5. /\ Escalations(id) \in Nat /\ Announced(id) \in Nat /\ Routed(id) \in Nat
        /\ a \in Nat /\ b \in Nat
    BY CountsAreNaturals
  <2>6. /\ tell \in Nat /\ announce \in Nat /\ route \in Nat
        /\ Cardinality(Announcers(id)') = a + tell - announce
        /\ Cardinality(Routers(id)') = b + announce - route
        /\ Escalations(id)' = Escalations(id) + tell
        /\ Announced(id)' = Announced(id) + announce
        /\ Routed(id)' = Routed(id) + route
    BY <2>1, <2>2, <2>3
  <2>7. /\ Escalations(id) >= Announced(id) + a /\ Announced(id) >= Routed(id) + b
        /\ Escalations(id) <= Routed(id) + a + b + failures
    BY <2>4 DEF Balanced
  <2> HIDE DEF s, tell, announce, route, a, b
  <2>8. Escalations(id)' >= Announced(id)' + Cardinality(Announcers(id)')
    BY <2>5, <2>6, <2>7
  <2>9. Announced(id)' >= Routed(id)' + Cardinality(Routers(id)')
    BY <2>5, <2>6, <2>7
  <2>10. Escalations(id)' <=
           Routed(id)' + Cardinality(Announcers(id)') + Cardinality(Routers(id)') + failures'
    BY <1>2, <2>4, <2>5, <2>6, <2>7
  <2> QED
    BY <2>8, <2>9, <2>10 DEF Balanced
<1>6. /\ DOMAIN asked' = Workers /\ todo' = [v \in Workers |-> todo'[v]]
      /\ \A v \in Workers : Shaped(todo'[v]) /\ (asked'[v] = NotAsked \/ todo'[v] = << >>)
  BY <1>2, <1>3 DEF HInv
<1> QED
  BY <1>2, <1>4, <1>5, <1>6 DEF HInv

(* A thread with no plan begins one, or begins none. *)
LEMMA BeginningBalances ==
    ASSUME HInv, NEW w \in Workers, todo[w] = << >>, NEW s, Begins(s),
           todo' = [todo EXCEPT ![w] = s],
           UNCHANGED << events, trail, reviews, failures >>
    PROVE  /\ todo' = [v \in Workers |-> todo'[v]]
           /\ \A v \in Workers : Shaped(todo'[v])
           /\ \A id : Balanced(id)'
<1>1. ASSUME NEW id
      PROVE  Balanced(id)'
  <2>1. ~ToAnnounce(todo[w], id) /\ ~ToRoute(todo[w], id)
    BY QuietNone, QuietBegins DEF Begins
  <2>2. ~ToAnnounce(s, id) /\ ~ToRoute(s, id)
    BY DEF Begins
  <2>3. /\ Cardinality(Announcers(id)') = Cardinality(Announcers(id))
        /\ Cardinality(Routers(id)') = Cardinality(Routers(id))
    <3>1. /\ Cardinality(Announcers(id)') =
                Cardinality(Announcers(id)) + One(ToAnnounce(s, id)) - One(ToAnnounce(todo[w], id))
          /\ Cardinality(Routers(id)') =
                Cardinality(Routers(id)) + One(ToRoute(s, id)) - One(ToRoute(todo[w], id))
      BY PlanChanges
    <3>2. /\ One(ToAnnounce(s, id)) = 0 /\ One(ToAnnounce(todo[w], id)) = 0
          /\ One(ToRoute(s, id)) = 0 /\ One(ToRoute(todo[w], id)) = 0
      BY <2>1, <2>2 DEF One
    <3> QED
      BY <3>1, <3>2, CountsAreNaturals
  <2>4. /\ Escalations(id)' = Escalations(id) /\ Announced(id)' = Announced(id)
        /\ Routed(id)' = Routed(id)
    BY DEF Escalations, EscalatedAt, Announced, AnnouncedAt, Routed, RoutedAt
  <2> QED
    BY <2>3, <2>4 DEF Balanced, HInv
<1> QED
  BY <1>1 DEF HInv, Begins

LEMMA DecideBalances ==
    ASSUME HInv, NEW w \in Workers, asked[w] # NotAsked, NEW s, Begins(s), Decide(w, s)
    PROVE  HInv'
<1>1. /\ todo[w] = << >> /\ todo' = [todo EXCEPT ![w] = s]
      /\ asked' = [asked EXCEPT ![w] = NotAsked]
      /\ UNCHANGED << events, trail, reviews, failures >>
  BY DEF Decide, ports, HInv
<1>2. /\ todo' = [v \in Workers |-> todo'[v]]
      /\ \A v \in Workers : Shaped(todo'[v])
      /\ \A id : Balanced(id)'
  BY <1>1, BeginningBalances
<1>3. \A v \in Workers : asked'[v] = NotAsked \/ todo'[v] = << >>
  BY <1>1 DEF HInv
<1> QED
  BY <1>1, <1>2, <1>3 DEF HInv

LEMMA ServeBalances ==
    ASSUME WInv, HInv, NEW w \in Workers,
           CaseNotFound(w) \/ TransitionCase(w) \/ RefuseTransition(w) \/ EvaluateCase(w)
    PROVE  HInv'
<1> DEFINE r == asked[w]
<1>1. r # NotAsked
  BY DEF CaseNotFound, TransitionCase, RefuseTransition, EvaluateCase, NotAsked
<1>2. CASE CaseNotFound(w)
  BY <1>1, <1>2, QuietNone, QuietBegins, DecideBalances DEF CaseNotFound
<1>3. ASSUME NEW c \in Loaded(w)
      PROVE  /\ SoundCase(c) /\ r.who.actor \in Actors /\ r.stamp \in Nat
             /\ Own(r.who.actor, c.tenant)
  BY <1>1, <1>3, TypeOfLoaded
<1>4. CASE TransitionCase(w)
  <2>1. PICK c \in Loaded(w) :
          /\ IsLegal(c, r.to)
          /\ Decide(w, TransitionEffects(c, Moved(c, r.to, r.who.actor, r.stamp), r.who.actor))
    BY <1>4 DEF TransitionCase
  <2> DEFINE m == Moved(c, r.to, r.who.actor, r.stamp)
  <2>2. SoundCase(c) /\ SoundCase(m)
    BY <1>3, <2>1, MovedSound
  <2> HIDE DEF m
  <2>3. Begins(TransitionEffects(c, m, r.who.actor))
    BY <2>2, EffectsBegin
  <2> QED
    BY <1>1, <2>1, <2>3, DecideBalances DEF m
<1>5. CASE RefuseTransition(w)
  <2>1. PICK c \in Loaded(w) :
          Decide(w, << Audit(c, "transition", r.who.actor, c.state, r.to, "rejected", {}) >>)
    BY <1>5 DEF RefuseTransition
  <2>2. Begins(<< Audit(c, "transition", r.who.actor, c.state, r.to, "rejected", {}) >>)
    BY <1>3, EffectsBegin
  <2> QED
    BY <1>1, <2>1, <2>2, DecideBalances
<1>6. CASE EvaluateCase(w)
  <2>1. PICK c \in Loaded(w) :
          Decide(w, EvaluateEffects(c, r.who.actor, Findings(c, r.stamp)))
    BY <1>6 DEF EvaluateCase
  <2>2. Begins(EvaluateEffects(c, r.who.actor, Findings(c, r.stamp)))
    BY <1>3, EffectsBegin
  <2> QED
    BY <1>1, <2>1, <2>2, DecideBalances
<1> QED
  BY <1>2, <1>4, <1>5, <1>6

LEMMA OpenBalances ==
    ASSUME WInv, HInv, NEW w \in Workers, OpenCase(w)
    PROVE  HInv'
<1>1. PICK p \in Principals, id \in FreshIds, type \in DOMAIN Definitions, s \in Severities :
        todo' = [todo EXCEPT ![w] = OpenEffects(NewCase(id, p.tenant, type, s, now), p.actor)]
  BY DEF OpenCase
<1> DEFINE c == NewCase(id, p.tenant, type, s, now)
           plan == OpenEffects(c, p.actor)
<1>2. SoundCase(c)
  <2>1. p.tenant \in Tenants
    BY CallerIsOwn DEF Callers
  <2>2. id \in CaseIds /\ now \in Nat
    BY DEF FreshIds, WInv
  <2> QED
    BY <2>1, <2>2, NewCaseSound
<1>3. Begins(plan)
  <2> HIDE DEF c
  <2> QED
    BY <1>2, EffectsBegin
<1>4. /\ todo' = [todo EXCEPT ![w] = plan] /\ todo[w] = << >> /\ asked' = asked
      /\ asked[w] = NotAsked /\ UNCHANGED << events, trail, reviews, failures >>
  BY <1>1 DEF OpenCase, IsIdle, ports
<1> HIDE DEF plan
<1>5. /\ todo' = [v \in Workers |-> todo'[v]]
      /\ \A v \in Workers : Shaped(todo'[v])
      /\ \A x : Balanced(x)'
  BY <1>3, <1>4, BeginningBalances
<1>6. \A v \in Workers : asked'[v] = NotAsked \/ todo'[v] = << >>
  BY <1>4 DEF HInv
<1> QED
  BY <1>4, <1>5, <1>6 DEF HInv

(* A handler's death keeps the balance but for what it still owed. *)
LEMMA FailBalances ==
    ASSUME HInv, NEW w \in Workers, Fail(w)
    PROVE  HInv'
<1> DEFINE s == todo[w]
           none == << >>
<1>1. /\ todo' = [todo EXCEPT ![w] = none] /\ asked' = [asked EXCEPT ![w] = NotAsked]
      /\ failures' = failures + 1 /\ UNCHANGED << events, trail, reviews >>
  BY DEF Fail, ports
<1>2. Begins(none)
  BY QuietNone, QuietBegins
<1> HIDE DEF none
<1>3. ASSUME NEW id
      PROVE  Balanced(id)'
  <2>1. /\ Cardinality(Announcers(id)') =
              Cardinality(Announcers(id)) + One(ToAnnounce(none, id)) - One(ToAnnounce(s, id))
        /\ Cardinality(Routers(id)') =
              Cardinality(Routers(id)) + One(ToRoute(none, id)) - One(ToRoute(s, id))
    BY <1>1, PlanChanges
  <2>2. One(ToAnnounce(none, id)) = 0 /\ One(ToRoute(none, id)) = 0
    BY <1>2 DEF Begins, One
  <2>3. /\ Escalations(id)' = Escalations(id) /\ Announced(id)' = Announced(id)
        /\ Routed(id)' = Routed(id)
    BY <1>1 DEF Escalations, EscalatedAt, Announced, AnnouncedAt, Routed, RoutedAt
  <2>4. /\ One(ToAnnounce(s, id)) \in Nat /\ One(ToRoute(s, id)) \in Nat
        /\ One(ToAnnounce(s, id)) + One(ToRoute(s, id)) <= 1
    BY DEF One, ToAnnounce, ToRoute
  <2>5. Balanced(id) /\ failures \in Nat
    BY DEF HInv
  <2> HIDE DEF s
  <2> QED
    BY <1>1, <2>1, <2>2, <2>3, <2>4, <2>5, CountsAreNaturals DEF Balanced
<1>4. /\ DOMAIN asked' = Workers /\ todo' = [v \in Workers |-> todo'[v]]
      /\ \A v \in Workers : Shaped(todo'[v]) /\ (asked'[v] = NotAsked \/ todo'[v] = << >>)
  BY <1>1, <1>2 DEF HInv, Begins
<1> QED
  BY <1>1, <1>3, <1>4 DEF HInv

(* Steps that leave the plans and what is written alone. *)
LEMMA OthersBalance ==
    ASSUME HInv, UNCHANGED << todo, events, trail, reviews, failures >>,
           DOMAIN asked' = Workers,
           \A w \in Workers : asked'[w] = asked[w] \/ todo[w] = << >>
    PROVE  HInv'
  BY DEF HInv, Balanced, Escalations, EscalatedAt, Announced, AnnouncedAt, Routed, RoutedAt,
         Announcers, Routers

LEMMA HandOffInvariance == Spec => []HInv
<1>1. Init => HInv
  <2> SUFFICES ASSUME Init PROVE HInv
    OBVIOUS
  <2>1. IsSeq(<< >>) /\ Shaped(<< >>) /\ \A id : ~ToAnnounce(<< >>, id) /\ ~ToRoute(<< >>, id)
    BY QuietNone, QuietBegins, QuietElements DEF Begins
  <2>2. /\ IsSeq(trail) /\ IsSeq(events) /\ IsSeq(reviews) /\ failures = 0
        /\ DOMAIN asked = Workers /\ todo = [w \in Workers |-> todo[w]]
        /\ \A w \in Workers : todo[w] = << >> /\ asked[w] = NotAsked
    BY <2>1 DEF Init
  <2>3. ASSUME NEW id
        PROVE  Balanced(id)
    <3>1. DOMAIN trail = {} /\ DOMAIN events = {} /\ DOMAIN reviews = {}
      BY DEF Init
    <3>2. /\ EscalatedAt(id) = {} /\ AnnouncedAt(id) = {} /\ RoutedAt(id) = {}
          /\ Announcers(id) = {} /\ Routers(id) = {}
      BY <2>1, <2>2, <3>1 DEF EscalatedAt, AnnouncedAt, RoutedAt, Announcers, Routers
    <3> QED
      BY <2>2, <3>2, FS_EmptySet DEF Balanced, Escalations, Announced, Routed
  <2> QED
    BY <2>1, <2>2, <2>3 DEF HInv
<1>2. WInv /\ HInv /\ [Next]_vars => HInv'
  <2> SUFFICES ASSUME WInv, HInv, [Next]_vars PROVE HInv'
    OBVIOUS
  <2>1. CASE Tick \/ UNCHANGED vars
    BY <2>1, OthersBalance DEF Tick, vars, ports, HInv
  <2>2. ASSUME NEW w \in Workers, Ask(w)
        PROVE  HInv'
    BY <2>2, OthersBalance DEF Ask, ports, IsIdle, HInv
  <2>3. ASSUME NEW w \in Workers, TimerFires(w)
        PROVE  HInv'
    BY <2>3, OthersBalance DEF TimerFires, IsIdle, HInv
  <2>4. ASSUME NEW w \in Workers, OpenCase(w) \/ Serve(w) \/ Fail(w)
        PROVE  HInv'
    BY <2>4, OpenBalances, ServeBalances, PerformBalances, FailBalances DEF Serve
  <2> QED
    BY <2>1, <2>2, <2>3, <2>4 DEF Next
<1> QED
  BY <1>1, <1>2, WorkflowInvariance, PTL DEF Spec

(* Wherever handlers die or overlap, no human is handed a case that the    *)
(* trail does not say was escalated, and none before the announcement      *)
(* (evaluate_case records, then emits, then routes).                       *)
THEOREM HandOffsTold == Spec => []HandOffsAreTold
<1>1. HInv => HandOffsAreTold
  <2> SUFFICES ASSUME HInv, NEW id \in CaseIds
               PROVE  Escalations(id) >= Announced(id) /\ Announced(id) >= Routed(id)
    BY DEF HandOffsAreTold
  <2>1. Balanced(id)
    BY DEF HInv
  <2> QED
    BY <2>1, CountsAreNaturals DEF Balanced
<1> QED
  BY <1>1, HandOffInvariance, PTL

(* Nothing that was escalated goes unrouted, but for what handlers that    *)
(* died still owed.                                                        *)
LEMMA HandOffsMade ==
    ASSUME HInv, Quiescent, NEW id
    PROVE  Escalations(id) <= Routed(id) + failures
<1>1. Announcers(id) = {} /\ Routers(id) = {}
  BY QuietNone, QuietBegins DEF Quiescent, IsIdle, Announcers, Routers, Begins
<1>2. Cardinality(Announcers(id)) = 0 /\ Cardinality(Routers(id)) = 0
  BY <1>1, FS_EmptySet
<1>3. Balanced(id) /\ failures \in Nat
  BY DEF HInv
<1> QED
  BY <1>2, <1>3, CountsAreNaturals DEF Balanced

-----------------------------------------------------------------------------
(* When a clock starts. *)

LEMMA MinIsLeast ==
    ASSUME NEW T, T \subseteq Nat, T # {}
    PROVE  Min(T) \in T /\ \A y \in T : Min(T) <= y
<1>1. \E x \in T : \A y \in T : x <= y
  BY LeastOfNaturals
<1> QED
  BY <1>1 DEF Min

(* The entries of a history that enter a state. *)
EntriesTo(c, state) == {i \in 1..Len(c.history) : c.history[i].to_state = state}

LEMMA FirstEnteredIs ==
    ASSUME NEW c \in Case, NEW state
    PROVE  /\ EntriesTo(c, state) \subseteq Nat
           /\ FirstEntered(c, state) =
                IF state = Definition(c).initial THEN c.opened_at
                ELSE IF EntriesTo(c, state) = {} THEN NotStarted
                     ELSE c.history[Min(EntriesTo(c, state))].at
<1> DEFINE I == EntriesTo(c, state)
<1>1. I \subseteq Nat /\ 0 \notin I
  BY DEF EntriesTo, Case
<1>2. SelectInSeq(c.history, LAMBDA t : t.to_state = state) = IF I # {} THEN Min(I) ELSE 0
  BY DEF SelectInSeq, EntriesTo
<1> HIDE DEF I
<1>3. I # {} => Min(I) # 0
  BY <1>1, MinIsLeast
<1>4. FirstEntered(c, state) =
        IF state = Definition(c).initial THEN c.opened_at
        ELSE IF I = {} THEN NotStarted ELSE c.history[Min(I)].at
  BY <1>2, <1>3 DEF FirstEntered
<1> QED
  BY <1>1, <1>4 DEF I

LEMMA FirstEnteredType ==
    ASSUME NEW c \in Case, NEW state
    PROVE  FirstEntered(c, state) \in Nat \cup {NotStarted}
<1> DEFINE I == EntriesTo(c, state)
<1>1. I \subseteq Nat
  BY FirstEnteredIs
<1>2. ASSUME I # {} PROVE c.history[Min(I)].at \in Nat
  <2>1. Min(I) \in I
    <3> HIDE DEF I
    <3> QED
      BY <1>1, <1>2, MinIsLeast
  <2>2. Min(I) \in 1..Len(c.history) /\ c.history \in Seq(Transition)
    BY <2>1 DEF EntriesTo, Case
  <2>3. c.history[Min(I)] \in Transition
    <3> HIDE DEF I
    <3> QED
      BY <2>2
  <2> QED
    BY <2>3 DEF Transition
<1>3. c.opened_at \in Nat
  BY DEF Case
<1> QED
  BY <1>2, <1>3, FirstEnteredIs

LEMMA ClocksOfDefinition ==
    ASSUME NEW c \in Case
    PROVE  /\ Definition(c).clocks \in Seq(ClockSpec(ClockNames, States))
           /\ \A i \in DOMAIN Definition(c).clocks :
                /\ Definition(c).clocks[i] \in ClockSpec(ClockNames, States)
                /\ IsClock(Definition(c).clocks[i])
                /\ Definition(c).clocks[i].name \in ClockNames
<1> DEFINE clocks == Definition(c).clocks
<1>1. clocks \in Seq(ClockSpec(ClockNames, States))
  BY EngineAssumption DEF Case, Definition, IsWorkflowDefinition
<1>2. ASSUME NEW i \in DOMAIN clocks
      PROVE  clocks[i] \in ClockSpec(ClockNames, States)
  <2> HIDE DEF clocks
  <2> QED
    BY <1>1
<1>3. \A s \in ClockSpec(ClockNames, States) : IsClock(s) /\ s.name \in ClockNames
  BY DEF ClockSpec, IsClock
<1> QED
  BY <1>1, <1>2, <1>3

(* The due instant of a clock that has started is its deadline's, and one  *)
(* that has not has none.                                                  *)
LEMMA DeadlineOf ==
    ASSUME NEW c, NEW spec, NEW as_of
    PROVE  LET a == FirstEntered(c, spec.start_state)
           IN  /\ a = NotStarted => /\ Deadline(c, spec, as_of).due_at = NotStarted
                                    /\ Deadline(c, spec, as_of).breached = FALSE
               /\ a # NotStarted => /\ Deadline(c, spec, as_of).due_at = DueAt(spec, a, Holidays)
                                    /\ Deadline(c, spec, as_of).breached <=>
                                         as_of > DueAt(spec, a, Holidays)
BY DEF Deadline, DeadlineFor

LEMMA DueInstantType ==
    ASSUME NEW c \in Case, NEW spec, IsClock(spec), NEW as_of
    PROVE  Deadline(c, spec, as_of).due_at \in Nat \cup {NotStarted}
<1> DEFINE a == FirstEntered(c, spec.start_state)
<1>1. a \in Nat \cup {NotStarted}
  BY FirstEnteredType
<1>2. a # NotStarted => DueAt(spec, a, Holidays) \in Nat
  <2> HIDE DEF a
  <2> SUFFICES ASSUME a # NotStarted PROVE DueAt(spec, a, Holidays) \in Nat
    OBVIOUS
  <2>1. a \in Nat /\ IsFiniteSet(Holidays)
    BY <1>1, EngineAssumption
  <2> QED
    BY <2>1, DueInstant
<1> QED
  BY <1>1, <1>2, DeadlineOf

-----------------------------------------------------------------------------
(* Types. *)

LEMMA StoreTyped == ASSUME NEW c \in Case PROVE Store(c) \in Effect
BY DEF Store, Effect

LEMMA EmitTyped ==
    ASSUME NEW c \in Case, NEW type \in {"case.opened", "case.transitioned", "case.escalated"}
    PROVE  Emit(type, c) \in Effect
<1>1. Emit(type, c).event \in CaseEvent
  BY DEF Emit, CaseEvent, Case
<1> QED
  BY <1>1 DEF Emit, Effect

LEMMA AuditTyped ==
    ASSUME NEW c \in Case, NEW action \in {"open", "transition", "evaluate"}, NEW actor \in Actors,
           NEW from \in States \cup {NoState}, NEW to \in States, NEW decision \in CaseDecisions,
           NEW findings \in SUBSET CaseFindings
    PROVE  Audit(c, action, actor, from, to, decision, findings) \in Effect
<1>1. Audit(c, action, actor, from, to, decision, findings).event \in CaseAuditEvent
  BY DEF Audit, CaseAuditEvent, Case
<1> QED
  BY <1>1 DEF Audit, Effect

LEMMA WakeTyped ==
    ASSUME NEW c \in Case, NEW kind \in {"schedule", "cancel"}, NEW clock \in ClockNames,
           NEW at \in Nat \cup {NotStarted}
    PROVE  Wake(kind, c, clock, at) \in Effect
<1>1. Wake(kind, c, clock, at).timer \in TimerAt(Nat \cup {NotStarted})
  BY DEF Wake, TimerAt, Case
<1> QED
  BY <1>1 DEF Wake, Effect

LEMMA RouteTyped ==
    ASSUME NEW c \in Case, NEW findings \in SUBSET CaseFindings
    PROVE  Route(c, findings) \in Effect
<1>1. c.history # << >> => Last(c.history) \in Transition
  BY DEF Last, Case
<1>2. Route(c, findings).review \in Review
  BY <1>1 DEF Route, Review, Case, Transition
<1> QED
  BY <1>2 DEF Route, Effect

LEMMA LoopsTyped ==
    ASSUME NEW c \in Case, NEW as_of
    PROVE  ScheduleClocks(c, as_of) \in Seq(Effect) /\ CancelClocks(c) \in Seq(Effect)
<1> DEFINE clocks == Definition(c).clocks
           E(i)   == Wake("schedule", c, clocks[i].name, Deadline(c, clocks[i], as_of).due_at)
           F(i)   == Wake("cancel", c, clocks[i].name, 0)
<1>1. DOMAIN clocks = 1..Len(clocks) /\ Len(clocks) \in Nat
  BY ClocksOfDefinition
<1>2. ASSUME NEW i \in DOMAIN clocks PROVE E(i) \in Effect /\ F(i) \in Effect
  <2>1. clocks[i].name \in ClockNames /\ IsClock(clocks[i])
    BY ClocksOfDefinition
  <2>2. Deadline(c, clocks[i], as_of).due_at \in Nat \cup {NotStarted}
    BY <2>1, DueInstantType
  <2> QED
    BY <2>1, <2>2, WakeTyped
<1>3. [i \in DOMAIN clocks |-> E(i)] \in Seq(Effect)
  <2> HIDE DEF E, clocks
  <2> QED
    BY <1>1, <1>2
<1>4. [i \in DOMAIN clocks |-> F(i)] \in Seq(Effect)
  <2> HIDE DEF F, clocks
  <2> QED
    BY <1>1, <1>2
<1> QED
  BY <1>3, <1>4 DEF ScheduleClocks, CancelClocks

LEMMA OneTwoThree ==
    ASSUME NEW S, NEW d \in S, NEW e \in S, NEW f \in S
    PROVE  << d >> \in Seq(S) /\ << d, e >> \in Seq(S) /\ << d, e, f >> \in Seq(S)
OBVIOUS

LEMMA ConcatTyped ==
    ASSUME NEW S, NEW s \in Seq(S), NEW t \in Seq(S)
    PROVE  s \o t \in Seq(S)
OBVIOUS

LEMMA OpenTyped ==
    ASSUME NEW c \in Case, NEW actor \in Actors
    PROVE  OpenEffects(c, actor) \in Seq(Effect)
<1>1. << Store(c) >> \in Seq(Effect)
  BY StoreTyped, OneTwoThree
<1>2. ScheduleClocks(c, c.opened_at) \in Seq(Effect)
  BY LoopsTyped
<1>3. Emit("case.opened", c) \in Effect
  BY EmitTyped
<1>4. Audit(c, "open", actor, NoState, c.state, "allowed", {}) \in Effect
  BY AuditTyped DEF Case, CaseDecisions
<1>5. << Emit("case.opened", c), Audit(c, "open", actor, NoState, c.state, "allowed", {}) >>
        \in Seq(Effect)
  BY <1>3, <1>4, OneTwoThree
<1> QED
  BY <1>1, <1>2, <1>5, ConcatTyped DEF OpenEffects

LEMMA TransitionTyped ==
    ASSUME NEW c \in Case, NEW m \in Case, NEW actor \in Actors
    PROVE  TransitionEffects(c, m, actor) \in Seq(Effect)
<1> DEFINE cancels == IF IsTerminal(m) THEN CancelClocks(m) ELSE << >>
<1>1. << Store(m) >> \in Seq(Effect)
  BY StoreTyped, OneTwoThree
<1>2. cancels \in Seq(Effect)
  BY LoopsTyped
<1>3. Emit("case.transitioned", m) \in Effect
  BY EmitTyped
<1>4. Audit(m, "transition", actor, c.state, m.state, "allowed", {}) \in Effect
  BY AuditTyped DEF Case, CaseDecisions
<1>5. << Emit("case.transitioned", m), Audit(m, "transition", actor, c.state, m.state, "allowed", {}) >>
        \in Seq(Effect)
  BY <1>3, <1>4, OneTwoThree
<1> HIDE DEF cancels
<1>6. << Store(m) >> \o cancels \in Seq(Effect)
  BY <1>1, <1>2, ConcatTyped
<1> QED
  BY <1>5, <1>6, ConcatTyped DEF TransitionEffects, cancels

LEMMA EvaluateTyped ==
    ASSUME NEW c \in Case, NEW actor \in Actors, NEW findings \in SUBSET CaseFindings
    PROVE  EvaluateEffects(c, actor, findings) \in Seq(Effect)
<1>1. /\ Audit(c, "evaluate", actor, c.state, c.state, "escalated", findings) \in Effect
      /\ Audit(c, "evaluate", actor, c.state, c.state, "allowed", findings) \in Effect
  BY AuditTyped DEF Case, CaseDecisions
<1>2. Emit("case.escalated", c) \in Effect /\ Route(c, findings) \in Effect
  BY EmitTyped, RouteTyped
<1>3. << Audit(c, "evaluate", actor, c.state, c.state, "escalated", findings),
         Emit("case.escalated", c), Route(c, findings) >> \in Seq(Effect)
  BY <1>1, <1>2, OneTwoThree
<1>4. << Audit(c, "evaluate", actor, c.state, c.state, "allowed", findings) >> \in Seq(Effect)
  BY <1>1, OneTwoThree
<1> QED
  BY <1>3, <1>4 DEF EvaluateEffects

LEMMA MovedTyped ==
    ASSUME NEW c \in Case, NEW to, IsLegal(c, to), NEW actor \in Actors, NEW as_of \in Nat
    PROVE  Moved(c, to, actor, as_of) \in Case
<1> DEFINE h == c.history
           entry == [ seq |-> NextSeq(c), from_state |-> c.state, to_state |-> to,
                      actor |-> actor, at |-> as_of ]
<1>1. to \in States /\ c.state \in States
  BY EngineAssumption DEF Case, IsLegal, Definition, IsWorkflowDefinition
<1>2. h \in Seq(Transition) /\ NextSeq(c) \in Nat \ {0}
  BY DEF Case, NextSeq
<1>3. entry \in Transition
  BY <1>1, <1>2 DEF Transition
<1>4. Append(h, entry) \in Seq(Transition)
  BY <1>2, <1>3
<1>5. Moved(c, to, actor, as_of) = [c EXCEPT !.state = to, !.history = Append(h, entry)]
  BY DEF Moved
<1> QED
  BY <1>1, <1>4, <1>5 DEF Case

LEMMA CallersType == Callers \subseteq Principal
BY WorkflowAssumption DEF Callers

LEMMA TypedDecision ==
    ASSUME TypeOK, NEW w \in Workers, NEW effects \in Seq(Effect), Decide(w, effects)
    PROVE  TypeOK'
<1>1. asked' \in [Workers -> Request]
  BY DEF TypeOK, Decide, Request
<1>2. todo' \in [Workers -> Seq(Effect)]
  BY DEF TypeOK, Decide
<1> QED
  BY <1>1, <1>2 DEF TypeOK, Decide, ports

LEMMA TypeOfRequest ==
    ASSUME TypeOK, NEW w \in Workers, asked[w] # NotAsked, NEW c \in Loaded(w)
    PROVE  /\ c \in Case /\ asked[w].who \in Principal /\ asked[w].stamp \in Nat
           /\ asked[w].who.actor \in Actors
           /\ asked[w].what = "transition" => asked[w].to \in States
<1>1. asked[w] \in Request /\ cases \subseteq Case
  BY DEF TypeOK
<1>2. /\ asked[w].who \in Principal /\ asked[w].stamp \in Nat
      /\ asked[w].what = "transition" => asked[w].to \in States
  BY <1>1 DEF Request
<1> QED
  BY <1>1, <1>2 DEF Principal, Loaded, Get

LEMMA ServeTyped ==
    ASSUME TypeOK, NEW w \in Workers,
           CaseNotFound(w) \/ TransitionCase(w) \/ RefuseTransition(w) \/ EvaluateCase(w)
    PROVE  TypeOK'
<1> DEFINE r == asked[w]
<1>1. CASE CaseNotFound(w)
  <2>1. << >> \in Seq(Effect)
    OBVIOUS
  <2> QED
    BY <1>1, <2>1, TypedDecision DEF CaseNotFound
<1>2. CASE TransitionCase(w)
  <2>1. r # NotAsked
    BY <1>2 DEF TransitionCase, NotAsked
  <2>2. PICK c \in Loaded(w) :
          /\ IsLegal(c, r.to)
          /\ Decide(w, TransitionEffects(c, Moved(c, r.to, r.who.actor, r.stamp), r.who.actor))
    BY <1>2 DEF TransitionCase
  <2>3. c \in Case /\ r.who.actor \in Actors /\ r.stamp \in Nat
    BY <2>1, TypeOfRequest
  <2> DEFINE m == Moved(c, r.to, r.who.actor, r.stamp)
  <2>4. m \in Case
    BY <2>2, <2>3, MovedTyped
  <2>5. TransitionEffects(c, m, r.who.actor) \in Seq(Effect)
    <3> HIDE DEF m
    <3> QED
      BY <2>3, <2>4, TransitionTyped
  <2> QED
    BY <2>2, <2>5, TypedDecision
<1>3. CASE RefuseTransition(w)
  <2>1. r # NotAsked /\ r.what = "transition"
    BY <1>3 DEF RefuseTransition, NotAsked
  <2>2. PICK c \in Loaded(w) :
          Decide(w, << Audit(c, "transition", r.who.actor, c.state, r.to, "rejected", {}) >>)
    BY <1>3 DEF RefuseTransition
  <2>3. c \in Case /\ r.who.actor \in Actors /\ r.to \in States
    BY <2>1, TypeOfRequest
  <2>4. Audit(c, "transition", r.who.actor, c.state, r.to, "rejected", {}) \in Effect
    BY <2>3, AuditTyped DEF Case, CaseDecisions
  <2>5. << Audit(c, "transition", r.who.actor, c.state, r.to, "rejected", {}) >> \in Seq(Effect)
    BY <2>4, OneTwoThree
  <2> QED
    BY <2>2, <2>5, TypedDecision
<1>4. CASE EvaluateCase(w)
  <2>1. r # NotAsked
    BY <1>4 DEF EvaluateCase, NotAsked
  <2>2. PICK c \in Loaded(w) : Decide(w, EvaluateEffects(c, r.who.actor, Findings(c, r.stamp)))
    BY <1>4 DEF EvaluateCase
  <2>3. c \in Case /\ r.who.actor \in Actors
    BY <2>1, TypeOfRequest
  <2>4. Findings(c, r.stamp) \in SUBSET CaseFindings
    BY DEF Findings
  <2>5. EvaluateEffects(c, r.who.actor, Findings(c, r.stamp)) \in Seq(Effect)
    BY <2>3, <2>4, EvaluateTyped
  <2> QED
    BY <2>2, <2>5, TypedDecision
<1> QED
  BY <1>1, <1>2, <1>3, <1>4

LEMMA PerformTyped ==
    ASSUME TypeOK, NEW w \in Workers, Perform(w)
    PROVE  TypeOK'
<1> DEFINE e == Head(todo[w])
<1>1. PICK kind : Doing(w, kind)
  BY DEF Perform, PutCase, ScheduleTimer, CancelTimer, Publish, Record, RouteToReview
<1>2. e \in Effect /\ Tail(todo[w]) \in Seq(Effect)
  BY <1>1 DEF TypeOK, Doing
<1>3. todo' \in [Workers -> Seq(Effect)]
  BY <1>1, <1>2 DEF TypeOK, Doing
<1>4. UNCHANGED <<now, asked, requests, failures>>
  BY <1>1 DEF Doing
<1>5. /\ e.kind = "put" => e.case \in Case
      /\ e.kind \in {"schedule", "cancel"} => e.timer \in TimerAt(Nat \cup {NotStarted})
      /\ e.kind = "publish" => e.event \in CaseEvent
      /\ e.kind = "record" => e.event \in CaseAuditEvent
      /\ e.kind = "route" => e.review \in Review
  BY <1>2 DEF Effect
<1> HIDE DEF e
<1>6. cases' \subseteq Case
  <2>1. CASE PutCase(w)
    BY <2>1, <1>5 DEF PutCase, Doing, Put, TypeOK, e
  <2> QED
    BY <2>1 DEF TypeOK, Perform, ScheduleTimer, CancelTimer, Publish, Record, RouteToReview
<1>7. timers' \subseteq Timer
  <2>1. CASE ScheduleTimer(w)
    <3>1. e.timer \in TimerAt(Nat \cup {NotStarted}) /\ timers \subseteq Timer
      BY <2>1, <1>5 DEF ScheduleTimer, Doing, TypeOK, e
    <3>2. e.timer.fire_at # NotStarted => e.timer \in Timer
      BY <3>1 DEF Timer, TimerAt
    <3> QED
      BY <2>1, <3>1, <3>2 DEF ScheduleTimer, Schedule, e
  <2>2. CASE CancelTimer(w)
    BY <2>2 DEF CancelTimer, Cancel, TypeOK
  <2> QED
    BY <2>1, <2>2 DEF TypeOK, Perform, PutCase, Publish, Record, RouteToReview
<1>8. events' \in Seq(CaseEvent)
  <2>1. CASE Publish(w)
    BY <2>1, <1>5 DEF Publish, Doing, TypeOK, e
  <2> QED
    BY <2>1 DEF TypeOK, Perform, PutCase, ScheduleTimer, CancelTimer, Record, RouteToReview
<1>9. trail' \in Seq(CaseAuditEvent)
  <2>1. CASE Record(w)
    BY <2>1, <1>5 DEF Record, Doing, TypeOK, e
  <2> QED
    BY <2>1 DEF TypeOK, Perform, PutCase, ScheduleTimer, CancelTimer, Publish, RouteToReview
<1>10. reviews' \in Seq(Review)
  <2>1. CASE RouteToReview(w)
    BY <2>1, <1>5 DEF RouteToReview, Doing, TypeOK, e
  <2> QED
    BY <2>1 DEF TypeOK, Perform, PutCase, ScheduleTimer, CancelTimer, Publish, Record
<1> QED
  BY <1>3, <1>4, <1>6, <1>7, <1>8, <1>9, <1>10 DEF TypeOK

LEMMA NewCaseTyped ==
    ASSUME NEW id \in CaseIds, NEW tenant \in Tenants, NEW type \in DOMAIN Definitions,
           NEW severity \in Severities, NEW as_of \in Nat
    PROVE  NewCase(id, tenant, type, severity, as_of) \in Case
BY NewCaseSound DEF SoundCase

LEMMA CallTyped ==
    ASSUME TypeOK, NEW w \in Workers, OpenCase(w) \/ Ask(w) \/ TimerFires(w) \/ Fail(w)
    PROVE  TypeOK'
<1>1. now \in Nat
  BY DEF TypeOK
<1>2. CASE OpenCase(w)
  <2>1. PICK p \in Principals, id \in FreshIds, type \in DOMAIN Definitions, s \in Severities :
          todo' = [todo EXCEPT ![w] = OpenEffects(NewCase(id, p.tenant, type, s, now), p.actor)]
    BY <1>2 DEF OpenCase
  <2>2. p.actor \in Actors /\ p.tenant \in Tenants /\ id \in CaseIds
    BY CallersType DEF Callers, Principal, FreshIds
  <2>3. OpenEffects(NewCase(id, p.tenant, type, s, now), p.actor) \in Seq(Effect)
    BY <1>1, <2>2, NewCaseTyped, OpenTyped
  <2>4. todo' \in [Workers -> Seq(Effect)]
    BY <2>1, <2>3 DEF TypeOK
  <2>5. requests' \in 0..MaxRequests
    BY <1>2, WorkflowAssumption DEF OpenCase, TypeOK
  <2> QED
    BY <1>2, <2>4, <2>5 DEF OpenCase, TypeOK, ports
<1>3. CASE Ask(w)
  <2>1. asked' \in [Workers -> Request]
    <3>1. PICK p \in Principals, id \in CaseIds :
            \/ \E to \in States :
                 asked' = [asked EXCEPT ![w] = [ what |-> "transition", who |-> p,
                                                 case_id |-> id, to |-> to, stamp |-> now ]]
            \/ asked' = [asked EXCEPT ![w] = [ what |-> "evaluate", who |-> p,
                                               case_id |-> id, stamp |-> now ]]
      BY <1>3 DEF Ask
    <3>2. p \in Principal
      BY WorkflowAssumption
    <3>3. [ what |-> "evaluate", who |-> p, case_id |-> id, stamp |-> now ] \in Request
      BY <1>1, <3>2 DEF Request
    <3>4. \A to \in States :
            [ what |-> "transition", who |-> p, case_id |-> id, to |-> to, stamp |-> now ] \in Request
      BY <1>1, <3>2 DEF Request
    <3> QED
      BY <3>1, <3>3, <3>4 DEF TypeOK
  <2>2. requests' \in 0..MaxRequests
    BY <1>3, WorkflowAssumption DEF Ask, TypeOK
  <2> QED
    BY <1>3, <2>1, <2>2 DEF Ask, TypeOK, ports
<1>4. CASE TimerFires(w)
  <2>1. PICK t \in timers :
          /\ timers' = timers \ {t}
          /\ IF CallbackPrincipal = Nobody THEN asked' = asked
             ELSE asked' = [asked EXCEPT ![w] = [ what |-> "evaluate",
                        who |-> CallbackPrincipal, case_id |-> t.case_id, stamp |-> now ]]
    BY <1>4 DEF TimerFires
  <2>2. asked' \in [Workers -> Request]
    <3>1. t.case_id \in CaseIds
      BY DEF TypeOK, Timer, TimerAt
    <3>2. ASSUME CallbackPrincipal # Nobody
          PROVE  [ what |-> "evaluate", who |-> CallbackPrincipal, case_id |-> t.case_id,
                   stamp |-> now ] \in Request
      BY <1>1, <3>1, <3>2, WorkflowAssumption DEF Request
    <3> QED
      BY <2>1, <3>2 DEF TypeOK
  <2> QED
    BY <1>4, <2>1, <2>2 DEF TimerFires, TypeOK
<1>5. CASE Fail(w)
  <2>1. asked' \in [Workers -> Request] /\ todo' \in [Workers -> Seq(Effect)]
    BY <1>5 DEF Fail, TypeOK, Request
  <2>2. failures' \in 0..MaxFailures
    BY <1>5, WorkflowAssumption DEF Fail, TypeOK
  <2> QED
    BY <1>5, <2>1, <2>2 DEF Fail, TypeOK, ports
<1> QED
  BY <1>2, <1>3, <1>4, <1>5

(* Every port and every worker's locals hold what they are meant to,       *)
(* whatever the definitions and the holidays; in particular a timer is set *)
(* for an instant, never for a clock that has not started.                 *)
THEOREM WellTyped == Spec => []TypeOK
<1>1. Init => TypeOK
  <2> SUFFICES ASSUME Init PROVE TypeOK
    OBVIOUS
  <2>1. asked \in [Workers -> Request] /\ todo \in [Workers -> Seq(Effect)]
    BY DEF Init, Request
  <2>2. 0 \in 0..Horizon /\ 0 \in 0..MaxRequests /\ 0 \in 0..MaxFailures
    BY WorkflowAssumption
  <2> QED
    BY <2>1, <2>2 DEF Init, TypeOK
<1>2. TypeOK /\ [Next]_vars => TypeOK'
  <2> SUFFICES ASSUME TypeOK, [Next]_vars PROVE TypeOK'
    OBVIOUS
  <2>1. CASE Tick
    BY <2>1, WorkflowAssumption DEF Tick, TypeOK, ports
  <2>2. ASSUME NEW w \in Workers,
               OpenCase(w) \/ Ask(w) \/ Serve(w) \/ Fail(w) \/ TimerFires(w)
        PROVE  TypeOK'
    BY <2>2, ServeTyped, PerformTyped, CallTyped DEF Serve
  <2>3. CASE UNCHANGED vars
    BY <2>3 DEF vars, TypeOK
  <2> QED
    BY <2>1, <2>2, <2>3 DEF Next
<1> QED
  BY <1>1, <1>2, PTL DEF Spec


-----------------------------------------------------------------------------
(* One handler at a time.  What a lone handler has still to do is the rest *)
(* of the plan that its decision left, and nothing has changed under it.   *)

(* s is what is left of P when k effects are done. *)
Left(s, P, k) ==
    k \in 0..Len(P) /\ Len(s) = Len(P) - k /\ \A i \in 1..Len(s) : s[i] = P[i + k]

LEMMA LeftAll == ASSUME NEW S, NEW P \in Seq(S) PROVE Left(P, P, 0)
BY DEF Left

LEMMA LeftStep ==
    ASSUME NEW S, NEW P \in Seq(S), NEW s \in Seq(S), NEW k, Left(s, P, k), s # << >>
    PROVE  /\ k + 1 \in 1..Len(P) /\ Head(s) = P[k + 1]
           /\ Left(Tail(s), P, k + 1)
<1>1. k \in Nat /\ Len(s) = Len(P) - k /\ Len(s) \in Nat /\ Len(P) \in Nat /\ Len(s) > 0
  BY DEF Left
<1>2. Head(s) = s[1] /\ Len(Tail(s)) = Len(s) - 1
  BY <1>1
<1>3. \A i \in 1..Len(Tail(s)) : Tail(s)[i] = s[i + 1]
  BY <1>1
<1>4. s[1] = P[1 + k]
  BY <1>1 DEF Left
<1>5. ASSUME NEW i \in 1..Len(Tail(s)) PROVE Tail(s)[i] = P[i + (k + 1)]
  <2>1. i + 1 \in 1..Len(s) /\ (i + 1) + k = i + (k + 1)
    BY <1>1, <1>2
  <2>2. s[i + 1] = P[(i + 1) + k]
    BY <2>1 DEF Left
  <2> QED
    BY <1>3, <2>1, <2>2
<1> QED
  BY <1>1, <1>2, <1>4, <1>5 DEF Left

LEMMA ConcatPlaces ==
    ASSUME NEW S, NEW s \in Seq(S), NEW t \in Seq(S)
    PROVE  /\ s \o t \in Seq(S) /\ Len(s \o t) = Len(s) + Len(t)
           /\ \A i \in 1..Len(s) : (s \o t)[i] = s[i]
           /\ \A i \in 1..Len(t) : (s \o t)[i + Len(s)] = t[i]
OBVIOUS

(* P is a first effect, the n of a loop and two more. *)
InThree(P, s, l, t, n) ==
    /\ Len(P) = n + 3
    /\ P[1] = s[1]
    /\ \A i \in 1..n : P[i + 1] = l[i]
    /\ P[n + 2] = t[1] /\ P[n + 3] = t[2]

LEMMA ThreeParts ==
    ASSUME NEW s \in Seq(Effect), NEW l \in Seq(Effect), NEW t \in Seq(Effect), NEW n \in Nat,
           Len(s) = 1, Len(l) = n, Len(t) = 2
    PROVE  InThree(s \o l \o t, s, l, t, n)
<1> DEFINE q == s \o l
<1>1. q \in Seq(Effect) /\ Len(q) = 1 + n /\ q[1] = s[1]
  BY ConcatPlaces
<1>2. ASSUME NEW i \in 1..n PROVE q[i + 1] = l[i]
  BY ConcatPlaces
<1> HIDE DEF q
<1>3. /\ Len(q \o t) = Len(q) + Len(t)
      /\ \A i \in 1..Len(q) : (q \o t)[i] = q[i]
      /\ \A i \in 1..Len(t) : (q \o t)[i + Len(q)] = t[i]
  <2>1. q \in Seq(Effect) /\ t \in Seq(Effect)
    BY <1>1
  <2> QED
    BY ONLY <2>1, ConcatPlaces
<1> DEFINE r == q \o t
<1> HIDE DEF r
<1>4. /\ Len(r) = Len(q) + Len(t)
      /\ \A i \in 1..Len(q) : r[i] = q[i]
      /\ \A i \in 1..Len(t) : r[i + Len(q)] = t[i]
  BY <1>3 DEF r
<1>5. Len(q) = 1 + n /\ Len(t) = 2
  BY <1>1
<1>8. Len(r) = n + 3
  BY <1>4, <1>5
<1>9. \A i \in 1..(1 + n) : r[i] = q[i]
  BY <1>4, <1>5
<1>10. r[1 + Len(q)] = t[1] /\ r[2 + Len(q)] = t[2]
  BY <1>4, <1>5
<1>11. 1 + Len(q) = n + 2 /\ 2 + Len(q) = n + 3
  BY <1>5
<1>12. r[n + 2] = t[1] /\ r[n + 3] = t[2]
  BY <1>10, <1>11
<1>13. ASSUME NEW i \in 1..n PROVE r[i + 1] = l[i]
  <2>1. i + 1 \in 1..(1 + n)
    OBVIOUS
  <2> QED
    BY <1>2, <1>9, <2>1
<1>14. r[1] = s[1]
  BY <1>1, <1>9
<1> QED
  <2>1. InThree(r, s, l, t, n)
    BY <1>8, <1>12, <1>13, <1>14 DEF InThree
  <2> QED
    BY <2>1 DEF q, r

(* An effect by its place in the plan. *)
LEMMA OpenPlaces ==
    ASSUME NEW c \in Case, NEW actor \in Actors
    PROVE  LET n == Len(Definition(c).clocks)
               P == OpenEffects(c, actor)
           IN  /\ n \in Nat /\ Len(P) = n + 3
               /\ P[1] = Store(c)
               /\ \A i \in 1..n :
                    P[i + 1] = Wake("schedule", c, Definition(c).clocks[i].name,
                                    Deadline(c, Definition(c).clocks[i], c.opened_at).due_at)
               /\ P[n + 2] = Emit("case.opened", c)
               /\ P[n + 3] = Audit(c, "open", actor, NoState, c.state, "allowed", {})
<1> DEFINE clocks == Definition(c).clocks
           n == Len(clocks)
           E(i) == Wake("schedule", c, clocks[i].name, Deadline(c, clocks[i], c.opened_at).due_at)
           s == << Store(c) >>
           l == [i \in DOMAIN clocks |-> E(i)]
           e == Emit("case.opened", c)
           a == Audit(c, "open", actor, NoState, c.state, "allowed", {})
           t == << e, a >>
<1>1. DOMAIN clocks = 1..n /\ n \in Nat
  BY ClocksOfDefinition
<1>2. ScheduleClocks(c, c.opened_at) = l /\ ScheduleClocks(c, c.opened_at) \in Seq(Effect)
  BY LoopsTyped DEF ScheduleClocks
<1>3. l \in Seq(Effect) /\ Len(l) = n /\ \A i \in 1..n : l[i] = E(i)
  <2>1. l \in Seq(Effect)
    BY <1>2
  <2>2. DOMAIN l = 1..n
    <3> HIDE DEF clocks, n, E
    <3> QED
      BY <1>1
  <2> HIDE DEF clocks, n, E
  <2> QED
    BY <1>1, <2>1, <2>2
<1>4. s \in Seq(Effect) /\ Len(s) = 1 /\ s[1] = Store(c)
  BY StoreTyped
<1>5. t \in Seq(Effect) /\ Len(t) = 2 /\ t[1] = e /\ t[2] = a
  <2>1. e \in Effect
    BY EmitTyped
  <2>2. a \in Effect
    BY AuditTyped DEF Case, CaseDecisions
  <2> HIDE DEF e, a
  <2> QED
    BY <2>1, <2>2
<1>6. OpenEffects(c, actor) = s \o l \o t
  BY <1>2 DEF OpenEffects
<1> HIDE DEF s, l, t, e, a, clocks, n, E
<1>7. InThree(s \o l \o t, s, l, t, n)
  <2>1. /\ n \in Nat /\ s \in Seq(Effect) /\ l \in Seq(Effect) /\ t \in Seq(Effect)
        /\ Len(s) = 1 /\ Len(l) = n /\ Len(t) = 2
    BY <1>1, <1>3, <1>4, <1>5
  <2> QED
    BY ONLY <2>1, ThreeParts
<1>8. LET P == OpenEffects(c, actor)
      IN  /\ Len(P) = n + 3
          /\ P[1] = Store(c)
          /\ \A i \in 1..n : P[i + 1] = E(i)
          /\ P[n + 2] = e /\ P[n + 3] = a
  BY <1>1, <1>3, <1>4, <1>5, <1>6, <1>7 DEF InThree
<1> QED
  BY ONLY <1>1, <1>8 DEF e, a, clocks, n, E

LEMMA MovePlaces ==
    ASSUME NEW c \in Case, NEW m \in Case, NEW actor \in Actors
    PROVE  LET n == IF IsTerminal(m) THEN Len(Definition(m).clocks) ELSE 0
               P == TransitionEffects(c, m, actor)
           IN  /\ n \in Nat /\ Len(P) = n + 3
               /\ P[1] = Store(m)
               /\ \A i \in 1..n : P[i + 1] = Wake("cancel", m, Definition(m).clocks[i].name, 0)
               /\ P[n + 2] = Emit("case.transitioned", m)
               /\ P[n + 3] = Audit(m, "transition", actor, c.state, m.state, "allowed", {})
<1> DEFINE clocks == Definition(m).clocks
           n == IF IsTerminal(m) THEN Len(clocks) ELSE 0
           E(i) == Wake("cancel", m, clocks[i].name, 0)
           s == << Store(m) >>
           l == IF IsTerminal(m) THEN CancelClocks(m) ELSE << >>
           e == Emit("case.transitioned", m)
           a == Audit(m, "transition", actor, c.state, m.state, "allowed", {})
           t == << e, a >>
<1>1. DOMAIN clocks = 1..Len(clocks) /\ Len(clocks) \in Nat /\ n \in Nat
  BY ClocksOfDefinition
<1>3. l \in Seq(Effect) /\ Len(l) = n /\ \A i \in 1..n : l[i] = E(i)
  <2>1. CASE IsTerminal(m)
    <3>1. l \in Seq(Effect) /\ l = [i \in DOMAIN clocks |-> E(i)]
      BY <2>1, LoopsTyped DEF CancelClocks
    <3>2. n = Len(clocks)
      BY <2>1
    <3>3. DOMAIN l = 1..n
      <4> HIDE DEF clocks, n, E, l
      <4> QED
        BY <1>1, <3>1, <3>2
    <3> HIDE DEF clocks, n, E, l
    <3> QED
      BY <1>1, <3>1, <3>2, <3>3
  <2>2. CASE ~IsTerminal(m)
    <3>1. l = << >> /\ n = 0
      BY <2>2
    <3> HIDE DEF clocks, n, E, l
    <3> QED
      BY <3>1
  <2> QED
    BY <2>1, <2>2
<1>4. s \in Seq(Effect) /\ Len(s) = 1 /\ s[1] = Store(m)
  BY StoreTyped
<1>5. t \in Seq(Effect) /\ Len(t) = 2 /\ t[1] = e /\ t[2] = a
  <2>1. e \in Effect
    BY EmitTyped
  <2>2. a \in Effect
    BY AuditTyped DEF Case, CaseDecisions
  <2> HIDE DEF e, a
  <2> QED
    BY <2>1, <2>2
<1>6. TransitionEffects(c, m, actor) = s \o l \o t
  BY DEF TransitionEffects
<1> HIDE DEF s, l, t, e, a, clocks, n, E
<1>7. InThree(s \o l \o t, s, l, t, n)
  <2>1. /\ n \in Nat /\ s \in Seq(Effect) /\ l \in Seq(Effect) /\ t \in Seq(Effect)
        /\ Len(s) = 1 /\ Len(l) = n /\ Len(t) = 2
    BY <1>1, <1>3, <1>4, <1>5
  <2> QED
    BY ONLY <2>1, ThreeParts
<1>8. LET P == TransitionEffects(c, m, actor)
      IN  /\ Len(P) = n + 3
          /\ P[1] = Store(m)
          /\ \A i \in 1..n : P[i + 1] = E(i)
          /\ P[n + 2] = e /\ P[n + 3] = a
  BY <1>1, <1>3, <1>4, <1>5, <1>6, <1>7 DEF InThree
<1> QED
  BY ONLY <1>1, <1>8 DEF e, a, clocks, n, E

LEMMA EvaluatePlaces ==
    ASSUME NEW c, NEW actor, NEW findings
    PROVE  LET P == EvaluateEffects(c, actor, findings)
           IN  IF RequiresHumanReview(c, findings)
                 THEN /\ Len(P) = 3
                      /\ P[1] = Audit(c, "evaluate", actor, c.state, c.state, "escalated", findings)
                      /\ P[2] = Emit("case.escalated", c) /\ P[3] = Route(c, findings)
                 ELSE /\ Len(P) = 1
                      /\ P[1] = Audit(c, "evaluate", actor, c.state, c.state, "allowed", findings)
<1> DEFINE a == Audit(c, "evaluate", actor, c.state, c.state, "escalated", findings)
           b == Audit(c, "evaluate", actor, c.state, c.state, "allowed", findings)
           e == Emit("case.escalated", c)
           r == Route(c, findings)
<1>1. EvaluateEffects(c, actor, findings) =
        IF RequiresHumanReview(c, findings) THEN << a, e, r >> ELSE << b >>
  BY DEF EvaluateEffects
<1> HIDE DEF a, b, e, r
<1> QED
  BY <1>1 DEF a, b, e, r

(* m is c with one legal move more. *)
OneMoveOn(c, m, actor) ==
    /\ m.case_id = c.case_id /\ m.tenant = c.tenant /\ m.case_type = c.case_type
    /\ m.opened_at = c.opened_at /\ m.severity = c.severity
    /\ IsLegal(c, m.state)
    /\ Len(m.history) = Len(c.history) + 1
    /\ \A i \in 1..Len(c.history) : m.history[i] = c.history[i]
    /\ LET last == m.history[Len(c.history) + 1]
       IN  last.from_state = c.state /\ last.to_state = m.state /\ last.actor = actor

LEMMA MovedIsOneOn ==
    ASSUME NEW c \in Case, NEW to, IsLegal(c, to), NEW actor \in Actors, NEW as_of \in Nat
    PROVE  OneMoveOn(c, Moved(c, to, actor, as_of), actor)
<1> DEFINE m == Moved(c, to, actor, as_of)
           h == c.history
           entry == [ seq |-> NextSeq(c), from_state |-> c.state, to_state |-> to,
                      actor |-> actor, at |-> as_of ]
<1>1. to \in States /\ c.state \in States
  BY EngineAssumption DEF Case, IsLegal, Definition, IsWorkflowDefinition
<1>2. h \in Seq(Transition) /\ NextSeq(c) \in Nat \ {0}
  BY DEF Case, NextSeq
<1>3. entry \in Transition
  BY <1>1, <1>2 DEF Transition
<1>4. m = [c EXCEPT !.state = to, !.history = Append(h, entry)]
  BY DEF Moved
<1>5. /\ m.history = Append(h, entry) /\ m.state = to
      /\ m.case_id = c.case_id /\ m.tenant = c.tenant /\ m.case_type = c.case_type
      /\ m.opened_at = c.opened_at /\ m.severity = c.severity
  BY <1>4 DEF Case
<1> HIDE DEF m
<1>6. entry.from_state = c.state /\ entry.to_state = to /\ entry.actor = actor
  OBVIOUS
<1> HIDE DEF entry
<1>7. /\ Len(Append(h, entry)) = Len(h) + 1
      /\ \A i \in 1..Len(h) : Append(h, entry)[i] = h[i]
      /\ Append(h, entry)[Len(h) + 1] = entry
  BY <1>2, <1>3
<1>8. OneMoveOn(c, m, actor)
  BY <1>5, <1>6, <1>7 DEF OneMoveOn
<1> QED
  BY <1>8 DEF m

(* The handlers that may be under way, by how far they are: s is left to   *)
(* be done, and rows are stored.                                           *)
Opening(s, rows, c, actor, k) ==
    /\ c \in Case /\ actor \in Actors
    /\ Left(s, OpenEffects(c, actor), k)
    /\ c.history = << >> /\ c.state = Definition(c).initial
    /\ k = 0 => \A d \in rows : d.case_id # c.case_id
    /\ k > 0 => c \in rows

Moving(s, rows, c, m, actor, k) ==
    /\ c \in Case /\ m \in Case /\ actor \in Actors /\ OneMoveOn(c, m, actor)
    /\ Left(s, TransitionEffects(c, m, actor), k)
    /\ k = 0 => c \in rows
    /\ k > 0 => m \in rows

Evaluating(s, rows, c, actor, findings, k) ==
    /\ c \in rows /\ actor \in Actors /\ findings \in SUBSET CaseFindings
    /\ Left(s, EvaluateEffects(c, actor, findings), k)

Refusing(s, rows, c, actor, to) ==
    /\ c \in rows /\ actor \in Actors /\ to \in States
    /\ s = << Audit(c, "transition", actor, c.state, to, "rejected", {}) >>

Progress(s, rows) ==
    \/ s = << >>
    \/ \E c, actor, k : Opening(s, rows, c, actor, k)
    \/ \E c, m, actor, k : Moving(s, rows, c, m, actor, k)
    \/ \E c, actor, findings, k : Evaluating(s, rows, c, actor, findings, k)
    \/ \E c, actor, to : Refusing(s, rows, c, actor, to)

SInv ==
    /\ TypeOK
    /\ \A c, d \in cases : c.case_id = d.case_id => c = d
    /\ \A i \in DOMAIN trail : \E c \in cases : c.case_id = trail[i].case_id
    /\ \A w \in Workers : asked[w] # NotAsked => todo[w] = << >>
    /\ \A w \in Workers : Progress(todo[w], cases)

-----------------------------------------------------------------------------
(* How it goes on. *)

(* The effects of a case that is opened, by their kinds. *)
LEMMA OpenKinds ==
    ASSUME NEW c \in Case, NEW actor \in Actors, NEW k \in 1..Len(OpenEffects(c, actor))
    PROVE  LET e == OpenEffects(c, actor)[k]
           IN  /\ k = 1 => e = Store(c)
               /\ k # 1 => e.kind # "put"
               /\ e.kind # "route"
               /\ e.kind # "cancel"
               /\ e.kind = "record" => e = Audit(c, "open", actor, NoState, c.state, "allowed", {})
<1> DEFINE P == OpenEffects(c, actor)
           n == Len(Definition(c).clocks)
           e == P[k]
<1>1. /\ n \in Nat /\ Len(P) = n + 3
      /\ P[1] = Store(c)
      /\ \A i \in 1..n :
           P[i + 1] = Wake("schedule", c, Definition(c).clocks[i].name,
                           Deadline(c, Definition(c).clocks[i], c.opened_at).due_at)
      /\ P[n + 2] = Emit("case.opened", c)
      /\ P[n + 3] = Audit(c, "open", actor, NoState, c.state, "allowed", {})
  BY OpenPlaces
<1> HIDE DEF P, n
<1>2. k = 1 \/ (k - 1 \in 1..n /\ k = (k - 1) + 1) \/ k = n + 2 \/ k = n + 3
  BY <1>1 DEF P
<1>3. CASE k = 1
  <2>1. e = Store(c)
    BY <1>1, <1>3
  <2> QED
    BY <1>3, <2>1 DEF P, Store
<1>4. CASE k - 1 \in 1..n /\ k = (k - 1) + 1
  <2>1. ASSUME NEW i \in 1..n PROVE P[i + 1].kind = "schedule"
    <3>1. P[i + 1] = Wake("schedule", c, Definition(c).clocks[i].name,
                          Deadline(c, Definition(c).clocks[i], c.opened_at).due_at)
      BY <1>1
    <3> QED
      BY <3>1 DEF Wake
  <2>2. P[(k - 1) + 1].kind = "schedule"
    BY <1>4, <2>1
  <2>3. e.kind = "schedule" /\ k # 1
    BY <1>1, <1>4, <2>2
  <2> QED
    BY <2>3 DEF P
<1>5. CASE k = n + 2
  <2>1. e.kind = "publish" /\ k # 1
    BY <1>1, <1>5 DEF Emit
  <2> QED
    BY <2>1 DEF P
<1>6. CASE k = n + 3
  <2>1. k # 1 /\ e = Audit(c, "open", actor, NoState, c.state, "allowed", {})
    BY <1>1, <1>6
  <2>2. e.kind = "record"
    BY <2>1 DEF Audit
  <2> QED
    BY <2>1, <2>2 DEF P
<1> QED
  BY <1>2, <1>3, <1>4, <1>5, <1>6

LEMMA MoveKinds ==
    ASSUME NEW c \in Case, NEW m \in Case, NEW actor \in Actors,
           NEW k \in 1..Len(TransitionEffects(c, m, actor))
    PROVE  LET P == TransitionEffects(c, m, actor)
               e == P[k]
           IN  /\ k = 1 => e = Store(m)
               /\ k # 1 => e.kind # "put"
               /\ e.kind # "route"
               /\ e.kind # "schedule"
               /\ e.kind = "record" <=> k = Len(P)
               /\ k = Len(P) => e = Audit(m, "transition", actor, c.state, m.state, "allowed", {})
               /\ Len(P) > 2
<1> DEFINE P == TransitionEffects(c, m, actor)
           n == IF IsTerminal(m) THEN Len(Definition(m).clocks) ELSE 0
           e == P[k]
<1>1. /\ n \in Nat /\ Len(P) = n + 3
      /\ P[1] = Store(m)
      /\ \A i \in 1..n : P[i + 1] = Wake("cancel", m, Definition(m).clocks[i].name, 0)
      /\ P[n + 2] = Emit("case.transitioned", m)
      /\ P[n + 3] = Audit(m, "transition", actor, c.state, m.state, "allowed", {})
  BY MovePlaces
<1> HIDE DEF P, n
<1>2. k = 1 \/ (k - 1 \in 1..n /\ k = (k - 1) + 1) \/ k = n + 2 \/ k = n + 3
  BY <1>1 DEF P
<1>3. CASE k = 1
  <2>1. e = Store(m) /\ k # Len(P) /\ Len(P) > 2
    BY <1>1, <1>3
  <2> QED
    BY <1>3, <2>1 DEF P, Store
<1>4. CASE k - 1 \in 1..n /\ k = (k - 1) + 1
  <2>1. ASSUME NEW i \in 1..n PROVE P[i + 1].kind = "cancel"
    <3>1. P[i + 1] = Wake("cancel", m, Definition(m).clocks[i].name, 0)
      BY <1>1
    <3> QED
      BY <3>1 DEF Wake
  <2>2. P[(k - 1) + 1].kind = "cancel"
    BY <1>4, <2>1
  <2>3. e.kind = "cancel" /\ k # 1 /\ k # Len(P) /\ Len(P) > 2
    BY <1>1, <1>4, <2>2
  <2> QED
    BY <2>3 DEF P
<1>5. CASE k = n + 2
  <2>1. e.kind = "publish" /\ k # 1 /\ k # Len(P) /\ Len(P) > 2
    BY <1>1, <1>5 DEF Emit
  <2> QED
    BY <2>1 DEF P
<1>6. CASE k = n + 3
  <2>1. k # 1 /\ k = Len(P) /\ Len(P) > 2
        /\ e = Audit(m, "transition", actor, c.state, m.state, "allowed", {})
    BY <1>1, <1>6
  <2>2. e.kind = "record"
    BY <2>1 DEF Audit
  <2> QED
    BY <2>1, <2>2 DEF P
<1> QED
  BY <1>2, <1>3, <1>4, <1>5, <1>6

LEMMA EvaluateKinds ==
    ASSUME NEW c, NEW actor, NEW findings, NEW k \in 1..Len(EvaluateEffects(c, actor, findings))
    PROVE  LET P == EvaluateEffects(c, actor, findings)
               e == P[k]
           IN  /\ e.kind \notin {"put", "schedule", "cancel"}
               /\ e.kind = "record" =>
                    e.event.case_id = c.case_id /\ e.event.action = "evaluate"
               /\ e.kind = "record" <=> k = 1
<1> DEFINE P == EvaluateEffects(c, actor, findings)
           e == P[k]
<1>1. IF RequiresHumanReview(c, findings)
        THEN /\ Len(P) = 3
             /\ P[1] = Audit(c, "evaluate", actor, c.state, c.state, "escalated", findings)
             /\ P[2] = Emit("case.escalated", c) /\ P[3] = Route(c, findings)
        ELSE /\ Len(P) = 1
             /\ P[1] = Audit(c, "evaluate", actor, c.state, c.state, "allowed", findings)
  BY EvaluatePlaces
<1>2. /\ P[1].kind = "record" /\ P[1].event.case_id = c.case_id
      /\ P[1].event.action = "evaluate"
  BY <1>1 DEF Audit
<1>3. Len(P) = 1 \/ (Len(P) = 3 /\ P[2].kind = "publish" /\ P[3].kind = "route")
  BY <1>1 DEF Emit, Route
<1>4. k \in 1..Len(P)
  OBVIOUS
<1> HIDE DEF P
<1>5. k = 1 \/ (k = 2 /\ P[2].kind = "publish") \/ (k = 3 /\ P[3].kind = "route")
  <2>1. CASE Len(P) = 1
    BY <1>4, <2>1
  <2>2. CASE Len(P) = 3 /\ P[2].kind = "publish" /\ P[3].kind = "route"
    <3>1. k \in 1..3
      BY <1>4, <2>2
    <3> QED
      BY <2>2, <3>1
  <2> QED
    BY <1>3, <2>1, <2>2
<1>6. /\ e.kind \notin {"put", "schedule", "cancel"}
      /\ e.kind = "record" => e.event.case_id = c.case_id /\ e.event.action = "evaluate"
      /\ e.kind = "record" <=> k = 1
  BY <1>2, <1>5
<1> QED
  BY <1>6 DEF P

(* A step of a handler takes the next effect of its plan. *)
LEMMA HeadIsNext ==
    ASSUME TypeOK, NEW w \in Workers, NEW kind, Doing(w, kind),
           NEW P \in Seq(Effect), NEW k, Left(todo[w], P, k)
    PROVE  /\ k \in Nat /\ k + 1 \in 1..Len(P) /\ Head(todo[w]) = P[k + 1]
           /\ P[k + 1].kind = kind
           /\ todo'[w] = Tail(todo[w]) /\ Left(todo'[w], P, k + 1)
<1>1. todo[w] \in Seq(Effect) /\ todo[w] # << >>
  BY DEF TypeOK, Doing
<1>2. k + 1 \in 1..Len(P) /\ Head(todo[w]) = P[k + 1] /\ Left(Tail(todo[w]), P, k + 1)
  BY <1>1, LeftStep
<1>3. todo'[w] = Tail(todo[w])
  BY DEF TypeOK, Doing
<1>4. k \in Nat
  BY DEF Left
<1> QED
  BY <1>2, <1>3, <1>4 DEF Doing

(* What an effect does to rows and trail, by its kind. *)
LEMMA EffectOf ==
    ASSUME NEW w \in Workers, Perform(w)
    PROVE  LET e == Head(todo[w])
           IN  /\ Doing(w, e.kind)
               /\ e.kind \in {"put", "schedule", "cancel", "publish", "record", "route"}
               /\ cases' = IF e.kind = "put" THEN Put(cases, e.case) ELSE cases
               /\ trail' = IF e.kind = "record" THEN Append(trail, e.event) ELSE trail
               /\ reviews' = IF e.kind = "route" THEN Append(reviews, e.review) ELSE reviews
               /\ timers' = CASE e.kind = "schedule" -> IF e.timer.fire_at = NotStarted THEN timers
                                                        ELSE Schedule(timers, e.timer)
                              [] e.kind = "cancel" -> Cancel(timers, e.timer)
                              [] OTHER -> timers
BY DEF Perform, PutCase, ScheduleTimer, CancelTimer, Publish, Record, RouteToReview, Doing

(* The new row takes the place of the old. *)
LEMMA PutNew ==
    ASSUME NEW rows, NEW c, \A d \in rows : d.case_id # c.case_id
    PROVE  Put(rows, c) = rows \cup {c}
BY DEF Put, SameCase

LEMMA PutMoved ==
    ASSUME NEW rows, NEW c \in rows, NEW m, \A d, e \in rows : d.case_id = e.case_id => d = e,
           m.case_id = c.case_id, m.tenant = c.tenant
    PROVE  Put(rows, m) = (rows \ {c}) \cup {m}
BY DEF Put, SameCase

LEMMA PlansTyped ==
    /\ \A c \in Case, actor \in Actors : OpenEffects(c, actor) \in Seq(Effect)
    /\ \A c, m \in Case, actor \in Actors : TransitionEffects(c, m, actor) \in Seq(Effect)
    /\ \A c \in Case, actor \in Actors, f \in SUBSET CaseFindings :
         EvaluateEffects(c, actor, f) \in Seq(Effect)
BY OpenTyped, TransitionTyped, EvaluateTyped

LEMMA OpeningGoesOn ==
    ASSUME SInv, NEW w \in Workers, Workers = {w}, Perform(w),
           NEW c, NEW actor, NEW k, Opening(todo[w], cases, c, actor, k)
    PROVE  /\ Opening(todo'[w], cases', c, actor, k + 1)
           /\ k = 0 => /\ cases' = cases \cup {c} /\ \A d \in cases : d.case_id # c.case_id
                       /\ trail' = trail /\ timers' = timers /\ reviews' = reviews
           /\ k # 0 => /\ cases' = cases /\ c \in cases /\ reviews' = reviews
                       /\ \/ trail' = trail
                          \/ trail' = Append(trail, Audit(c, "open", actor, NoState, c.state,
                                                          "allowed", {}).event)
<1> DEFINE P == OpenEffects(c, actor)
           e == Head(todo[w])
<1>1. c \in Case /\ actor \in Actors /\ Left(todo[w], P, k)
  BY DEF Opening
<1>2. P \in Seq(Effect)
  BY <1>1, PlansTyped
<1>3. Doing(w, e.kind)
  BY EffectOf
<1>4. /\ k \in Nat /\ k + 1 \in 1..Len(P) /\ e = P[k + 1] /\ Left(todo'[w], P, k + 1)
  BY <1>1, <1>2, <1>3, HeadIsNext DEF SInv
<1>5. /\ k + 1 = 1 => e = Store(c)
      /\ k + 1 # 1 => e.kind # "put"
      /\ e.kind # "route"
      /\ e.kind = "record" => e = Audit(c, "open", actor, NoState, c.state, "allowed", {})
  BY <1>1, <1>4, OpenKinds
<1> HIDE DEF P, e
<1>6. CASE k = 0
  <2>1. e.kind = "put" /\ e.case = c
    BY <1>5, <1>6 DEF Store
  <2>2. \A d \in cases : d.case_id # c.case_id
    BY <1>6 DEF Opening
  <2>3. cases' = cases \cup {c}
    BY <2>1, <2>2, EffectOf, PutNew DEF e
  <2>4. trail' = trail /\ timers' = timers /\ reviews' = reviews
    BY <2>1, EffectOf DEF e
  <2>5. Opening(todo'[w], cases', c, actor, k + 1)
    BY <1>4, <1>6, <2>3 DEF Opening, P
  <2> QED
    BY <1>6, <2>2, <2>3, <2>4, <2>5
<1>7. CASE k # 0
  <2>1. e.kind # "put" /\ c \in cases
    BY <1>4, <1>5, <1>7 DEF Opening
  <2>2. cases' = cases /\ reviews' = reviews
    BY <1>5, <2>1, EffectOf DEF e
  <2>3. \/ trail' = trail
        \/ trail' = Append(trail, Audit(c, "open", actor, NoState, c.state, "allowed", {}).event)
    BY <1>5, EffectOf DEF e
  <2>4. Opening(todo'[w], cases', c, actor, k + 1)
    BY <1>4, <1>7, <2>1, <2>2 DEF Opening, P
  <2> QED
    BY <1>7, <2>1, <2>2, <2>3, <2>4
<1> QED
  BY <1>6, <1>7

LEMMA MovingGoesOn ==
    ASSUME SInv, NEW w \in Workers, Workers = {w}, Perform(w),
           NEW c, NEW m, NEW actor, NEW k, Moving(todo[w], cases, c, m, actor, k)
    PROVE  /\ Moving(todo'[w], cases', c, m, actor, k + 1)
           /\ k = 0 => /\ c \in cases /\ cases' = (cases \ {c}) \cup {m}
                       /\ trail' = trail /\ timers' = timers /\ reviews' = reviews
           /\ k # 0 => /\ cases' = cases /\ m \in cases /\ reviews' = reviews
                       /\ trail' = IF k + 1 = Len(TransitionEffects(c, m, actor))
                                     THEN Append(trail, Audit(m, "transition", actor, c.state,
                                                              m.state, "allowed", {}).event)
                                     ELSE trail
<1> DEFINE P == TransitionEffects(c, m, actor)
           e == Head(todo[w])
<1>1. /\ c \in Case /\ m \in Case /\ actor \in Actors /\ Left(todo[w], P, k)
      /\ m.case_id = c.case_id /\ m.tenant = c.tenant
  BY DEF Moving, OneMoveOn
<1>2. P \in Seq(Effect)
  BY <1>1, PlansTyped
<1>3. Doing(w, e.kind)
  BY EffectOf
<1>4. /\ k \in Nat /\ k + 1 \in 1..Len(P) /\ e = P[k + 1] /\ Left(todo'[w], P, k + 1)
  BY <1>1, <1>2, <1>3, HeadIsNext DEF SInv
<1>5. /\ k + 1 = 1 => e = Store(m)
      /\ k + 1 # 1 => e.kind # "put"
      /\ e.kind # "route"
      /\ e.kind = "record" <=> k + 1 = Len(P)
      /\ k + 1 = Len(P) => e = Audit(m, "transition", actor, c.state, m.state, "allowed", {})
  BY <1>1, <1>4, MoveKinds
<1> HIDE DEF P, e
<1>6. CASE k = 0
  <2>1. e.kind = "put" /\ e.case = m
    BY <1>5, <1>6 DEF Store
  <2>2. c \in cases /\ \A d, f \in cases : d.case_id = f.case_id => d = f
    BY <1>6 DEF Moving, SInv
  <2>3. cases' = (cases \ {c}) \cup {m}
    BY <1>1, <2>1, <2>2, EffectOf, PutMoved DEF e
  <2>4. trail' = trail /\ timers' = timers /\ reviews' = reviews
    BY <2>1, EffectOf DEF e
  <2>5. Moving(todo'[w], cases', c, m, actor, k + 1)
    BY <1>4, <1>6, <2>3 DEF Moving, P
  <2> QED
    BY <1>6, <2>2, <2>3, <2>4, <2>5
<1>7. CASE k # 0
  <2>1. e.kind # "put" /\ m \in cases
    BY <1>4, <1>5, <1>7 DEF Moving
  <2>2. cases' = cases /\ reviews' = reviews
    BY <1>5, <2>1, EffectOf DEF e
  <2>3. trail' = IF k + 1 = Len(P) THEN Append(trail, Audit(m, "transition", actor, c.state,
                                                            m.state, "allowed", {}).event)
                                   ELSE trail
    BY <1>5, EffectOf DEF e
  <2>4. Moving(todo'[w], cases', c, m, actor, k + 1)
    BY <1>4, <1>7, <2>1, <2>2 DEF Moving, P
  <2> QED
    BY <1>7, <2>1, <2>2, <2>3, <2>4 DEF P
<1> QED
  BY <1>6, <1>7

LEMMA EvaluatingGoesOn ==
    ASSUME SInv, NEW w \in Workers, Workers = {w}, Perform(w),
           NEW c, NEW actor, NEW findings, NEW k,
           Evaluating(todo[w], cases, c, actor, findings, k)
    PROVE  /\ Evaluating(todo'[w], cases', c, actor, findings, k + 1)
           /\ cases' = cases /\ timers' = timers /\ k \in Nat
           /\ \/ trail' = trail
              \/ \E e : trail' = Append(trail, e) /\ e.case_id = c.case_id /\ e.action = "evaluate"
<1> DEFINE P == EvaluateEffects(c, actor, findings)
           e == Head(todo[w])
<1>1. /\ c \in cases /\ c \in Case /\ actor \in Actors /\ findings \in SUBSET CaseFindings
      /\ Left(todo[w], P, k)
  BY DEF Evaluating, SInv, TypeOK
<1>2. P \in Seq(Effect)
  BY <1>1, PlansTyped
<1>3. Doing(w, e.kind)
  BY EffectOf
<1>4. /\ k \in Nat /\ k + 1 \in 1..Len(P) /\ e = P[k + 1] /\ Left(todo'[w], P, k + 1)
  BY <1>1, <1>2, <1>3, HeadIsNext DEF SInv
<1>5. /\ e.kind \notin {"put", "schedule", "cancel"}
      /\ e.kind = "record" => e.event.case_id = c.case_id /\ e.event.action = "evaluate"
  BY <1>4, EvaluateKinds
<1> HIDE DEF P, e
<1>6. cases' = cases /\ timers' = timers
  BY <1>5, EffectOf DEF e
<1>7. \/ trail' = trail
      \/ \E x : trail' = Append(trail, x) /\ x.case_id = c.case_id /\ x.action = "evaluate"
  BY <1>5, EffectOf DEF e
<1>8. Evaluating(todo'[w], cases', c, actor, findings, k + 1)
  BY <1>1, <1>4, <1>6 DEF Evaluating, P
<1> QED
  BY <1>4, <1>6, <1>7, <1>8

LEMMA RefusingEnds ==
    ASSUME SInv, NEW w \in Workers, Workers = {w}, Perform(w),
           NEW c, NEW actor, NEW to, Refusing(todo[w], cases, c, actor, to)
    PROVE  /\ todo'[w] = << >> /\ cases' = cases /\ timers' = timers /\ reviews' = reviews
           /\ c \in cases
           /\ trail' = Append(trail, Audit(c, "transition", actor, c.state, to, "rejected", {}).event)
<1> DEFINE a == Audit(c, "transition", actor, c.state, to, "rejected", {})
<1>1. c \in cases /\ todo[w] = << a >>
  BY DEF Refusing
<1>2. a.kind = "record"
  BY DEF Audit
<1> HIDE DEF a
<1>3. Head(todo[w]) = a /\ Tail(todo[w]) = << >>
  BY <1>1
<1>4. cases' = cases /\ timers' = timers /\ reviews' = reviews /\ trail' = Append(trail, a.event)
  BY <1>2, <1>3, EffectOf
<1>5. todo'[w] = << >>
  BY <1>3, EffectOf DEF Doing, SInv, TypeOK
<1> QED
  BY <1>1, <1>4, <1>5 DEF a


(* The trail's cases are stored, and stay so. *)
LEMMA KnownAfter ==
    ASSUME NEW S, NEW t \in Seq(S), NEW e, NEW known, NEW known2,
           \A i \in DOMAIN t : \E c \in known : c.case_id = t[i].case_id,
           \A c \in known : \E d \in known2 : d.case_id = c.case_id,
           \E c \in known : c.case_id = e.case_id
    PROVE  /\ \A i \in DOMAIN t : \E c \in known2 : c.case_id = t[i].case_id
           /\ \A i \in DOMAIN Append(t, e) :
                \E c \in known2 : c.case_id = Append(t, e)[i].case_id
<1>1. \A i \in DOMAIN t : \E c \in known2 : c.case_id = t[i].case_id
  OBVIOUS
<1>2. \E c \in known2 : c.case_id = e.case_id
  OBVIOUS
<1>3. DOMAIN t = 1..Len(t) /\ Len(t) \in Nat
  OBVIOUS
<1>4. DOMAIN Append(t, e) = 1..(Len(t) + 1)
  OBVIOUS
<1>5. Append(t, e)[Len(t) + 1] = e
  OBVIOUS
<1>6. \A i \in 1..Len(t) : Append(t, e)[i] = t[i]
  OBVIOUS
<1>7. ASSUME NEW i \in DOMAIN Append(t, e)
      PROVE  \E c \in known2 : c.case_id = Append(t, e)[i].case_id
  <2>1. CASE i = Len(t) + 1
    BY <1>2, <1>5, <2>1
  <2>2. CASE i \in 1..Len(t)
    <3>1. Append(t, e)[i] = t[i] /\ i \in DOMAIN t
      BY <1>3, <1>6, <2>2
    <3> QED
      BY <1>1, <3>1
  <2> QED
    BY <1>3, <1>4, <2>1, <2>2
<1> QED
  BY <1>1, <1>7

LEMMA SerialPerform ==
    ASSUME SInv, NEW w \in Workers, Workers = {w}, Perform(w)
    PROVE  SInv'
<1>1. TypeOK'
  BY PerformTyped DEF SInv
<1>2. Doing(w, Head(todo[w]).kind)
  BY EffectOf
<1>3. \A v \in Workers : asked'[v] # NotAsked => todo'[v] = << >>
  <2>1. todo[w] # << >> /\ asked' = asked
    BY <1>2 DEF Doing
  <2> QED
    BY <2>1 DEF SInv
<1>4. trail \in Seq(CaseAuditEvent)
  BY DEF SInv, TypeOK
<1> DEFINE Unique(rows) == \A c, d \in rows : c.case_id = d.case_id => c = d
           Known(t, rows) == \A i \in DOMAIN t : \E c \in rows : c.case_id = t[i].case_id
<1>5. Unique(cases) /\ Known(trail, cases) /\ Progress(todo[w], cases)
  BY DEF SInv
<1>6. Unique(cases') /\ Known(trail', cases') /\ Progress(todo'[w], cases')
  <2>1. CASE todo[w] = << >>
    BY <1>2, <2>1 DEF Doing
  <2>2. ASSUME NEW c, NEW actor, NEW k, Opening(todo[w], cases, c, actor, k)
        PROVE  Unique(cases') /\ Known(trail', cases') /\ Progress(todo'[w], cases')
    <3>1. /\ Opening(todo'[w], cases', c, actor, k + 1)
          /\ k = 0 => /\ cases' = cases \cup {c} /\ \A d \in cases : d.case_id # c.case_id
                      /\ trail' = trail
          /\ k # 0 => /\ cases' = cases /\ c \in cases
                      /\ \/ trail' = trail
                         \/ trail' = Append(trail, Audit(c, "open", actor, NoState, c.state,
                                                         "allowed", {}).event)
      BY <2>2, OpeningGoesOn
    <3>2. Progress(todo'[w], cases')
      BY <3>1 DEF Progress
    <3>3. Unique(cases')
      BY <1>5, <3>1
    <3>4. Known(trail', cases')
      <4>1. CASE trail' = trail
        BY <1>5, <3>1, <4>1
      <4>2. CASE k # 0 /\ trail' = Append(trail, Audit(c, "open", actor, NoState, c.state,
                                                       "allowed", {}).event)
        <5> DEFINE e == Audit(c, "open", actor, NoState, c.state, "allowed", {}).event
        <5>1. e.case_id = c.case_id /\ c \in cases /\ cases' = cases
          BY <3>1, <4>2 DEF Audit
        <5> HIDE DEF e
        <5>2. Known(Append(trail, e), cases)
          BY <1>4, <1>5, <5>1, KnownAfter
        <5> QED
          BY <4>2, <5>1, <5>2 DEF e
      <4> QED
        BY <3>1, <4>1, <4>2
    <3> QED
      BY <3>2, <3>3, <3>4
  <2>3. ASSUME NEW c, NEW m, NEW actor, NEW k, Moving(todo[w], cases, c, m, actor, k)
        PROVE  Unique(cases') /\ Known(trail', cases') /\ Progress(todo'[w], cases')
    <3> DEFINE e == Audit(m, "transition", actor, c.state, m.state, "allowed", {}).event
    <3>1. /\ Moving(todo'[w], cases', c, m, actor, k + 1)
          /\ k = 0 => /\ c \in cases /\ cases' = (cases \ {c}) \cup {m}
                      /\ trail' = trail
          /\ k # 0 => /\ cases' = cases /\ m \in cases
                      /\ trail' = trail \/ trail' = Append(trail, e)
      BY <2>3, MovingGoesOn
    <3>2. Progress(todo'[w], cases')
      BY <3>1 DEF Progress
    <3>3. m.case_id = c.case_id /\ e.case_id = m.case_id
      BY <2>3 DEF Moving, OneMoveOn, Audit
    <3> HIDE DEF e
    <3>4. Unique(cases')
      BY <1>5, <3>1, <3>3
    <3>5. Known(trail', cases')
      <4>1. CASE k = 0
        <5>1. \A d \in cases : \E f \in cases' : f.case_id = d.case_id
          BY <3>1, <3>3, <4>1
        <5> QED
          BY <1>5, <3>1, <4>1, <5>1
      <4>2. CASE k # 0
        <5>1. m \in cases /\ e.case_id = m.case_id
          BY <3>1, <3>3, <4>2
        <5>2. Known(Append(trail, e), cases)
          BY ONLY <1>4, <1>5, <5>1, KnownAfter
        <5>3. cases' = cases /\ (trail' = trail \/ trail' = Append(trail, e))
          BY <3>1, <4>2
        <5> QED
          BY <1>5, <5>2, <5>3
      <4> QED
        BY <4>1, <4>2
    <3> QED
      BY <3>2, <3>4, <3>5
  <2>4. ASSUME NEW c, NEW actor, NEW findings, NEW k,
               Evaluating(todo[w], cases, c, actor, findings, k)
        PROVE  Unique(cases') /\ Known(trail', cases') /\ Progress(todo'[w], cases')
    <3>1. /\ Evaluating(todo'[w], cases', c, actor, findings, k + 1)
          /\ cases' = cases
          /\ \/ trail' = trail
             \/ \E e : trail' = Append(trail, e) /\ e.case_id = c.case_id /\ e.action = "evaluate"
      BY <2>4, EvaluatingGoesOn
    <3>2. Progress(todo'[w], cases')
      BY <3>1 DEF Progress
    <3>3. c \in cases
      BY <2>4 DEF Evaluating
    <3>4. Known(trail', cases')
      <4>1. ASSUME NEW e, e.case_id = c.case_id PROVE Known(Append(trail, e), cases)
        BY <1>4, <1>5, <3>3, <4>1, KnownAfter
      <4> QED
        BY <1>5, <3>1, <4>1
    <3> QED
      BY <1>5, <3>1, <3>2, <3>4
  <2>5. ASSUME NEW c, NEW actor, NEW to, Refusing(todo[w], cases, c, actor, to)
        PROVE  Unique(cases') /\ Known(trail', cases') /\ Progress(todo'[w], cases')
    <3> DEFINE e == Audit(c, "transition", actor, c.state, to, "rejected", {}).event
    <3>1. /\ todo'[w] = << >> /\ cases' = cases /\ c \in cases /\ trail' = Append(trail, e)
      BY <2>5, RefusingEnds
    <3>2. e.case_id = c.case_id
      BY DEF Audit
    <3> HIDE DEF e
    <3>3. Known(Append(trail, e), cases)
      BY <1>4, <1>5, <3>1, <3>2, KnownAfter
    <3>4. Progress(todo'[w], cases')
      BY <3>1 DEF Progress
    <3> QED
      BY <1>5, <3>1, <3>3, <3>4
  <2> QED
    BY <1>5, <2>1, <2>2, <2>3, <2>4, <2>5 DEF Progress
<1> QED
  BY <1>1, <1>3, <1>6 DEF SInv

(* A decision starts a plan from its beginning. *)
LEMMA SerialServe ==
    ASSUME SInv, NEW w \in Workers, Workers = {w},
           CaseNotFound(w) \/ TransitionCase(w) \/ RefuseTransition(w) \/ EvaluateCase(w)
    PROVE  /\ SInv' /\ UNCHANGED <<ports, failures>> /\ todo[w] = << >>
           /\ \/ todo'[w] = << >>
              \/ \E c, m, actor : Moving(todo'[w], cases', c, m, actor, 0)
              \/ \E c, actor, to : Refusing(todo'[w], cases', c, actor, to)
              \/ \E c, actor, findings : Evaluating(todo'[w], cases', c, actor, findings, 0)
<1> DEFINE r == asked[w]
<1>1. TypeOK'
  BY ServeTyped DEF SInv
<1>2. PICK effects : Decide(w, effects)
  BY DEF CaseNotFound, TransitionCase, RefuseTransition, EvaluateCase
<1>3. /\ UNCHANGED <<ports, failures>> /\ todo'[w] = effects
      /\ \A v \in Workers : asked'[v] = NotAsked
  BY <1>2 DEF Decide, SInv, TypeOK
<1>4. r # NotAsked
  BY DEF CaseNotFound, TransitionCase, RefuseTransition, EvaluateCase, NotAsked
<1>5. \/ todo'[w] = << >>
      \/ \E c, m, actor : Moving(todo'[w], cases', c, m, actor, 0)
      \/ \E c, actor, to : Refusing(todo'[w], cases', c, actor, to)
      \/ \E c, actor, findings : Evaluating(todo'[w], cases', c, actor, findings, 0)
  <2>1. CASE CaseNotFound(w)
    BY <2>1 DEF CaseNotFound, Decide, SInv, TypeOK
  <2>2. CASE TransitionCase(w)
    <3>1. PICK c \in Loaded(w) :
            /\ IsLegal(c, r.to)
            /\ Decide(w, TransitionEffects(c, Moved(c, r.to, r.who.actor, r.stamp), r.who.actor))
      BY <2>2 DEF TransitionCase
    <3>2. c \in Case /\ r.who.actor \in Actors /\ r.stamp \in Nat /\ c \in cases
      BY <1>4, TypeOfRequest DEF SInv, Loaded, Get
    <3> DEFINE m == Moved(c, r.to, r.who.actor, r.stamp)
               P == TransitionEffects(c, m, r.who.actor)
    <3>3. m \in Case /\ OneMoveOn(c, m, r.who.actor)
      BY <3>1, <3>2, MovedTyped, MovedIsOneOn
    <3> HIDE DEF m
    <3>4. P \in Seq(Effect)
      BY <3>2, <3>3, PlansTyped
    <3>5. todo'[w] = P /\ cases' = cases
      BY <3>1 DEF Decide, ports, SInv, TypeOK, m
    <3>6. Left(P, P, 0)
      BY <3>4, LeftAll
    <3>7. Moving(todo'[w], cases', c, m, r.who.actor, 0)
      BY <3>2, <3>3, <3>5, <3>6 DEF Moving
    <3> QED
      BY <3>7
  <2>3. CASE RefuseTransition(w)
    <3>1. r.what = "transition"
      BY <2>3 DEF RefuseTransition
    <3>2. PICK c \in Loaded(w) :
            Decide(w, << Audit(c, "transition", r.who.actor, c.state, r.to, "rejected", {}) >>)
      BY <2>3 DEF RefuseTransition
    <3>3. r.who.actor \in Actors /\ r.to \in States /\ c \in cases
      BY <1>4, <3>1, TypeOfRequest DEF SInv, Loaded, Get
    <3>4. Refusing(todo'[w], cases', c, r.who.actor, r.to)
      BY <3>2, <3>3 DEF Refusing, Decide, ports, SInv, TypeOK
    <3> QED
      BY <3>4
  <2>4. CASE EvaluateCase(w)
    <3>1. PICK c \in Loaded(w) : Decide(w, EvaluateEffects(c, r.who.actor, Findings(c, r.stamp)))
      BY <2>4 DEF EvaluateCase
    <3> DEFINE f == Findings(c, r.stamp)
               P == EvaluateEffects(c, r.who.actor, f)
    <3>2. c \in Case /\ c \in cases /\ r.who.actor \in Actors /\ f \in SUBSET CaseFindings
      BY <1>4, TypeOfRequest DEF SInv, Loaded, Get, Findings
    <3> HIDE DEF f
    <3>3. P \in Seq(Effect)
      BY <3>2, PlansTyped
    <3>4. todo'[w] = P /\ cases' = cases
      BY <3>1 DEF Decide, ports, SInv, TypeOK, f
    <3>5. Left(P, P, 0)
      BY <3>3, LeftAll
    <3>6. Evaluating(todo'[w], cases', c, r.who.actor, f, 0)
      BY <3>2, <3>4, <3>5 DEF Evaluating
    <3> QED
      BY <3>6
  <2> QED
    BY <2>1, <2>2, <2>3, <2>4
<1>6. Progress(todo'[w], cases')
  BY <1>5 DEF Progress
<1>7. todo[w] = << >>
  BY <1>4 DEF SInv
<1> QED
  BY <1>1, <1>3, <1>5, <1>6, <1>7 DEF SInv, ports

LEMMA SerialOpen ==
    ASSUME SInv, NEW w \in Workers, Workers = {w}, OpenCase(w)
    PROVE  /\ SInv' /\ UNCHANGED <<ports, failures>> /\ todo[w] = << >>
           /\ \E c, actor : Opening(todo'[w], cases', c, actor, 0)
<1>1. TypeOK'
  BY CallTyped DEF SInv
<1>2. PICK p \in Principals, id \in FreshIds, type \in DOMAIN Definitions, s \in Severities :
        todo' = [todo EXCEPT ![w] = OpenEffects(NewCase(id, p.tenant, type, s, now), p.actor)]
  BY DEF OpenCase
<1> DEFINE c == NewCase(id, p.tenant, type, s, now)
           P == OpenEffects(c, p.actor)
<1>3. p.actor \in Actors /\ p.tenant \in Tenants /\ id \in CaseIds /\ now \in Nat
  BY CallersType DEF Callers, Principal, FreshIds, SInv, TypeOK
<1>4. c \in Case
  BY <1>3, NewCaseTyped
<1>5. c.history = << >> /\ c.state = Definition(c).initial /\ c.case_id = id
  BY DEF NewCase, Definition
<1>6. \A d \in cases : d.case_id # c.case_id
  BY <1>5 DEF FreshIds
<1> HIDE DEF c
<1>7. P \in Seq(Effect)
  BY <1>3, <1>4, PlansTyped
<1>8. todo'[w] = P /\ IsIdle(w) /\ UNCHANGED <<ports, failures>> /\ UNCHANGED asked
  BY <1>2 DEF OpenCase, SInv, TypeOK, c
<1>9. Left(P, P, 0)
  BY <1>7, LeftAll
<1>10. Opening(todo'[w], cases', c, p.actor, 0)
  BY <1>3, <1>4, <1>5, <1>6, <1>8, <1>9 DEF Opening, ports
<1>11. Progress(todo'[w], cases')
  BY <1>10 DEF Progress
<1> QED
  BY <1>1, <1>8, <1>10, <1>11 DEF SInv, ports, IsIdle

LEMMA SerialOthers ==
    ASSUME SInv, NEW w \in Workers, Workers = {w},
           Tick \/ Ask(w) \/ TimerFires(w) \/ UNCHANGED vars
    PROVE  SInv' /\ UNCHANGED <<cases, trail, reviews, todo, failures>>
<1>1. TypeOK'
  <2>1. CASE Tick
    BY <2>1, WorkflowAssumption DEF Tick, TypeOK, SInv, ports
  <2>2. CASE UNCHANGED vars
    BY <2>2 DEF vars, TypeOK, SInv
  <2> QED
    BY <2>1, <2>2, CallTyped DEF SInv
<1>2. UNCHANGED <<cases, trail, reviews, todo, failures>>
  BY DEF Tick, Ask, TimerFires, ports, vars
<1>3. \A v \in Workers : asked'[v] # NotAsked => todo'[v] = << >>
  BY <1>2 DEF SInv, TypeOK, Tick, Ask, TimerFires, ports, vars, IsIdle
<1> QED
  BY <1>1, <1>2, <1>3 DEF SInv

LEMMA SerialFail ==
    ASSUME SInv, NEW w \in Workers, Workers = {w}, Fail(w)
    PROVE  SInv' /\ UNCHANGED ports /\ todo'[w] = << >> /\ failures' = failures + 1
<1>1. TypeOK'
  BY CallTyped DEF SInv
<1>2. UNCHANGED ports /\ todo'[w] = << >> /\ failures' = failures + 1
  BY DEF Fail, SInv, TypeOK
<1>3. Progress(todo'[w], cases')
  BY <1>2 DEF Progress
<1> QED
  BY <1>1, <1>2, <1>3 DEF SInv, ports

LEMMA SerialInit == ASSUME Init PROVE SInv
<1>1. TypeOK
  <2>1. asked \in [Workers -> Request] /\ todo \in [Workers -> Seq(Effect)]
    BY DEF Init, Request
  <2>2. 0 \in 0..Horizon /\ 0 \in 0..MaxRequests /\ 0 \in 0..MaxFailures
    BY WorkflowAssumption
  <2> QED
    BY <2>1, <2>2 DEF Init, TypeOK
<1> QED
  BY <1>1 DEF Init, SInv, Progress

(* With one handler at a time, it is always somewhere in a plan of its own *)
(* making, and the row it has to do with is the row it read or wrote.      *)
THEOREM SerialInvariance == ASSUME Serial PROVE Spec => []SInv
<1>1. PICK w : Workers = {w}
  BY DEF Serial
<1>2. Init => SInv
  BY SerialInit
<1>3. SInv /\ [Next]_vars => SInv'
  <2> SUFFICES ASSUME SInv, [Next]_vars PROVE SInv'
    OBVIOUS
  <2>1. ASSUME NEW v \in Workers,
               OpenCase(v) \/ Ask(v) \/ Serve(v) \/ Fail(v) \/ TimerFires(v)
        PROVE  SInv'
    BY <1>1, <2>1, SerialPerform, SerialServe, SerialOpen, SerialOthers, SerialFail DEF Serve
  <2> QED
    BY <1>1, <2>1, SerialOthers DEF Next
<1> QED
  BY <1>2, <1>3, PTL DEF Spec


-----------------------------------------------------------------------------
(* The trail replays the histories: an account of each row. *)

IsMove(e, id) == e.case_id = id /\ e.action = "transition" /\ e.decision = "allowed"
MovesIn(t, id) == {i \in DOMAIN t : IsMove(t[i], id)}
NthIn(t, i, id) == Cardinality({j \in MovesIn(t, id) : j <= i})

(* t replays the history of d, but for lost entries of which n is a bound, *)
(* and for the owed last one.                                              *)
Lost(d, t, owed) == Len(d.history) - Cardinality(MovesIn(t, d.case_id)) - owed

Replays(d, t, owed, n) ==
    /\ Lost(d, t, owed) \in 0..n
    /\ Lost(d, t, owed) = 0 =>
         \A i \in MovesIn(t, d.case_id) : Tells(t[i], d.history[NthIn(t, i, d.case_id)])

Owed(d, o) == IF d \in o THEN 1 ELSE 0

Replayed(rows, t, o, n) == \A d \in rows : Replays(d, t, Owed(d, o), n)

LEMMA MovesCounted ==
    ASSUME NEW t \in Seq(CaseAuditEvent), NEW id
    PROVE  /\ MovesIn(t, id) \subseteq 1..Len(t) /\ IsFiniteSet(MovesIn(t, id))
           /\ Cardinality(MovesIn(t, id)) \in Nat
           /\ \A i \in MovesIn(t, id) : NthIn(t, i, id) \in 1..Cardinality(MovesIn(t, id))
<1> DEFINE M == MovesIn(t, id)
<1>1. M \subseteq 1..Len(t)
  BY DEF MovesIn
<1>2. IsFiniteSet(1..Len(t))
  BY FS_Interval
<1>3. IsFiniteSet(M)
  BY <1>1, <1>2, FS_Subset
<1>4. Cardinality(M) \in Nat
  BY <1>3, FS_CardinalityType
<1>5. ASSUME NEW i \in M PROVE NthIn(t, i, id) \in 1..Cardinality(M)
  <2> DEFINE B == {j \in M : j <= i}
  <2>1. B \subseteq M
    OBVIOUS
  <2>2. IsFiniteSet(B) /\ Cardinality(B) <= Cardinality(M)
    BY <1>3, <2>1, FS_Subset
  <2>3. i \in B
    BY <1>1
  <2> HIDE DEF B, M
  <2>4. Cardinality(B) \in Nat /\ Cardinality(B) # 0
    BY <2>2, <2>3, FS_CardinalityType, FS_EmptySet
  <2>5. NthIn(t, i, id) = Cardinality(B)
    BY DEF NthIn, B, M
  <2> QED
    BY <1>4, <2>2, <2>4, <2>5
<1> QED
  BY <1>1, <1>3, <1>4, <1>5

(* u is t with one entry e more. *)
Grows(t, e, u) ==
    /\ Len(t) \in Nat /\ DOMAIN t = 1..Len(t)
    /\ DOMAIN u = 1..(Len(t) + 1)
    /\ \A i \in 1..Len(t) : u[i] = t[i]
    /\ u[Len(t) + 1] = e

LEMMA AppendGrows ==
    ASSUME NEW t \in Seq(CaseAuditEvent), NEW e, NEW u, u = Append(t, e)
    PROVE  Grows(t, e, u)
BY DEF Grows

(* It is a move of the case, or it is not. *)
SameMoves(t, u, id) ==
    /\ MovesIn(u, id) = MovesIn(t, id)
    /\ \A i \in MovesIn(t, id) : u[i] = t[i] /\ NthIn(u, i, id) = NthIn(t, i, id)

LEMMA OtherEntry ==
    ASSUME NEW t \in Seq(CaseAuditEvent), NEW e, NEW u, NEW id, Grows(t, e, u), ~IsMove(e, id)
    PROVE  SameMoves(t, u, id)
<1>1. /\ Len(t) \in Nat /\ DOMAIN t = 1..Len(t) /\ DOMAIN u = 1..(Len(t) + 1)
      /\ \A i \in 1..Len(t) : u[i] = t[i]
      /\ u[Len(t) + 1] = e
  BY DEF Grows
<1>2. MovesIn(u, id) = MovesIn(t, id)
  <2>1. ASSUME NEW i \in MovesIn(u, id) PROVE i \in MovesIn(t, id)
    <3>1. i \in 1..(Len(t) + 1) /\ IsMove(u[i], id)
      BY <1>1 DEF MovesIn
    <3>2. i # Len(t) + 1
      BY <1>1, <3>1
    <3>3. i \in 1..Len(t)
      BY <1>1, <3>1, <3>2
    <3> QED
      BY <1>1, <3>1, <3>3 DEF MovesIn
  <2>2. ASSUME NEW i \in MovesIn(t, id) PROVE i \in MovesIn(u, id)
    <3>1. i \in 1..Len(t) /\ i \in 1..(Len(t) + 1)
      BY <1>1 DEF MovesIn
    <3> QED
      BY <1>1, <3>1 DEF MovesIn
  <2> QED
    BY <2>1, <2>2
<1>3. \A i \in MovesIn(t, id) : u[i] = t[i]
  BY <1>1 DEF MovesIn
<1> QED
  BY <1>2, <1>3 DEF NthIn, SameMoves

LEMMA MoveEntry ==
    ASSUME NEW t \in Seq(CaseAuditEvent), NEW e, NEW u, NEW id, Grows(t, e, u), IsMove(e, id)
    PROVE  /\ MovesIn(u, id) = MovesIn(t, id) \cup {Len(t) + 1}
           /\ Cardinality(MovesIn(u, id)) = Cardinality(MovesIn(t, id)) + 1
           /\ \A i \in MovesIn(t, id) : /\ u[i] = t[i]
                                        /\ NthIn(u, i, id) = NthIn(t, i, id)
           /\ u[Len(t) + 1] = e
           /\ NthIn(u, Len(t) + 1, id) = Cardinality(MovesIn(t, id)) + 1
<1> DEFINE M == MovesIn(t, id)
<1>1. /\ Len(t) \in Nat /\ DOMAIN t = 1..Len(t) /\ DOMAIN u = 1..(Len(t) + 1)
      /\ \A i \in 1..Len(t) : u[i] = t[i]
      /\ u[Len(t) + 1] = e
  BY DEF Grows
<1>2. M \subseteq 1..Len(t) /\ IsFiniteSet(M)
  BY MovesCounted
<1>3. MovesIn(u, id) = M \cup {Len(t) + 1}
  <2>1. ASSUME NEW i \in MovesIn(u, id) PROVE i \in M \cup {Len(t) + 1}
    <3>1. i \in 1..(Len(t) + 1) /\ IsMove(u[i], id)
      BY <1>1 DEF MovesIn
    <3>2. i = Len(t) + 1 \/ i \in 1..Len(t)
      BY <1>1, <3>1
    <3> QED
      BY <1>1, <3>1, <3>2 DEF MovesIn
  <2>2. ASSUME NEW i \in M PROVE i \in MovesIn(u, id)
    <3>1. i \in 1..Len(t) /\ i \in 1..(Len(t) + 1)
      BY <1>1 DEF MovesIn
    <3> QED
      BY <1>1, <3>1 DEF MovesIn
  <2>3. Len(t) + 1 \in MovesIn(u, id)
    BY <1>1 DEF MovesIn
  <2> QED
    BY <2>1, <2>2, <2>3
<1>4. \A i \in M : u[i] = t[i]
  BY <1>1, <1>2
<1>5. Len(t) + 1 \notin M
  BY <1>1, <1>2
<1>6. Cardinality(M \cup {Len(t) + 1}) = Cardinality(M) + 1
  BY <1>2, <1>5, FS_AddElement
<1>7. ASSUME NEW i \in M PROVE NthIn(u, i, id) = NthIn(t, i, id)
  <2>1. {j \in M \cup {Len(t) + 1} : j <= i} = {j \in M : j <= i}
    BY <1>1, <1>2
  <2> QED
    BY <1>3, <2>1 DEF NthIn
<1>8. {j \in M \cup {Len(t) + 1} : j <= Len(t) + 1} = M \cup {Len(t) + 1}
  BY <1>1, <1>2
<1>9. NthIn(u, Len(t) + 1, id) = Cardinality(M) + 1
  BY <1>3, <1>6, <1>8 DEF NthIn
<1> QED
  BY <1>1, <1>3, <1>4, <1>6, <1>7, <1>9

-----------------------------------------------------------------------------
(* What the steps of a handler do to the account. *)

LEMMA ReplayedOther ==
    ASSUME NEW rows, NEW t \in Seq(CaseAuditEvent), NEW o, NEW n, NEW e, NEW u, Grows(t, e, u),
           Replayed(rows, t, o, n), \A d \in rows : ~IsMove(e, d.case_id)
    PROVE  Replayed(rows, u, o, n)
<1> SUFFICES ASSUME NEW d \in rows PROVE Replays(d, u, Owed(d, o), n)
  BY DEF Replayed
<1>1. Replays(d, t, Owed(d, o), n)
  BY DEF Replayed
<1>2. SameMoves(t, u, d.case_id)
  BY OtherEntry
<1> QED
  BY <1>1, <1>2 DEF Replays, Lost, SameMoves

LEMMA ReplayedOpen ==
    ASSUME NEW rows, NEW t \in Seq(CaseAuditEvent), NEW n \in Nat, NEW c,
           Replayed(rows, t, {}, n), c.history = << >>,
           \A i \in DOMAIN t : \E d \in rows : d.case_id = t[i].case_id,
           \A d \in rows : d.case_id # c.case_id
    PROVE  Replayed(rows \cup {c}, t, {}, n)
<1>1. MovesIn(t, c.case_id) = {}
  BY DEF MovesIn, IsMove
<1>2. Cardinality(MovesIn(t, c.case_id)) = 0 /\ Len(c.history) = 0
  BY <1>1, FS_EmptySet
<1>3. Lost(c, t, Owed(c, {})) = 0
  BY <1>2 DEF Lost, Owed
<1>4. Replays(c, t, Owed(c, {}), n)
  BY <1>1, <1>3 DEF Replays
<1> QED
  BY <1>4 DEF Replayed

LEMMA ReplayedPut ==
    ASSUME NEW rows, NEW t \in Seq(CaseAuditEvent), NEW n \in Nat, NEW actor,
           NEW c \in rows, NEW m, OneMoveOn(c, m, actor), c \in Case, m \in Case,
           Replayed(rows, t, {}, n), \A d \in rows : d.case_id = m.case_id => d = c
    PROVE  Replayed((rows \ {c}) \cup {m}, t, {m}, n)
<1>1. Replays(c, t, 0, n)
  BY DEF Replayed, Owed
<1>2. /\ Len(m.history) = Len(c.history) + 1 /\ m.case_id = c.case_id
      /\ \A i \in 1..Len(c.history) : m.history[i] = c.history[i]
  BY DEF OneMoveOn
<1>3. Len(c.history) \in Nat
  BY DEF Case
<1>4. /\ Cardinality(MovesIn(t, c.case_id)) \in Nat
      /\ \A i \in MovesIn(t, c.case_id) :
           NthIn(t, i, c.case_id) \in 1..Cardinality(MovesIn(t, c.case_id))
  BY MovesCounted
<1>5. Lost(m, t, 1) = Lost(c, t, 0)
  BY <1>2, <1>3, <1>4 DEF Lost
<1>6. Replays(m, t, 1, n)
  <2>1. CASE Lost(c, t, 0) # 0
    BY <1>1, <1>5, <2>1 DEF Replays
  <2>2. CASE Lost(c, t, 0) = 0
    <3>1. Cardinality(MovesIn(t, c.case_id)) = Len(c.history)
      BY <1>3, <1>4, <2>2 DEF Lost
    <3>2. ASSUME NEW i \in MovesIn(t, c.case_id)
          PROVE  Tells(t[i], m.history[NthIn(t, i, c.case_id)])
      <4>1. NthIn(t, i, c.case_id) \in 1..Len(c.history)
        BY <1>4, <3>1
      <4>2. Tells(t[i], c.history[NthIn(t, i, c.case_id)])
        BY <1>1, <2>2 DEF Replays
      <4> QED
        BY <1>2, <4>1, <4>2
    <3> QED
      BY <1>1, <1>2, <1>5, <3>2 DEF Replays
  <2> QED
    BY <2>1, <2>2
<1>7. ASSUME NEW d \in rows \ {c} PROVE Replays(d, t, Owed(d, {m}), n)
  <2>1. d # m
    OBVIOUS
  <2> QED
    BY <2>1 DEF Replayed, Owed
<1> QED
  BY <1>6, <1>7 DEF Replayed, Owed

LEMMA ReplayedRecord ==
    ASSUME NEW rows, NEW t \in Seq(CaseAuditEvent), NEW n \in Nat, NEW actor, NEW c,
           NEW m \in rows, OneMoveOn(c, m, actor), c \in Case, m \in Case,
           Replayed(rows, t, {m}, n), \A d \in rows : d.case_id = m.case_id => d = m,
           NEW u, Grows(t, Audit(m, "transition", actor, c.state, m.state, "allowed", {}).event, u)
    PROVE  Replayed(rows, u, {}, n)
<1> DEFINE e == Audit(m, "transition", actor, c.state, m.state, "allowed", {}).event
<1>1. /\ e.case_id = m.case_id /\ e.action = "transition" /\ e.decision = "allowed"
      /\ e.from_state = c.state /\ e.to_state = m.state /\ e.actor = actor
  BY DEF Audit
<1>0. Grows(t, e, u)
  OBVIOUS
<1> HIDE DEF e
<1>2. IsMove(e, m.case_id) /\ \A d \in rows : d # m => ~IsMove(e, d.case_id)
  BY <1>1 DEF IsMove
<1>3. Replays(m, t, 1, n)
  BY DEF Replayed, Owed
<1>4. Len(c.history) \in Nat /\ Len(m.history) = Len(c.history) + 1
  BY DEF Case, OneMoveOn
<1>5. Tells(e, m.history[Len(m.history)])
  BY <1>1, <1>4 DEF Tells, OneMoveOn
<1>6. Cardinality(MovesIn(t, m.case_id)) \in Nat
  BY MovesCounted
<1>7. /\ MovesIn(u, m.case_id) = MovesIn(t, m.case_id) \cup {Len(t) + 1}
      /\ Cardinality(MovesIn(u, m.case_id)) = Cardinality(MovesIn(t, m.case_id)) + 1
      /\ \A i \in MovesIn(t, m.case_id) : /\ u[i] = t[i]
                                          /\ NthIn(u, i, m.case_id) = NthIn(t, i, m.case_id)
      /\ u[Len(t) + 1] = e
      /\ NthIn(u, Len(t) + 1, m.case_id) = Cardinality(MovesIn(t, m.case_id)) + 1
  <2>1. IsMove(e, m.case_id)
    BY <1>2
  <2> QED
    BY <1>0, <2>1, MoveEntry
<1>8. Lost(m, u, 0) = Lost(m, t, 1)
  <2>1. Cardinality(MovesIn(u, m.case_id)) = Cardinality(MovesIn(t, m.case_id)) + 1
    BY <1>7
  <2> QED
    BY <1>4, <1>6, <2>1 DEF Lost
<1>9. Replays(m, u, 0, n)
  <2>1. CASE Lost(m, t, 1) # 0
    BY <1>3, <1>8, <2>1 DEF Replays
  <2>2. CASE Lost(m, t, 1) = 0
    <3>1. Cardinality(MovesIn(t, m.case_id)) + 1 = Len(m.history)
      BY <1>4, <1>6, <2>2 DEF Lost
    <3>2. Tells(u[Len(t) + 1], m.history[NthIn(u, Len(t) + 1, m.case_id)])
      BY <1>5, <1>7, <3>1
    <3>3. \A i \in MovesIn(t, m.case_id) : Tells(u[i], m.history[NthIn(u, i, m.case_id)])
      BY <1>3, <1>7, <2>2 DEF Replays
    <3> QED
      BY <1>3, <1>7, <1>8, <3>2, <3>3 DEF Replays
  <2> QED
    BY <2>1, <2>2
<1>10. ASSUME NEW d \in rows, d # m PROVE Replays(d, u, 0, n)
  <2>1. Replays(d, t, 0, n)
    BY <1>10 DEF Replayed, Owed
  <2>2. ~IsMove(e, d.case_id)
    BY <1>2, <1>10
  <2>3. SameMoves(t, u, d.case_id)
    BY <1>0, <2>2, OtherEntry
  <2> QED
    BY <2>1, <2>3 DEF Replays, Lost, SameMoves
<1>11. \A d \in rows : Replays(d, u, 0, n)
  BY <1>9, <1>10
<1> QED
  BY <1>11 DEF Replayed, Owed

(* A handler that dies leaves what it owed to the lost ones. *)
LEMMA ReplayedFail ==
    ASSUME NEW rows \in SUBSET Case, NEW t \in Seq(CaseAuditEvent), NEW n \in Nat, NEW o,
           Replayed(rows, t, o, n)
    PROVE  Replayed(rows, t, {}, n + 1)
<1> SUFFICES ASSUME NEW d \in rows PROVE Replays(d, t, 0, n + 1)
  BY DEF Replayed, Owed
<1>1. Replays(d, t, Owed(d, o), n)
  BY DEF Replayed
<1>2. Cardinality(MovesIn(t, d.case_id)) \in Nat /\ Len(d.history) \in Nat
  BY MovesCounted DEF Case
<1>3. Owed(d, o) = 0 \/ Owed(d, o) = 1
  BY DEF Owed
<1>4. CASE Owed(d, o) = 0
  BY <1>1, <1>4 DEF Replays
<1>5. CASE Owed(d, o) = 1
  <2>1. Lost(d, t, 0) = Lost(d, t, 1) + 1 /\ Lost(d, t, 1) \in 0..n
    BY <1>1, <1>2, <1>5 DEF Lost, Replays
  <2> QED
    BY <2>1 DEF Replays
<1> QED
  BY <1>3, <1>4, <1>5


-----------------------------------------------------------------------------
(* Which row has a move that the handler has still to record. *)
Owing(s, rows, o) ==
    \/ s = << >> /\ o = {}
    \/ \E c, actor, k : Opening(s, rows, c, actor, k) /\ o = {}
    \/ \E c, m, actor, k : /\ Moving(s, rows, c, m, actor, k)
                           /\ o = IF k = 0 \/ s = << >> THEN {} ELSE {m}
    \/ \E c, actor, findings, k : Evaluating(s, rows, c, actor, findings, k) /\ o = {}
    \/ \E c, actor, to : Refusing(s, rows, c, actor, to) /\ o = {}

Accounted(s, rows, t, n) == \E o : Owing(s, rows, o) /\ Replayed(rows, t, o, n)

RInv == SInv /\ \A w \in Workers : Accounted(todo[w], cases, trail, failures)

(* Nothing is left exactly at the end of the plan. *)
LEMMA NothingLeft ==
    ASSUME NEW S, NEW P \in Seq(S), NEW s \in Seq(S), NEW k, Left(s, P, k)
    PROVE  s = << >> <=> k = Len(P)
<1>1. Len(s) \in Nat /\ Len(P) \in Nat /\ k \in Nat /\ Len(s) = Len(P) - k
  BY DEF Left
<1>2. s = << >> <=> Len(s) = 0
  OBVIOUS
<1> QED
  BY <1>1, <1>2

LEMMA ReplayPerform ==
    ASSUME RInv, NEW w \in Workers, Workers = {w}, Perform(w)
    PROVE  Accounted(todo'[w], cases', trail', failures')
<1>1. PICK o : Owing(todo[w], cases, o) /\ Replayed(cases, trail, o, failures)
  BY DEF RInv, Accounted
<1>2. /\ trail \in Seq(CaseAuditEvent) /\ failures \in Nat /\ todo[w] \in Seq(Effect)
      /\ cases \in SUBSET Case
  BY DEF RInv, SInv, TypeOK
<1>3. /\ todo[w] # << >> /\ failures' = failures /\ todo'[w] = Tail(todo[w])
  BY EffectOf DEF Doing, RInv, SInv, TypeOK
<1>4. SInv /\ \A d, e \in cases : d.case_id = e.case_id => d = e
  BY DEF RInv, SInv
<1>5. ASSUME NEW c, NEW actor, NEW k, Opening(todo[w], cases, c, actor, k), o = {}
      PROVE  Accounted(todo'[w], cases', trail', failures')
  <2> DEFINE e == Audit(c, "open", actor, NoState, c.state, "allowed", {}).event
  <2>1. /\ Opening(todo'[w], cases', c, actor, k + 1)
        /\ k = 0 => /\ cases' = cases \cup {c} /\ \A d \in cases : d.case_id # c.case_id
                    /\ trail' = trail
        /\ k # 0 => cases' = cases /\ (trail' = trail \/ trail' = Append(trail, e))
    BY <1>4, <1>5, OpeningGoesOn
  <2>2. \A id : ~IsMove(e, id)
    BY DEF Audit, IsMove
  <2> HIDE DEF e
  <2>3. c.history = << >>
    BY <1>5 DEF Opening
  <2>4. Replayed(cases', trail', {}, failures)
    <3>1. CASE k = 0
      <4>1. \A i \in DOMAIN trail : \E d \in cases : d.case_id = trail[i].case_id
        BY <1>4 DEF SInv
      <4>2. Replayed(cases \cup {c}, trail, {}, failures)
        BY <1>1, <1>2, <1>5, <2>1, <2>3, <3>1, <4>1, ReplayedOpen
      <4> QED
        BY <2>1, <3>1, <4>2
    <3>2. CASE k # 0 /\ trail' = trail
      BY <1>1, <1>5, <2>1, <3>2
    <3>3. CASE k # 0 /\ trail' = Append(trail, e)
      <4>1. Grows(trail, e, trail')
        BY <1>2, <3>3, AppendGrows
      <4>2. Replayed(cases, trail', {}, failures)
        BY <1>1, <1>2, <1>5, <2>2, <4>1, ReplayedOther
      <4> QED
        BY <2>1, <3>3, <4>2
    <3> QED
      BY <2>1, <3>1, <3>2, <3>3
  <2>5. Owing(todo'[w], cases', {})
    BY <2>1 DEF Owing
  <2> QED
    BY <1>3, <2>4, <2>5 DEF Accounted
<1>6. ASSUME NEW c, NEW m, NEW actor, NEW k, Moving(todo[w], cases, c, m, actor, k),
             o = IF k = 0 \/ todo[w] = << >> THEN {} ELSE {m}
      PROVE  Accounted(todo'[w], cases', trail', failures')
  <2> DEFINE e == Audit(m, "transition", actor, c.state, m.state, "allowed", {}).event
             P == TransitionEffects(c, m, actor)
             o2 == IF k + 1 = Len(P) THEN {} ELSE {m}
  <2>1. /\ Moving(todo'[w], cases', c, m, actor, k + 1)
        /\ k = 0 => /\ c \in cases /\ cases' = (cases \ {c}) \cup {m} /\ trail' = trail
        /\ k # 0 => /\ cases' = cases /\ m \in cases
                    /\ trail' = IF k + 1 = Len(P) THEN Append(trail, e) ELSE trail
    BY <1>4, <1>6, MovingGoesOn
  <2>2. /\ c \in Case /\ m \in Case /\ actor \in Actors /\ OneMoveOn(c, m, actor)
        /\ Left(todo[w], P, k) /\ m.case_id = c.case_id
    BY <1>6 DEF Moving, OneMoveOn
  <2>3. P \in Seq(Effect)
    BY <2>2, PlansTyped
  <2>4. k \in Nat /\ k + 1 \in 1..Len(P)
    BY <1>2, <1>3, <2>2, <2>3, LeftStep DEF Left
  <2>5. Len(P) > 2 /\ Len(P) \in Nat
    BY <2>2, <2>3, <2>4, MoveKinds
  <2>6. Left(todo'[w], P, k + 1) /\ todo'[w] \in Seq(Effect)
    BY <1>2, <1>3, <2>1 DEF Moving
  <2>7. todo'[w] = << >> <=> k + 1 = Len(P)
    BY <2>3, <2>6, NothingLeft
  <2>8. Owing(todo'[w], cases', o2)
    <3>1. o2 = IF k + 1 = 0 \/ todo'[w] = << >> THEN {} ELSE {m}
      <4> HIDE DEF P
      <4> QED
        BY <2>4, <2>7
    <3> HIDE DEF o2
    <3> QED
      BY <2>1, <3>1 DEF Owing
  <2>9. Replayed(cases', trail', o2, failures)
    <3>1. CASE k = 0
      <4>1. o = {} /\ o2 = {m}
        <5>1. o = {}
          BY <1>6, <3>1
        <5>2. k + 1 # Len(P)
          <6> HIDE DEF P, o2
          <6>1. \A n \in Nat : n > 2 => n # 1
            OBVIOUS
          <6>2. k + 1 = 1
            BY <3>1
          <6> QED
            BY <2>5, <6>1, <6>2, Zenon
        <5> QED
          BY <5>1, <5>2
      <4>2. \A d \in cases : d.case_id = m.case_id => d = c
        BY <1>4, <2>1, <2>2, <3>1
      <4>3. Replayed((cases \ {c}) \cup {m}, trail, {m}, failures)
        BY <1>1, <1>2, <2>1, <2>2, <3>1, <4>1, <4>2, ReplayedPut
      <4> QED
        BY <2>1, <3>1, <4>1, <4>3
    <3>2. CASE k # 0
      <4>1. o = {m} /\ cases' = cases /\ m \in cases
        BY <1>3, <1>6, <2>1, <3>2
      <4>2. CASE k + 1 # Len(P)
        <5> HIDE DEF P
        <5> QED
          BY <1>1, <2>1, <3>2, <4>1, <4>2
      <4>3. CASE k + 1 = Len(P)
        <5>1. trail' = Append(trail, e) /\ o2 = {}
          <6> HIDE DEF P, e
          <6> QED
            BY <2>1, <3>2, <4>3
        <5>2. Grows(trail, e, trail')
          <6> HIDE DEF e
          <6> QED
            BY <1>2, <5>1, AppendGrows
        <5>3. \A d \in cases : d.case_id = m.case_id => d = m
          BY <1>4, <4>1
        <5>4. Replayed(cases, trail', {}, failures)
          BY <1>1, <1>2, <2>2, <4>1, <5>2, <5>3, ReplayedRecord
        <5> QED
          BY <4>1, <5>1, <5>4
      <4> QED
        BY <4>2, <4>3
    <3> QED
      BY <3>1, <3>2
  <2> QED
    BY <1>3, <2>8, <2>9 DEF Accounted
<1>7. ASSUME NEW c, NEW actor, NEW findings, NEW k,
             Evaluating(todo[w], cases, c, actor, findings, k), o = {}
      PROVE  Accounted(todo'[w], cases', trail', failures')
  <2>1. /\ Evaluating(todo'[w], cases', c, actor, findings, k + 1)
        /\ cases' = cases
        /\ \/ trail' = trail
           \/ \E e : trail' = Append(trail, e) /\ e.case_id = c.case_id /\ e.action = "evaluate"
    BY <1>4, <1>7, EvaluatingGoesOn
  <2>2. Replayed(cases, trail', {}, failures)
    <3>1. ASSUME NEW e, trail' = Append(trail, e), e.action = "evaluate"
          PROVE  Replayed(cases, trail', {}, failures)
      <4>1. Grows(trail, e, trail')
        BY <1>2, <3>1, AppendGrows
      <4>2. \A id : ~IsMove(e, id)
        BY <3>1 DEF IsMove
      <4> QED
        BY <1>1, <1>2, <1>7, <4>1, <4>2, ReplayedOther
    <3> QED
      BY <1>1, <1>7, <2>1, <3>1
  <2>3. Owing(todo'[w], cases', {})
    BY <2>1 DEF Owing
  <2> QED
    BY <1>3, <2>1, <2>2, <2>3 DEF Accounted
<1>8. ASSUME NEW c, NEW actor, NEW to, Refusing(todo[w], cases, c, actor, to), o = {}
      PROVE  Accounted(todo'[w], cases', trail', failures')
  <2> DEFINE e == Audit(c, "transition", actor, c.state, to, "rejected", {}).event
  <2>1. /\ todo'[w] = << >> /\ cases' = cases /\ trail' = Append(trail, e)
    BY <1>4, <1>8, RefusingEnds
  <2>2. \A id : ~IsMove(e, id)
    BY DEF Audit, IsMove
  <2> HIDE DEF e
  <2>3. Grows(trail, e, trail')
    BY <1>2, <2>1, AppendGrows
  <2>4. Replayed(cases, trail', {}, failures)
    BY <1>1, <1>2, <1>8, <2>2, <2>3, ReplayedOther
  <2>5. Owing(todo'[w], cases', {})
    BY <2>1 DEF Owing
  <2> QED
    BY <1>3, <2>1, <2>4, <2>5 DEF Accounted
<1> QED
  BY <1>1, <1>3, <1>5, <1>6, <1>7, <1>8 DEF Owing

LEMMA ReplayInductive == ASSUME Serial, RInv, [Next]_vars PROVE RInv'
<1>1. PICK w : w \in Workers /\ Workers = {w}
  BY DEF Serial
<1>2. ASSUME SInv', Accounted(todo'[w], cases', trail', failures') PROVE RInv'
  BY <1>1, <1>2 DEF RInv
<1>3. SInv /\ Accounted(todo[w], cases, trail, failures)
  BY <1>1 DEF RInv
<1>4. /\ trail \in Seq(CaseAuditEvent) /\ failures \in Nat /\ cases \in SUBSET Case
  BY DEF RInv, SInv, TypeOK
<1>5. CASE Perform(w)
  BY <1>1, <1>2, <1>3, <1>5, ReplayPerform, SerialPerform
<1>6. CASE CaseNotFound(w) \/ TransitionCase(w) \/ RefuseTransition(w) \/ EvaluateCase(w)
  <2>1. /\ SInv' /\ UNCHANGED <<ports, failures>> /\ todo[w] = << >>
        /\ \/ todo'[w] = << >>
           \/ \E c, m, actor : Moving(todo'[w], cases', c, m, actor, 0)
           \/ \E c, actor, to : Refusing(todo'[w], cases', c, actor, to)
           \/ \E c, actor, findings : Evaluating(todo'[w], cases', c, actor, findings, 0)
    BY <1>1, <1>3, <1>6, SerialServe
  <2>2. Owing(todo'[w], cases', {})
    BY <2>1 DEF Owing
  <2>3. Replayed(cases, trail, {}, failures)
    <3>1. PICK o : Owing(todo[w], cases, o) /\ Replayed(cases, trail, o, failures)
      BY <1>3 DEF Accounted
    <3>2. o = {}
      BY <2>1, <3>1 DEF Owing
    <3> QED
      BY <3>1, <3>2
  <2>4. cases' = cases /\ trail' = trail /\ failures' = failures
    BY <2>1 DEF ports
  <2> QED
    BY <1>2, <2>1, <2>2, <2>3, <2>4 DEF Accounted
<1>7. CASE OpenCase(w)
  <2>1. /\ SInv' /\ UNCHANGED <<ports, failures>> /\ todo[w] = << >>
        /\ \E c, actor : Opening(todo'[w], cases', c, actor, 0)
    BY <1>1, <1>3, <1>7, SerialOpen
  <2>2. Owing(todo'[w], cases', {})
    BY <2>1 DEF Owing
  <2>3. Replayed(cases, trail, {}, failures)
    <3>1. PICK o : Owing(todo[w], cases, o) /\ Replayed(cases, trail, o, failures)
      BY <1>3 DEF Accounted
    <3>2. o = {}
      BY <2>1, <3>1 DEF Owing
    <3> QED
      BY <3>1, <3>2
  <2>4. cases' = cases /\ trail' = trail /\ failures' = failures
    BY <2>1 DEF ports
  <2> QED
    BY <1>2, <2>1, <2>2, <2>3, <2>4 DEF Accounted
<1>8. CASE Tick \/ Ask(w) \/ TimerFires(w) \/ UNCHANGED vars
  <2>1. SInv' /\ UNCHANGED <<cases, trail, reviews, todo, failures>>
    BY <1>1, <1>3, <1>8, SerialOthers
  <2> QED
    BY <1>2, <1>3, <2>1
<1>9. CASE Fail(w)
  <2>1. SInv' /\ UNCHANGED ports /\ todo'[w] = << >> /\ failures' = failures + 1
    BY <1>1, <1>3, <1>9, SerialFail
  <2>2. PICK o : Replayed(cases, trail, o, failures)
    BY <1>3 DEF Accounted
  <2>3. Replayed(cases, trail, {}, failures + 1)
    BY <1>4, <2>2, ReplayedFail
  <2>4. Owing(todo'[w], cases', {})
    BY <2>1 DEF Owing
  <2>5. cases' = cases /\ trail' = trail
    BY <2>1 DEF ports
  <2> QED
    BY <1>2, <2>1, <2>3, <2>4, <2>5 DEF Accounted
<1> QED
  BY <1>1, <1>5, <1>6, <1>7, <1>8, <1>9 DEF Next, Serve

LEMMA ReplayedAtRest == ASSUME Serial, RInv PROVE TrailReplaysHistory
<1>1. PICK w : w \in Workers /\ Workers = {w}
  BY DEF Serial
<1>2. SUFFICES ASSUME Quiescent, NEW c \in cases
      PROVE  LET lost == Len(c.history) - Cardinality(MovesAt(c.case_id))
             IN  /\ lost \in 0..failures
                 /\ lost = 0 => \A i \in MovesAt(c.case_id) :
                                  Tells(trail[i], c.history[Nth(i, c.case_id)])
  BY DEF TrailReplaysHistory
<1>3. todo[w] = << >>
  BY <1>1, <1>2 DEF Quiescent, IsIdle
<1>4. PICK o : Owing(todo[w], cases, o) /\ Replayed(cases, trail, o, failures)
  BY <1>1 DEF RInv, Accounted
<1>5. o = {}
  BY <1>3, <1>4 DEF Owing
<1>6. Replays(c, trail, 0, failures)
  BY <1>2, <1>4, <1>5 DEF Replayed, Owed
<1>7. MovesAt(c.case_id) = MovesIn(trail, c.case_id)
  BY DEF MovesAt, MovesIn, IsMove
<1>8. \A i : Nth(i, c.case_id) = NthIn(trail, i, c.case_id)
  BY <1>7 DEF Nth, NthIn
<1>9. Cardinality(MovesIn(trail, c.case_id)) \in Nat /\ Len(c.history) \in Nat
  BY <1>2, MovesCounted DEF RInv, SInv, TypeOK, Case
<1>10. Lost(c, trail, 0) = Len(c.history) - Cardinality(MovesAt(c.case_id))
  BY <1>7, <1>9 DEF Lost
<1> QED
  BY <1>6, <1>7, <1>8, <1>10 DEF Replays

LEMMA ReplayInvariance == ASSUME Serial PROVE Spec => []RInv
<1>1. Init => RInv
  <2>1. Init => SInv
    BY SerialInit
  <2> SUFFICES ASSUME Init PROVE RInv
    OBVIOUS
  <2>2. Accounted(<< >>, {}, << >>, 0)
    <3>1. Owing(<< >>, {}, {})
      BY DEF Owing
    <3>2. Replayed({}, << >>, {}, 0)
      BY DEF Replayed
    <3> QED
      BY <3>1, <3>2 DEF Accounted
  <2> QED
    BY <2>1, <2>2 DEF RInv, Init
<1>2. RInv /\ [Next]_vars => RInv'
  BY ReplayInductive
<1> QED
  BY <1>1, <1>2, PTL DEF Spec

(* With one handler at a time, once it is done, the trail tells the moves  *)
(* of every stored case in their order, who made them and between which    *)
(* states, but for one move for each handler that died.                    *)
THEOREM HistoriesAreReplayed == ASSUME Serial PROVE Spec => []TrailReplaysHistory
<1>1. RInv => TrailReplaysHistory
  BY ReplayedAtRest
<1> QED
  BY <1>1, ReplayInvariance, PTL


-----------------------------------------------------------------------------
(* A clock that has started keeps its instants. *)

LEMMA EntryStays ==
    ASSUME NEW c \in Case, NEW m \in Case, NEW actor, OneMoveOn(c, m, actor),
           NEW state, FirstEntered(c, state) # NotStarted
    PROVE  FirstEntered(m, state) = FirstEntered(c, state)
<1> DEFINE I == EntriesTo(c, state)
           J == EntriesTo(m, state)
<1>1. /\ m.opened_at = c.opened_at /\ Definition(m) = Definition(c)
      /\ Len(m.history) = Len(c.history) + 1
      /\ \A i \in 1..Len(c.history) : m.history[i] = c.history[i]
  BY DEF OneMoveOn, Definition
<1>2. Len(c.history) \in Nat
  BY DEF Case
<1>3. CASE state = Definition(c).initial
  BY <1>1, <1>3, FirstEnteredIs
<1>4. CASE state # Definition(c).initial
  <2>1. I \subseteq Nat /\ J \subseteq Nat /\ I # {}
    BY <1>4, FirstEnteredIs
  <2>2. I \subseteq J /\ I \subseteq 1..Len(c.history)
    BY <1>1, <1>2 DEF EntriesTo
  <2>3. \A j \in J : j <= Len(c.history) => j \in I
    BY <1>1, <1>2 DEF EntriesTo
  <2> HIDE DEF I, J
  <2>4. Min(I) \in I /\ \A y \in I : Min(I) <= y
    BY <2>1, MinIsLeast
  <2>5. Min(J) \in J /\ \A y \in J : Min(J) <= y
    BY <2>1, <2>2, MinIsLeast
  <2>6. Min(J) <= Min(I) /\ Min(I) \in 1..Len(c.history)
    BY <2>2, <2>4, <2>5
  <2>0. Min(I) \in Nat /\ Min(J) \in Nat
    BY <2>1, <2>4, <2>5
  <2>7. Min(J) \in I
    <3>1. Min(J) <= Len(c.history)
      BY <1>2, <2>6, <2>0
    <3> QED
      BY <2>3, <2>5, <3>1
  <2>8. Min(I) = Min(J)
    <3>1. Min(I) <= Min(J)
      BY <2>4, <2>7
    <3> QED
      BY <2>6, <2>0, <3>1
  <2>9. J # {}
    BY <2>1, <2>2
  <2>10. m.history[Min(J)] = c.history[Min(I)]
    BY <1>1, <2>6, <2>8
  <2>11. FirstEntered(c, state) = c.history[Min(I)].at
    BY <1>4, <2>1, FirstEnteredIs DEF I
  <2>12. FirstEntered(m, state) = m.history[Min(J)].at
    BY <1>1, <1>4, <2>9, FirstEnteredIs DEF J
  <2> QED
    BY <2>10, <2>11, <2>12
<1> QED
  BY <1>3, <1>4

LEMMA ClockInDefinition ==
    ASSUME NEW c \in Case, NEW spec \in ToSet(Definition(c).clocks)
    PROVE  IsClock(spec) /\ spec.name \in ClockNames
BY ClocksOfDefinition DEF ToSet

LEMMA MovedStaysBreached ==
    ASSUME NEW c \in Case, NEW m \in Case, NEW actor, OneMoveOn(c, m, actor), NEW at
    PROVE  BreachedClocks(c, at) \subseteq BreachedClocks(m, at)
<1> SUFFICES ASSUME NEW spec \in BreachedClocks(c, at) PROVE spec \in BreachedClocks(m, at)
  OBVIOUS
<1>1. spec \in ToSet(Definition(c).clocks) /\ Deadline(c, spec, at).breached
  BY DEF BreachedClocks
<1>2. spec \in ToSet(Definition(m).clocks)
  BY <1>1 DEF OneMoveOn, Definition
<1> DEFINE a == FirstEntered(c, spec.start_state)
<1>3. a # NotStarted
  BY <1>1, DeadlineOf
<1>4. FirstEntered(m, spec.start_state) = a
  BY <1>3, EntryStays
<1>5. Deadline(m, spec, at).breached
  BY <1>1, <1>3, <1>4, DeadlineOf
<1> QED
  BY <1>2, <1>5 DEF BreachedClocks

LEMMA LaterStaysBreached ==
    ASSUME NEW c \in Case, NEW at \in Nat, NEW later \in Nat, at <= later
    PROVE  BreachedClocks(c, at) \subseteq BreachedClocks(c, later)
<1> SUFFICES ASSUME NEW spec \in BreachedClocks(c, at) PROVE spec \in BreachedClocks(c, later)
  OBVIOUS
<1>1. spec \in ToSet(Definition(c).clocks) /\ Deadline(c, spec, at).breached
  BY DEF BreachedClocks
<1> DEFINE a   == FirstEntered(c, spec.start_state)
           due == DueAt(spec, a, Holidays)
<1>2. a # NotStarted /\ at > due
  BY <1>1, DeadlineOf
<1>3. IsClock(spec)
  BY <1>1, ClockInDefinition
<1>4. due \in Nat
  <2>1. a \in Nat
    BY <1>2, FirstEnteredType
  <2>2. IsFiniteSet(Holidays)
    BY EngineAssumption
  <2> HIDE DEF a
  <2> QED
    BY <1>3, <2>1, <2>2, DueInstant
<1>5. later > due
  <2> HIDE DEF due
  <2> QED
    BY <1>2, <1>4
<1>6. Deadline(c, spec, later).breached
  BY <1>2, <1>5, DeadlineOf
<1> QED
  BY <1>1, <1>6 DEF BreachedClocks

(* What a step makes of a row: the row, or the row with a move more. *)
LEMMA RowsGoOn ==
    ASSUME Serial, SInv, [Next]_vars, NEW c \in cases
    PROVE  c \in cases' \/ \E m \in cases' : \E actor : OneMoveOn(c, m, actor)
<1>1. PICK w : w \in Workers /\ Workers = {w}
  BY DEF Serial
<1>2. CASE Perform(w)
  <2>1. CASE cases' = cases
    BY <2>1
  <2>2. ASSUME NEW d, NEW actor, NEW k, Opening(todo[w], cases, d, actor, k)
        PROVE  c \in cases'
    BY <1>1, <1>2, <2>2, OpeningGoesOn
  <2>3. ASSUME NEW d, NEW m, NEW actor, NEW k, Moving(todo[w], cases, d, m, actor, k)
        PROVE  c \in cases' \/ \E x \in cases' : \E y : OneMoveOn(c, x, y)
    <3>1. /\ k = 0 => d \in cases /\ cases' = (cases \ {d}) \cup {m}
          /\ k # 0 => cases' = cases
      BY <1>1, <1>2, <2>3, MovingGoesOn
    <3>2. OneMoveOn(d, m, actor)
      BY <2>3 DEF Moving
    <3> QED
      BY <3>1, <3>2
  <2>4. ASSUME NEW d, NEW actor, NEW findings, NEW k,
               Evaluating(todo[w], cases, d, actor, findings, k)
        PROVE  c \in cases'
    BY <1>1, <1>2, <2>4, EvaluatingGoesOn
  <2>5. ASSUME NEW d, NEW actor, NEW to, Refusing(todo[w], cases, d, actor, to)
        PROVE  c \in cases'
    BY <1>1, <1>2, <2>5, RefusingEnds
  <2>6. todo[w] # << >>
    BY <1>1, <1>2, EffectOf DEF Doing
  <2>7. Progress(todo[w], cases)
    BY <1>1 DEF SInv
  <2> QED
    BY <2>2, <2>3, <2>4, <2>5, <2>6, <2>7 DEF Progress
<1>3. CASE ~Perform(w)
  <2>1. UNCHANGED cases
    BY <1>1, <1>3 DEF Next, vars, Tick, ports, OpenCase, Ask, Serve, Fail, TimerFires,
      CaseNotFound, TransitionCase, RefuseTransition, EvaluateCase, Decide
  <2> QED
    BY <2>1
<1> QED
  BY <1>2, <1>3

LEMMA TimeGoesOn ==
    ASSUME TypeOK, [Next]_vars
    PROVE  now \in Nat /\ now' \in Nat /\ now <= now'
<1>1. now \in Nat
  BY DEF TypeOK
<1>2. now' = now \/ now' = now + 1
  BY DEF Next, vars, Tick, ports, OpenCase, Ask, Serve, Fail, TimerFires, CaseNotFound,
    TransitionCase, RefuseTransition, EvaluateCase, Decide, Perform, PutCase, ScheduleTimer,
    CancelTimer, Publish, Record, RouteToReview, Doing
<1> QED
  BY <1>1, <1>2

(* With one handler at a time a clock once breached stays breached: a case *)
(* may move on, and into a clock's start state again, without its deadline *)
(* being put off, because the first entry counts.                          *)
THEOREM BreachesLast == ASSUME Serial PROVE Spec => BreachesStay
<1>1. ASSUME SInv, TypeOK', [Next]_vars
      PROVE  \A c \in cases : \E d \in cases' :
               SameCase(c, d) /\ BreachedClocks(c, now) \subseteq BreachedClocks(d, now')
  <2> SUFFICES ASSUME NEW c \in cases
               PROVE  \E d \in cases' :
                        SameCase(c, d) /\ BreachedClocks(c, now) \subseteq BreachedClocks(d, now')
    OBVIOUS
  <2>1. now \in Nat /\ now' \in Nat /\ now <= now'
    BY <1>1, TimeGoesOn DEF SInv
  <2>2. c \in Case /\ \A d \in cases' : d \in Case
    BY <1>1 DEF SInv, TypeOK
  <2>3. BreachedClocks(c, now) \subseteq BreachedClocks(c, now')
    BY <2>1, <2>2, LaterStaysBreached
  <2>4. CASE c \in cases'
    BY <2>3, <2>4 DEF SameCase
  <2>5. ASSUME NEW m \in cases', NEW actor, OneMoveOn(c, m, actor)
        PROVE  SameCase(c, m) /\ BreachedClocks(c, now) \subseteq BreachedClocks(m, now')
    <3>1. BreachedClocks(c, now') \subseteq BreachedClocks(m, now')
      BY <2>2, <2>5, MovedStaysBreached
    <3>2. SameCase(c, m)
      BY <2>5 DEF OneMoveOn, SameCase
    <3> QED
      BY <2>3, <3>1, <3>2
  <2> QED
    BY <1>1, <2>4, <2>5, RowsGoOn
<1>2. Spec => []SInv
  BY SerialInvariance
<1>3. SInv => TypeOK
  BY DEF SInv
<1>4. SInv /\ TypeOK' /\ [Next]_vars =>
        [\A c \in cases : \E d \in cases' :
           SameCase(c, d) /\ BreachedClocks(c, now) \subseteq BreachedClocks(d, now')]_vars
  BY <1>1
<1> QED
  BY <1>2, <1>3, <1>4, PTL DEF Spec, BreachesStay


-----------------------------------------------------------------------------
(* The timers follow the cases: an account of each row's timers. *)

Clocks(c) == Definition(c).clocks
Due(c, i) == Deadline(c, Clocks(c)[i], c.opened_at).due_at
TimerOf(c, i) ==
    [tenant |-> c.tenant, case_id |-> c.case_id, clock |-> Clocks(c)[i].name, fire_at |-> Due(c, i)]

(* Among the timers ts, at an instant: clock i of case c is provided for.  *)
TimedClock(c, i, ts, at) ==
    Clocks(c)[i].start_state = Definition(c).initial =>
      Due(c, i) = NotStarted \/ at > Due(c, i) \/ TimerOf(c, i) \in ts

OfCase(t, c)  == t.tenant = c.tenant /\ t.case_id = c.case_id
OfClock(t, c, i) == OfCase(t, c) /\ TaskName[t.clock] = TaskName[Clocks(c)[i].name]

Settled(c, ts, at) ==
    IF IsTerminal(c) THEN \A t \in ts : ~OfCase(t, c)
    ELSE \A i \in DOMAIN Clocks(c) : TimedClock(c, i, ts, at)

SettledBut(rows, ts, at, X) == \A d \in rows : d.case_id \in X \/ Settled(d, ts, at)

Named(rows, ts) ==
    \A t \in ts : \E d \in rows : \E i \in DOMAIN Clocks(d) : OfClock(t, d, i)

(* The due instant is the same whenever it is asked for. *)
LEMMA DueIsSteady ==
    ASSUME NEW c \in Case, NEW i \in DOMAIN Clocks(c), NEW as_of
    PROVE  /\ Deadline(c, Clocks(c)[i], as_of).due_at = Due(c, i)
           /\ Due(c, i) \in Nat \cup {NotStarted}
<1>1. IsClock(Clocks(c)[i])
  BY ClocksOfDefinition DEF Clocks
<1>2. Due(c, i) \in Nat \cup {NotStarted}
  BY <1>1, DueInstantType DEF Due
<1>3. Deadline(c, Clocks(c)[i], as_of).due_at = Due(c, i)
  BY DEF Due, Deadline, DeadlineFor
<1> QED
  BY <1>2, <1>3

LEMMA DueOfMoved ==
    ASSUME NEW c \in Case, NEW m \in Case, NEW actor, OneMoveOn(c, m, actor),
           NEW i \in DOMAIN Clocks(c), Clocks(c)[i].start_state = Definition(c).initial
    PROVE  Due(m, i) = Due(c, i)
<1> DEFINE spec == Clocks(c)[i]
<1>1. Clocks(m) = Clocks(c) /\ Definition(m) = Definition(c) /\ m.opened_at = c.opened_at
  BY DEF OneMoveOn, Clocks, Definition
<1>2. /\ FirstEntered(c, spec.start_state) = c.opened_at
      /\ FirstEntered(m, spec.start_state) = c.opened_at
  BY <1>1, FirstEnteredIs
<1>3. Deadline(m, spec, c.opened_at).due_at = Deadline(c, spec, c.opened_at).due_at
  BY <1>2 DEF Deadline, DeadlineFor
<1> QED
  BY <1>1, <1>3 DEF Due

LEMMA SettledMove ==
    ASSUME NEW c \in Case, NEW m \in Case, NEW actor, OneMoveOn(c, m, actor),
           ~IsTerminal(c), ~IsTerminal(m), NEW ts, NEW at, Settled(c, ts, at)
    PROVE  Settled(m, ts, at)
<1>1. Clocks(m) = Clocks(c) /\ Definition(m) = Definition(c)
      /\ m.case_id = c.case_id /\ m.tenant = c.tenant
  BY DEF OneMoveOn, Clocks, Definition
<1>2. ASSUME NEW i \in DOMAIN Clocks(m) PROVE TimedClock(m, i, ts, at)
  <2>1. TimedClock(c, i, ts, at)
    BY <1>1 DEF Settled
  <2> SUFFICES ASSUME Clocks(c)[i].start_state = Definition(c).initial
               PROVE  TimedClock(m, i, ts, at)
    BY <1>1 DEF TimedClock
  <2>2. Due(m, i) = Due(c, i)
    BY <1>1, DueOfMoved
  <2>3. TimerOf(m, i) = TimerOf(c, i)
    BY <1>1, <2>2 DEF TimerOf
  <2> QED
    BY <2>1, <2>2, <2>3 DEF TimedClock
<1> QED
  BY <1>2 DEF Settled

(* Timers of other cases do not matter. *)
LEMMA SettledApart ==
    ASSUME NEW c, NEW ts, NEW ts2, NEW at,
           \A t : t.case_id = c.case_id => (t \in ts <=> t \in ts2),
           Settled(c, ts, at)
    PROVE  Settled(c, ts2, at)
<1>1. \A t \in ts2 : OfCase(t, c) => t \in ts
  BY DEF OfCase
<1>2. \A i : TimerOf(c, i) \in ts => TimerOf(c, i) \in ts2
  BY DEF TimerOf
<1> QED
  BY <1>1, <1>2 DEF Settled, TimedClock

(* Time passes, and timers fire. *)
Fired(ts, ts2, at, at2) ==
    /\ at \in Nat /\ at2 \in Nat /\ at <= at2
    /\ ts2 \subseteq ts
    /\ \A t \in ts \ ts2 : at2 > t.fire_at

LEMMA TimedLater ==
    ASSUME NEW c \in Case, NEW i \in DOMAIN Clocks(c), NEW ts, NEW ts2, NEW at, NEW at2,
           Fired(ts, ts2, at, at2), TimedClock(c, i, ts, at)
    PROVE  TimedClock(c, i, ts2, at2)
<1>1. Due(c, i) \in Nat \cup {NotStarted}
  BY DueIsSteady
<1>2. TimerOf(c, i).fire_at = Due(c, i)
  BY DEF TimerOf
<1>3. Due(c, i) # NotStarted /\ at > Due(c, i) => at2 > Due(c, i)
  BY <1>1 DEF Fired
<1> QED
  BY <1>2, <1>3 DEF TimedClock, Fired

LEMMA SettledLater ==
    ASSUME NEW c \in Case, NEW ts, NEW ts2, NEW at, NEW at2,
           Fired(ts, ts2, at, at2), Settled(c, ts, at)
    PROVE  Settled(c, ts2, at2)
<1>1. ts2 \subseteq ts
  BY DEF Fired
<1> QED
  BY <1>1, TimedLater DEF Settled

-----------------------------------------------------------------------------
(* The rows that the handler under way has not provided for yet. *)
Excused(s, rows, ts, at, x) ==
    \/ s = << >> /\ x = {}
    \/ \E c, actor, k :
         /\ Opening(s, rows, c, actor, k)
         /\ x = IF k = 0 THEN {} ELSE {c.case_id}
         /\ \A i \in DOMAIN Clocks(c) : i < k => TimedClock(c, i, ts, at)
    \/ \E c, m, actor, k :
         /\ Moving(s, rows, c, m, actor, k)
         /\ IsTerminal(c) => IsTerminal(m)
         /\ x = IF k = 0 \/ ~IsTerminal(m) THEN {} ELSE {m.case_id}
         /\ k # 0 /\ IsTerminal(m) =>
              \A i \in DOMAIN Clocks(m) : i < k => \A t \in ts : ~OfClock(t, m, i)
    \/ \E c, actor, findings, k : Evaluating(s, rows, c, actor, findings, k) /\ x = {}
    \/ \E c, actor, to : Refusing(s, rows, c, actor, to) /\ x = {}

(* F are the cases whose handler died, of which n is a bound. *)
Provided(s, rows, ts, at, n) ==
    /\ Named(rows, ts)
    /\ \E F, x : /\ IsFiniteSet(F) /\ Cardinality(F) <= n
                 /\ Excused(s, rows, ts, at, x)
                 /\ SettledBut(rows, ts, at, F \cup x)

TInv == SInv /\ \A w \in Workers : Provided(todo[w], cases, timers, now, failures)

LEMMA ExcusedLater ==
    ASSUME NEW s, NEW rows \in SUBSET Case, NEW ts, NEW ts2, NEW at, NEW at2,
           Fired(ts, ts2, at, at2), NEW x, Excused(s, rows, ts, at, x)
    PROVE  Excused(s, rows, ts2, at2, x)
<1>1. ts2 \subseteq ts
  BY DEF Fired
<1>2. CASE s = << >> /\ x = {}
  BY <1>2 DEF Excused
<1>3. ASSUME NEW c, NEW actor, NEW k, Opening(s, rows, c, actor, k),
             x = IF k = 0 THEN {} ELSE {c.case_id},
             \A i \in DOMAIN Clocks(c) : i < k => TimedClock(c, i, ts, at)
      PROVE  Excused(s, rows, ts2, at2, x)
  <2>1. c \in Case
    BY <1>3 DEF Opening
  <2>2. \A i \in DOMAIN Clocks(c) : i < k => TimedClock(c, i, ts2, at2)
    BY <1>3, <2>1, TimedLater
  <2> QED
    BY <1>3, <2>2 DEF Excused
<1>4. ASSUME NEW c, NEW m, NEW actor, NEW k, Moving(s, rows, c, m, actor, k),
             IsTerminal(c) => IsTerminal(m),
             x = IF k = 0 \/ ~IsTerminal(m) THEN {} ELSE {m.case_id},
             k # 0 /\ IsTerminal(m) =>
               \A i \in DOMAIN Clocks(m) : i < k => \A t \in ts : ~OfClock(t, m, i)
      PROVE  Excused(s, rows, ts2, at2, x)
  <2>1. k # 0 /\ IsTerminal(m) =>
          \A i \in DOMAIN Clocks(m) : i < k => \A t \in ts2 : ~OfClock(t, m, i)
    BY <1>1, <1>4
  <2> QED
    BY <1>4, <2>1 DEF Excused
<1>5. ASSUME NEW c, NEW actor, NEW findings, NEW k,
             Evaluating(s, rows, c, actor, findings, k), x = {}
      PROVE  Excused(s, rows, ts2, at2, x)
  BY <1>5 DEF Excused
<1>6. ASSUME NEW c, NEW actor, NEW to, Refusing(s, rows, c, actor, to), x = {}
      PROVE  Excused(s, rows, ts2, at2, x)
  BY <1>6 DEF Excused
<1> QED
  BY <1>2, <1>3, <1>4, <1>5, <1>6 DEF Excused

LEMMA ProvidedLater ==
    ASSUME NEW s, NEW rows \in SUBSET Case, NEW ts, NEW ts2, NEW at, NEW at2,
           Fired(ts, ts2, at, at2), NEW n, Provided(s, rows, ts, at, n)
    PROVE  Provided(s, rows, ts2, at2, n)
<1>1. ts2 \subseteq ts
  BY DEF Fired
<1>2. Named(rows, ts2)
  BY <1>1 DEF Provided, Named
<1>3. PICK F, x : /\ IsFiniteSet(F) /\ Cardinality(F) <= n
                  /\ Excused(s, rows, ts, at, x)
                  /\ SettledBut(rows, ts, at, F \cup x)
  BY DEF Provided
<1>4. Excused(s, rows, ts2, at2, x)
  BY <1>3, ExcusedLater
<1>5. SettledBut(rows, ts2, at2, F \cup x)
  BY <1>3, SettledLater DEF SettledBut
<1> QED
  BY <1>2, <1>3, <1>4, <1>5 DEF Provided

(* A handler that is done has provided for its case. *)
LEMMA DoneIsSettled ==
    ASSUME OrderlyWorkflows, SInv, NEW w \in Workers, todo[w] = << >>,
           Provided(todo[w], cases, timers, now, failures)
    PROVE  \E F : /\ IsFiniteSet(F) /\ Cardinality(F) <= failures
                  /\ SettledBut(cases, timers, now, F)
<1>1. /\ Named(cases, timers) /\ todo[w] \in Seq(Effect)
      /\ \A c \in cases : c \in Case
      /\ \A c, d \in cases : c.case_id = d.case_id => c = d
  BY DEF Provided, SInv, TypeOK
<1>2. PICK F, x : /\ IsFiniteSet(F) /\ Cardinality(F) <= failures
                  /\ Excused(todo[w], cases, timers, now, x)
                  /\ SettledBut(cases, timers, now, F \cup x)
  BY DEF Provided
<1>3. \A d \in cases : d.case_id \in x => Settled(d, timers, now)
  <2>1. CASE x = {}
    BY <2>1
  <2>2. ASSUME NEW c, NEW actor, NEW k, Opening(todo[w], cases, c, actor, k),
               x = IF k = 0 THEN {} ELSE {c.case_id},
               \A i \in DOMAIN Clocks(c) : i < k => TimedClock(c, i, timers, now)
        PROVE  \A d \in cases : d.case_id \in x => Settled(d, timers, now)
    <3> DEFINE P == OpenEffects(c, actor)
               n == Len(Clocks(c))
    <3>1. c \in Case /\ actor \in Actors /\ Left(todo[w], P, k)
      BY <2>2 DEF Opening
    <3>2. P \in Seq(Effect)
      BY <3>1, PlansTyped
    <3>3. k = Len(P)
      BY <1>1, <3>1, <3>2, NothingLeft
    <3>4. n \in Nat /\ Len(P) = n + 3
      BY <3>1, OpenPlaces DEF Clocks
    <3>5. DOMAIN Clocks(c) = 1..n
      BY <3>1, ClocksOfDefinition DEF Clocks
    <3>6. \A i \in DOMAIN Clocks(c) : TimedClock(c, i, timers, now)
      <4>1. \A i \in 1..n : i < n + 3
        <5> HIDE DEF n
        <5> QED
          BY <3>4
      <4> QED
        BY <2>2, <3>3, <3>4, <3>5, <4>1
    <3>7. ~IsTerminal(c)
      BY <2>2, <3>1 DEF OrderlyWorkflows, IsTerminal, Opening, Definition, Case
    <3>8. Settled(c, timers, now)
      BY <3>6, <3>7 DEF Settled
    <3>9. k # 0
      <4> HIDE DEF n
      <4> QED
        BY <3>3, <3>4
    <3>10. c \in cases /\ x = {c.case_id}
      <4>1. k > 0
        <5> HIDE DEF n
        <5> QED
          BY <3>3, <3>4
      <4> QED
        BY <2>2, <3>9, <4>1 DEF Opening
    <3> QED
      BY <1>1, <3>8, <3>10
  <2>3. ASSUME NEW c, NEW m, NEW actor, NEW k, Moving(todo[w], cases, c, m, actor, k),
               x = IF k = 0 \/ ~IsTerminal(m) THEN {} ELSE {m.case_id},
               k # 0 /\ IsTerminal(m) =>
                 \A i \in DOMAIN Clocks(m) : i < k => \A t \in timers : ~OfClock(t, m, i),
               x # {}
        PROVE  \A d \in cases : d.case_id \in x => Settled(d, timers, now)
    <3> DEFINE P == TransitionEffects(c, m, actor)
               n == Len(Clocks(m))
    <3>1. /\ c \in Case /\ m \in Case /\ actor \in Actors /\ Left(todo[w], P, k)
          /\ k # 0 /\ IsTerminal(m) /\ x = {m.case_id}
      BY <2>3 DEF Moving
    <3>2. P \in Seq(Effect)
      BY <3>1, PlansTyped
    <3>3. k = Len(P)
      BY <1>1, <3>1, <3>2, NothingLeft
    <3>4. n \in Nat /\ Len(P) = n + 3
      BY <3>1, MovePlaces DEF Clocks
    <3>5. DOMAIN Clocks(m) = 1..n
      BY <3>1, ClocksOfDefinition DEF Clocks
    <3>6. \A i \in DOMAIN Clocks(m) : \A t \in timers : ~OfClock(t, m, i)
      <4>1. \A i \in 1..n : i < n + 3
        <5> HIDE DEF n
        <5> QED
          BY <3>4
      <4> QED
        BY <2>3, <3>1, <3>3, <3>4, <3>5, <4>1
    <3>7. m \in cases
      <4>1. k > 0
        <5> HIDE DEF n
        <5> QED
          BY <3>3, <3>4
      <4> QED
        BY <2>3, <4>1 DEF Moving
    <3>8. \A t \in timers : ~OfCase(t, m)
      <4> SUFFICES ASSUME NEW t \in timers, OfCase(t, m) PROVE FALSE
        OBVIOUS
      <4>1. PICK d \in cases : \E i \in DOMAIN Clocks(d) : OfClock(t, d, i)
        BY <1>1 DEF Named
      <4>2. d.case_id = m.case_id
        BY <4>1 DEF OfCase, OfClock
      <4>3. d = m
        BY <1>1, <3>7, <4>2
      <4> QED
        BY <3>6, <4>1, <4>3
    <3>9. Settled(m, timers, now)
      BY <3>1, <3>8 DEF Settled
    <3> QED
      BY <1>1, <3>1, <3>7, <3>9
  <2> QED
    BY <1>2, <2>1, <2>2, <2>3 DEF Excused
<1>4. SettledBut(cases, timers, now, F)
  BY <1>2, <1>3 DEF SettledBut
<1> QED
  BY <1>2, <1>4


LEMMA OpeningTimers ==
    ASSUME SInv, NEW w \in Workers, Perform(w),
           NEW c, NEW actor, NEW k, Opening(todo[w], cases, c, actor, k), k # 0
    PROVE  /\ k \in Nat /\ c \in Case /\ c \in cases
           /\ k \in DOMAIN Clocks(c) =>
                timers' = IF Due(c, k) = NotStarted THEN timers
                          ELSE Schedule(timers, TimerOf(c, k))
           /\ k \notin DOMAIN Clocks(c) => timers' = timers
<1> DEFINE P == OpenEffects(c, actor)
           n == Len(Clocks(c))
           e == Head(todo[w])
<1>1. c \in Case /\ actor \in Actors /\ Left(todo[w], P, k)
  BY DEF Opening
<1>2. P \in Seq(Effect)
  BY <1>1, PlansTyped
<1>3. Doing(w, e.kind)
  BY EffectOf
<1>4. k \in Nat /\ k + 1 \in 1..Len(P) /\ e = P[k + 1]
  BY <1>1, <1>2, <1>3, HeadIsNext DEF SInv
<1>5. c \in cases
  BY <1>4 DEF Opening
<1>6. /\ n \in Nat /\ Len(P) = n + 3
      /\ \A i \in 1..n : P[i + 1] = Wake("schedule", c, Clocks(c)[i].name, Due(c, i))
      /\ P[n + 2] = Emit("case.opened", c)
      /\ P[n + 3] = Audit(c, "open", actor, NoState, c.state, "allowed", {})
  BY <1>1, OpenPlaces DEF Clocks, Due
<1>7. DOMAIN Clocks(c) = 1..n
  BY <1>1, ClocksOfDefinition DEF Clocks
<1> HIDE DEF P, n, e
<1>8. CASE k \in 1..n
  <2>1. e = Wake("schedule", c, Clocks(c)[k].name, Due(c, k))
    BY <1>4, <1>6, <1>8
  <2>2. e.kind = "schedule" /\ e.timer = TimerOf(c, k)
    BY <2>1 DEF Wake, TimerOf
  <2>3. e.timer.fire_at = Due(c, k)
    BY <2>2 DEF TimerOf
  <2>4. timers' = IF e.timer.fire_at = NotStarted THEN timers ELSE Schedule(timers, e.timer)
    BY <2>2, EffectOf DEF e
  <2>5. timers' = IF Due(c, k) = NotStarted THEN timers ELSE Schedule(timers, TimerOf(c, k))
    BY <2>2, <2>3, <2>4
  <2> QED
    BY <1>1, <1>4, <1>5, <1>7, <1>8, <2>5
<1>9. CASE k \notin 1..n
  <2>1. k + 1 = n + 2 \/ k + 1 = n + 3
    BY <1>4, <1>6, <1>9
  <2>2. e.kind = "publish" \/ e.kind = "record"
    BY <1>4, <1>6, <2>1 DEF Emit, Audit
  <2>3. timers' = timers
    BY <2>2, EffectOf DEF e
  <2> QED
    BY <1>1, <1>4, <1>5, <1>7, <1>9, <2>3
<1> QED
  BY <1>8, <1>9

LEMMA MovingTimers ==
    ASSUME SInv, NEW w \in Workers, Perform(w),
           NEW c, NEW m, NEW actor, NEW k, Moving(todo[w], cases, c, m, actor, k), k # 0
    PROVE  /\ k \in Nat /\ m \in Case /\ m \in cases
           /\ IsTerminal(m) /\ k \in DOMAIN Clocks(m) =>
                \A t : t \in timers' <=> t \in timers /\ ~OfClock(t, m, k)
           /\ ~(IsTerminal(m) /\ k \in DOMAIN Clocks(m)) => timers' = timers
<1> DEFINE P == TransitionEffects(c, m, actor)
           n == IF IsTerminal(m) THEN Len(Clocks(m)) ELSE 0
           e == Head(todo[w])
<1>1. c \in Case /\ m \in Case /\ actor \in Actors /\ Left(todo[w], P, k)
  BY DEF Moving
<1>2. P \in Seq(Effect)
  BY <1>1, PlansTyped
<1>3. Doing(w, e.kind)
  BY EffectOf
<1>4. k \in Nat /\ k + 1 \in 1..Len(P) /\ e = P[k + 1]
  BY <1>1, <1>2, <1>3, HeadIsNext DEF SInv
<1>5. m \in cases
  BY <1>4 DEF Moving
<1>6. /\ n \in Nat /\ Len(P) = n + 3
      /\ \A i \in 1..n : P[i + 1] = Wake("cancel", m, Clocks(m)[i].name, 0)
      /\ P[n + 2] = Emit("case.transitioned", m)
      /\ P[n + 3] = Audit(m, "transition", actor, c.state, m.state, "allowed", {})
  BY <1>1, MovePlaces DEF Clocks
<1>7. DOMAIN Clocks(m) = 1..Len(Clocks(m)) /\ Len(Clocks(m)) \in Nat
  BY <1>1, ClocksOfDefinition DEF Clocks
<1>8. IsTerminal(m) /\ k \in DOMAIN Clocks(m) <=> k \in 1..n
  <2>1. CASE IsTerminal(m)
    BY <1>7, <2>1
  <2>2. CASE ~IsTerminal(m)
    BY <1>4, <2>2
  <2> QED
    BY <2>1, <2>2
<1> HIDE DEF P, n, e
<1>9. CASE k \in 1..n
  <2>1. e = Wake("cancel", m, Clocks(m)[k].name, 0)
    BY <1>4, <1>6, <1>9
  <2>2. /\ e.kind = "cancel" /\ e.timer.tenant = m.tenant /\ e.timer.case_id = m.case_id
        /\ e.timer.clock = Clocks(m)[k].name
    BY <2>1 DEF Wake
  <2>3. timers' = Cancel(timers, e.timer)
    BY <2>2, EffectOf DEF e
  <2>4. \A t : t \in timers' <=> t \in timers /\ ~OfClock(t, m, k)
    BY <2>2, <2>3 DEF Cancel, SameTimer, OfClock, OfCase
  <2> QED
    BY <1>1, <1>4, <1>5, <1>8, <1>9, <2>4
<1>10. CASE k \notin 1..n
  <2>1. k + 1 = n + 2 \/ k + 1 = n + 3
    BY <1>4, <1>6, <1>10
  <2>2. e.kind = "publish" \/ e.kind = "record"
    BY <1>4, <1>6, <2>1 DEF Emit, Audit
  <2>3. timers' = timers
    BY <2>2, EffectOf DEF e
  <2> QED
    BY <1>1, <1>4, <1>5, <1>8, <1>10, <2>3
<1> QED
  BY <1>9, <1>10

(* The loops of a handler, one effect on. *)
LEMMA ScheduledOneMore ==
    ASSUME OrderlyWorkflows, NEW c \in Case, NEW k \in Nat, NEW ts, NEW ts2, NEW at,
           \A i \in DOMAIN Clocks(c) : i < k => TimedClock(c, i, ts, at),
           k \in DOMAIN Clocks(c) =>
             ts2 = IF Due(c, k) = NotStarted THEN ts ELSE Schedule(ts, TimerOf(c, k)),
           k \notin DOMAIN Clocks(c) => ts2 = ts
    PROVE  /\ \A i \in DOMAIN Clocks(c) : i < k + 1 => TimedClock(c, i, ts2, at)
           /\ \A t : t.case_id # c.case_id => (t \in ts <=> t \in ts2)
           /\ \A t \in ts2 : t \in ts \/ (k \in DOMAIN Clocks(c) /\ OfClock(t, c, k))
<1>1. DOMAIN Clocks(c) \subseteq Nat
  BY ClocksOfDefinition DEF Clocks
<1>2. \A i \in DOMAIN Clocks(c) : i < k + 1 => i < k \/ i = k
  BY <1>1
<1>3. CASE k \notin DOMAIN Clocks(c)
  BY <1>2, <1>3
<1>4. CASE k \in DOMAIN Clocks(c) /\ Due(c, k) = NotStarted
  BY <1>2, <1>4 DEF TimedClock
<1>5. CASE k \in DOMAIN Clocks(c) /\ Due(c, k) # NotStarted
  <2> DEFINE t == TimerOf(c, k)
  <2>1. ts2 = {s \in ts : ~SameTimer(s, t)} \cup {t}
    BY <1>5 DEF Schedule
  <2>2. t.tenant = c.tenant /\ t.case_id = c.case_id /\ t.clock = Clocks(c)[k].name
    BY DEF TimerOf
  <2>3. ASSUME NEW i \in DOMAIN Clocks(c), i < k PROVE TimedClock(c, i, ts2, at)
    <3>1. TaskName[Clocks(c)[i].name] # TaskName[Clocks(c)[k].name]
      <4>1. i # k
        BY <1>1, <2>3
      <4> QED
        BY <1>5, <4>1 DEF OrderlyWorkflows, Clocks, Definition, Case
    <3>2. ~SameTimer(TimerOf(c, i), t)
      BY <2>2, <3>1 DEF SameTimer, TimerOf
    <3>3. TimerOf(c, i) \in ts => TimerOf(c, i) \in ts2
      BY <2>1, <3>2
    <3>4. TimedClock(c, i, ts, at)
      BY <2>3
    <3> QED
      BY <3>3, <3>4 DEF TimedClock
  <2>4. TimedClock(c, k, ts2, at)
    BY <2>1 DEF TimedClock
  <2>5. \A i \in DOMAIN Clocks(c) : i < k + 1 => TimedClock(c, i, ts2, at)
    BY <1>2, <2>3, <2>4
  <2>6. \A s : s.case_id # c.case_id => (s \in ts <=> s \in ts2)
    BY <2>1, <2>2 DEF SameTimer
  <2>7. \A s \in ts2 : s \in ts \/ OfClock(s, c, k)
    BY <2>1, <2>2 DEF OfClock, OfCase
  <2> QED
    BY <1>5, <2>5, <2>6, <2>7
<1> QED
  BY <1>3, <1>4, <1>5

LEMMA CancelledOneMore ==
    ASSUME NEW m \in Case, NEW k \in Nat, NEW ts, NEW ts2, IsTerminal(m),
           \A i \in DOMAIN Clocks(m) : i < k => \A t \in ts : ~OfClock(t, m, i),
           k \in DOMAIN Clocks(m) => \A t : t \in ts2 <=> t \in ts /\ ~OfClock(t, m, k),
           k \notin DOMAIN Clocks(m) => ts2 = ts
    PROVE  /\ \A i \in DOMAIN Clocks(m) : i < k + 1 => \A t \in ts2 : ~OfClock(t, m, i)
           /\ \A t : t.case_id # m.case_id => (t \in ts <=> t \in ts2)
           /\ ts2 \subseteq ts
<1>1. DOMAIN Clocks(m) \subseteq Nat
  BY ClocksOfDefinition DEF Clocks
<1>2. \A i \in DOMAIN Clocks(m) : i < k + 1 => i < k \/ i = k
  BY <1>1
<1>3. ts2 \subseteq ts
  OBVIOUS
<1>4. \A i \in DOMAIN Clocks(m) : i < k + 1 => \A t \in ts2 : ~OfClock(t, m, i)
  BY <1>2, <1>3
<1>5. \A t : t.case_id # m.case_id => (t \in ts <=> t \in ts2)
  BY DEF OfClock, OfCase
<1> QED
  BY <1>3, <1>4, <1>5

-----------------------------------------------------------------------------
(* What the steps of a handler do to the account. *)

LEMMA ProvidedPerform ==
    ASSUME OrderlyWorkflows, TInv, NEW w \in Workers, Workers = {w}, Perform(w)
    PROVE  Provided(todo'[w], cases', timers', now', failures')
<1>1. /\ Named(cases, timers)
      /\ \E F, x : /\ IsFiniteSet(F) /\ Cardinality(F) <= failures
                   /\ Excused(todo[w], cases, timers, now, x)
                   /\ SettledBut(cases, timers, now, F \cup x)
  BY DEF TInv, Provided
<1>2. PICK F, x : /\ IsFiniteSet(F) /\ Cardinality(F) <= failures
                  /\ Excused(todo[w], cases, timers, now, x)
                  /\ SettledBut(cases, timers, now, F \cup x)
  BY <1>1
<1>3. todo[w] # << >> /\ failures' = failures /\ now' = now
  BY EffectOf DEF Doing
<1>4. /\ SInv
      /\ \A c, d \in cases : c.case_id = d.case_id => c = d
      /\ \A d \in cases : d \in Case
  BY DEF TInv, SInv, TypeOK
<1>5. ASSUME NEW y, Excused(todo'[w], cases', timers', now, y), Named(cases', timers'),
             SettledBut(cases', timers', now, F \cup y)
      PROVE  Provided(todo'[w], cases', timers', now', failures')
  BY <1>2, <1>3, <1>5 DEF Provided
<1>6. ASSUME NEW c, NEW actor, NEW k, Opening(todo[w], cases, c, actor, k),
             x = IF k = 0 THEN {} ELSE {c.case_id},
             \A i \in DOMAIN Clocks(c) : i < k => TimedClock(c, i, timers, now)
      PROVE  Provided(todo'[w], cases', timers', now', failures')
  <2> DEFINE y == {c.case_id}
  <2>1. /\ Opening(todo'[w], cases', c, actor, k + 1)
        /\ k = 0 => cases' = cases \cup {c} /\ timers' = timers
        /\ k # 0 => cases' = cases
    BY <1>4, <1>6, OpeningGoesOn
  <2>2. c \in Case
    BY <1>6 DEF Opening
  <2>3. k \in Nat
    BY <1>6 DEF Opening, Left
  <2>4. CASE k = 0
    <3>1. \A i \in DOMAIN Clocks(c) : i < k + 1 => TimedClock(c, i, timers', now)
      <4>1. DOMAIN Clocks(c) \subseteq Nat \ {0}
        BY <2>2, ClocksOfDefinition DEF Clocks
      <4> QED
        BY <2>4, <4>1
    <3>2. Excused(todo'[w], cases', timers', now, y)
      <4>1. k + 1 # 0
        BY <2>4
      <4> QED
        BY <2>1, <3>1, <4>1 DEF Excused
    <3>3. Named(cases', timers')
      BY <1>1, <2>1, <2>4 DEF Named
    <3>4. SettledBut(cases', timers', now, F \cup y)
      BY <1>2, <1>6, <2>1, <2>4 DEF SettledBut
    <3> QED
      BY <1>5, <3>2, <3>3, <3>4
  <2>5. CASE k # 0
    <3>1. /\ c \in cases
          /\ k \in DOMAIN Clocks(c) =>
               timers' = IF Due(c, k) = NotStarted THEN timers
                         ELSE Schedule(timers, TimerOf(c, k))
          /\ k \notin DOMAIN Clocks(c) => timers' = timers
      BY <1>4, <1>6, <2>5, OpeningTimers
    <3>2. /\ \A i \in DOMAIN Clocks(c) : i < k + 1 => TimedClock(c, i, timers', now)
          /\ \A t : t.case_id # c.case_id => (t \in timers <=> t \in timers')
          /\ \A t \in timers' : t \in timers \/ (k \in DOMAIN Clocks(c) /\ OfClock(t, c, k))
      BY <1>6, <2>2, <2>3, <3>1, ScheduledOneMore
    <3>3. Excused(todo'[w], cases', timers', now, y)
      <4>1. k + 1 # 0
        BY <2>3
      <4> QED
        BY <2>1, <3>2, <4>1 DEF Excused
    <3>4. Named(cases', timers')
      BY <1>1, <2>1, <2>5, <3>1, <3>2 DEF Named
    <3>5. SettledBut(cases', timers', now, F \cup y)
      <4> SUFFICES ASSUME NEW d \in cases, d.case_id \notin F, d.case_id # c.case_id
                   PROVE  Settled(d, timers', now)
        BY <2>1, <2>5 DEF SettledBut
      <4>1. Settled(d, timers, now)
        BY <1>2, <1>6 DEF SettledBut
      <4>2. \A t : t.case_id = d.case_id => (t \in timers <=> t \in timers')
        BY <3>2
      <4> QED
        BY <4>1, <4>2, SettledApart
    <3> QED
      BY <1>5, <3>3, <3>4, <3>5
  <2> QED
    BY <2>4, <2>5
<1>7. ASSUME NEW c, NEW m, NEW actor, NEW k, Moving(todo[w], cases, c, m, actor, k),
             IsTerminal(c) => IsTerminal(m),
             x = IF k = 0 \/ ~IsTerminal(m) THEN {} ELSE {m.case_id},
             k # 0 /\ IsTerminal(m) =>
               \A i \in DOMAIN Clocks(m) : i < k => \A t \in timers : ~OfClock(t, m, i)
      PROVE  Provided(todo'[w], cases', timers', now', failures')
  <2> DEFINE y == IF IsTerminal(m) THEN {m.case_id} ELSE {}
  <2>1. /\ Moving(todo'[w], cases', c, m, actor, k + 1)
        /\ k = 0 => c \in cases /\ cases' = (cases \ {c}) \cup {m} /\ timers' = timers
        /\ k # 0 => cases' = cases
    BY <1>4, <1>7, MovingGoesOn
  <2>2. /\ c \in Case /\ m \in Case /\ OneMoveOn(c, m, actor)
        /\ Clocks(m) = Clocks(c) /\ m.case_id = c.case_id /\ m.tenant = c.tenant
    BY <1>7 DEF Moving, OneMoveOn, Clocks, Definition
  <2>3. k \in Nat
    BY <1>7 DEF Moving, Left
  <2>4. ASSUME IsTerminal(m) =>
                 \A i \in DOMAIN Clocks(m) : i < k + 1 => \A t \in timers' : ~OfClock(t, m, i)
        PROVE  Excused(todo'[w], cases', timers', now, y)
    <3>1. k + 1 # 0
      BY <2>3
    <3>2. y = IF k + 1 = 0 \/ ~IsTerminal(m) THEN {} ELSE {m.case_id}
      BY <3>1
    <3> HIDE DEF y
    <3> QED
      BY <1>7, <2>1, <2>4, <3>2 DEF Excused
  <2>5. CASE k = 0
    <3>1. Excused(todo'[w], cases', timers', now, y)
      <4>1. DOMAIN Clocks(m) \subseteq Nat \ {0}
        BY <2>2, ClocksOfDefinition DEF Clocks
      <4>2. \A i \in DOMAIN Clocks(m) : ~(i < k + 1)
        BY <2>5, <4>1
      <4> QED
        BY <2>4, <4>2
    <3>2. Named(cases', timers')
      <4> SUFFICES ASSUME NEW t \in timers
                   PROVE  \E d \in cases' : \E i \in DOMAIN Clocks(d) : OfClock(t, d, i)
        BY <2>1, <2>5 DEF Named
      <4>1. PICK d \in cases : \E i \in DOMAIN Clocks(d) : OfClock(t, d, i)
        BY <1>1 DEF Named
      <4>2. CASE d = c
        <5>1. \E i \in DOMAIN Clocks(m) : OfClock(t, m, i)
          BY <2>2, <4>1, <4>2 DEF OfClock, OfCase
        <5> QED
          BY <2>1, <2>5, <5>1
      <4>3. CASE d # c
        BY <2>1, <2>5, <4>1, <4>3
      <4> QED
        BY <4>2, <4>3
    <3>3. SettledBut(cases', timers', now, F \cup y)
      <4>1. ASSUME NEW d \in cases PROVE d.case_id \in F \/ Settled(d, timers, now)
        BY <1>2, <1>7, <2>5 DEF SettledBut
      <4>2. m.case_id \in F \cup y \/ Settled(m, timers, now)
        <5>1. CASE IsTerminal(m)
          BY <5>1
        <5>2. CASE ~IsTerminal(m)
          <6>1. c.case_id \in F \/ Settled(c, timers, now)
            BY <2>1, <2>5, <4>1
          <6>2. ~IsTerminal(c)
            BY <1>7, <5>2
          <6> QED
            BY <2>2, <5>2, <6>1, <6>2, SettledMove
        <5> QED
          BY <5>1, <5>2
      <4> HIDE DEF y
      <4> QED
        BY <2>1, <2>5, <4>1, <4>2 DEF SettledBut
    <3> QED
      BY <1>5, <3>1, <3>2, <3>3
  <2>6. CASE k # 0 /\ ~IsTerminal(m)
    <3>1. timers' = timers
      BY <1>4, <1>7, <2>6, MovingTimers
    <3>2. Excused(todo'[w], cases', timers', now, y)
      BY <2>4, <2>6
    <3>3. x = {} /\ y = {}
      BY <1>7, <2>6
    <3> HIDE DEF y
    <3> QED
      BY <1>1, <1>2, <1>5, <2>1, <2>6, <3>1, <3>2, <3>3
  <2>7. CASE k # 0 /\ IsTerminal(m)
    <3>1. /\ k \in DOMAIN Clocks(m) =>
               \A t : t \in timers' <=> t \in timers /\ ~OfClock(t, m, k)
          /\ k \notin DOMAIN Clocks(m) => timers' = timers
      BY <1>4, <1>7, <2>7, MovingTimers
    <3>2. /\ \A i \in DOMAIN Clocks(m) : i < k + 1 => \A t \in timers' : ~OfClock(t, m, i)
          /\ \A t : t.case_id # m.case_id => (t \in timers <=> t \in timers')
          /\ timers' \subseteq timers
      BY <1>7, <2>2, <2>3, <2>7, <3>1, CancelledOneMore
    <3>3. Excused(todo'[w], cases', timers', now, y)
      BY <2>4, <3>2
    <3>4. Named(cases', timers')
      BY <1>1, <2>1, <2>7, <3>2 DEF Named
    <3>5. SettledBut(cases', timers', now, F \cup y)
      <4> SUFFICES ASSUME NEW d \in cases, d.case_id \notin F, d.case_id # m.case_id
                   PROVE  Settled(d, timers', now)
        BY <2>1, <2>7 DEF SettledBut
      <4>1. Settled(d, timers, now)
        BY <1>2, <1>7 DEF SettledBut
      <4>2. \A t : t.case_id = d.case_id => (t \in timers <=> t \in timers')
        BY <3>2
      <4> QED
        BY <4>1, <4>2, SettledApart
    <3> QED
      BY <1>5, <3>3, <3>4, <3>5
  <2> QED
    BY <2>5, <2>6, <2>7
<1>8. ASSUME NEW c, NEW actor, NEW findings, NEW k,
             Evaluating(todo[w], cases, c, actor, findings, k), x = {}
      PROVE  Provided(todo'[w], cases', timers', now', failures')
  <2>1. /\ Evaluating(todo'[w], cases', c, actor, findings, k + 1)
        /\ cases' = cases /\ timers' = timers
    BY <1>4, <1>8, EvaluatingGoesOn
  <2>2. Excused(todo'[w], cases', timers', now, {})
    BY <2>1 DEF Excused
  <2> QED
    BY <1>1, <1>2, <1>5, <1>8, <2>1, <2>2
<1>9. ASSUME NEW c, NEW actor, NEW to, Refusing(todo[w], cases, c, actor, to), x = {}
      PROVE  Provided(todo'[w], cases', timers', now', failures')
  <2>1. todo'[w] = << >> /\ cases' = cases /\ timers' = timers
    BY <1>4, <1>9, RefusingEnds
  <2>2. Excused(todo'[w], cases', timers', now, {})
    BY <2>1 DEF Excused
  <2> QED
    BY <1>1, <1>2, <1>5, <1>9, <2>1, <2>2
<1> QED
  BY <1>2, <1>3, <1>6, <1>7, <1>8, <1>9 DEF Excused


LEMMA EndsAreLeft ==
    ASSUME OrderlyWorkflows, NEW c \in Case, NEW m \in Case, NEW actor, OneMoveOn(c, m, actor),
           IsTerminal(c)
    PROVE  IsTerminal(m)
<1>1. /\ <<c.state, m.state>> \in Definition(c).transitions /\ Definition(m) = Definition(c)
      /\ c.state \in States /\ m.state \in States /\ c.case_type \in DOMAIN Definitions
  BY DEF OneMoveOn, IsLegal, Definition, Case
<1> QED
  BY <1>1 DEF OrderlyWorkflows, IsTerminal, Definition

LEMMA TimersInductive == ASSUME OrderlyWorkflows, Serial, TInv, [Next]_vars PROVE TInv'
<1>1. PICK w : w \in Workers /\ Workers = {w}
  BY DEF Serial
<1>2. ASSUME SInv', Provided(todo'[w], cases', timers', now', failures') PROVE TInv'
  BY <1>1, <1>2 DEF TInv
<1>3. SInv /\ Provided(todo[w], cases, timers, now, failures)
  BY <1>1 DEF TInv
<1>4. failures \in Nat /\ cases \in SUBSET Case /\ now \in Nat
  BY <1>3 DEF SInv, TypeOK
<1>5. CASE Perform(w)
  BY <1>1, <1>2, <1>3, <1>5, ProvidedPerform, SerialPerform
<1>6. ASSUME SInv', UNCHANGED <<ports, failures, now>>, todo[w] = << >>,
             Excused(todo'[w], cases', timers', now, {})
      PROVE  TInv'
  <2>1. Named(cases, timers)
    BY <1>3 DEF Provided
  <2>2. PICK F : /\ IsFiniteSet(F) /\ Cardinality(F) <= failures
                 /\ SettledBut(cases, timers, now, F)
    BY <1>1, <1>3, <1>6, DoneIsSettled
  <2>3. cases' = cases /\ timers' = timers /\ now' = now /\ failures' = failures
    BY <1>6 DEF ports
  <2>4. SettledBut(cases, timers, now, F \cup {})
    BY <2>2
  <2> QED
    BY <1>2, <1>6, <2>1, <2>2, <2>3, <2>4 DEF Provided
<1>7. CASE CaseNotFound(w) \/ TransitionCase(w) \/ RefuseTransition(w) \/ EvaluateCase(w)
  <2>1. /\ SInv' /\ UNCHANGED <<ports, failures>> /\ todo[w] = << >>
        /\ \/ todo'[w] = << >>
           \/ \E c, m, actor : Moving(todo'[w], cases', c, m, actor, 0)
           \/ \E c, actor, to : Refusing(todo'[w], cases', c, actor, to)
           \/ \E c, actor, findings : Evaluating(todo'[w], cases', c, actor, findings, 0)
    BY <1>1, <1>3, <1>7, SerialServe
  <2>2. now' = now
    BY <1>7 DEF CaseNotFound, TransitionCase, RefuseTransition, EvaluateCase, Decide
  <2>3. Excused(todo'[w], cases', timers', now, {})
    <3>1. ASSUME NEW c, NEW m, NEW actor, Moving(todo'[w], cases', c, m, actor, 0)
          PROVE  Excused(todo'[w], cases', timers', now, {})
      <4>1. IsTerminal(c) => IsTerminal(m)
        BY <3>1, EndsAreLeft DEF Moving
      <4> QED
        BY <3>1, <4>1 DEF Excused
    <3>2. ASSUME NEW c, NEW actor, NEW to, Refusing(todo'[w], cases', c, actor, to)
          PROVE  Excused(todo'[w], cases', timers', now, {})
      BY <3>2 DEF Excused
    <3>3. ASSUME NEW c, NEW actor, NEW findings,
                 Evaluating(todo'[w], cases', c, actor, findings, 0)
          PROVE  Excused(todo'[w], cases', timers', now, {})
      BY <3>3 DEF Excused
    <3>4. CASE todo'[w] = << >>
      BY <3>4 DEF Excused
    <3> QED
      BY <2>1, <3>1, <3>2, <3>3, <3>4
  <2> QED
    BY <1>6, <2>1, <2>2, <2>3
<1>8. CASE OpenCase(w)
  <2>1. /\ SInv' /\ UNCHANGED <<ports, failures>> /\ todo[w] = << >>
        /\ \E c, actor : Opening(todo'[w], cases', c, actor, 0)
    BY <1>1, <1>3, <1>8, SerialOpen
  <2>2. now' = now
    BY <1>8 DEF OpenCase
  <2>3. ASSUME NEW c, NEW actor, Opening(todo'[w], cases', c, actor, 0)
        PROVE  Excused(todo'[w], cases', timers', now, {})
    <3>1. \A i \in DOMAIN Clocks(c) : ~(i < 0)
      BY <2>3, ClocksOfDefinition DEF Opening, Clocks
    <3> QED
      BY <2>3, <3>1 DEF Excused
  <2> QED
    BY <1>6, <2>1, <2>2, <2>3
<1>9. CASE Tick \/ Ask(w) \/ TimerFires(w) \/ UNCHANGED vars
  <2>1. SInv' /\ UNCHANGED <<cases, trail, reviews, todo, failures>>
    BY <1>1, <1>3, <1>9, SerialOthers
  <2>2. Fired(timers, timers', now, now')
    <3>1. timers' \subseteq timers /\ \A t \in timers \ timers' : now > t.fire_at
      BY <1>9 DEF Tick, Ask, TimerFires, ports, vars
    <3>2. now' = now \/ (now' = now + 1 /\ timers' = timers)
      BY <1>9 DEF Tick, Ask, TimerFires, ports, vars
    <3> QED
      BY <1>4, <3>1, <3>2 DEF Fired
  <2>3. Provided(todo[w], cases, timers', now', failures)
    BY <1>3, <1>4, <2>2, ProvidedLater
  <2> QED
    BY <1>2, <2>1, <2>3
<1>10. CASE Fail(w)
  <2>1. SInv' /\ UNCHANGED ports /\ todo'[w] = << >> /\ failures' = failures + 1
    BY <1>1, <1>3, <1>10, SerialFail
  <2>2. now' = now
    BY <1>10 DEF Fail
  <2>3. PICK F, x : /\ IsFiniteSet(F) /\ Cardinality(F) <= failures
                    /\ Excused(todo[w], cases, timers, now, x)
                    /\ SettledBut(cases, timers, now, F \cup x)
    BY <1>3 DEF Provided
  <2>4. IsFiniteSet(F \cup x) /\ Cardinality(F \cup x) <= failures + 1
    <3>1. x = {} \/ \E id : x = {id}
      BY <2>3 DEF Excused
    <3>2. Cardinality(F) \in Nat
      BY <2>3, FS_CardinalityType
    <3>3. CASE x = {}
      <4>1. F \cup x = F
        BY <3>3
      <4>2. IsFiniteSet(F) /\ Cardinality(F) <= failures + 1
        BY <1>4, <2>3, <3>2
      <4> QED
        BY <4>1, <4>2, Zenon
    <3>4. ASSUME NEW id, x = {id}
          PROVE  IsFiniteSet(F \cup x) /\ Cardinality(F \cup x) <= failures + 1
      <4>1. /\ IsFiniteSet(F \cup {id})
            /\ Cardinality(F \cup {id}) = Cardinality(F) \/
               Cardinality(F \cup {id}) = Cardinality(F) + 1
        BY <2>3, FS_AddElement
      <4> QED
        BY <1>4, <2>3, <3>2, <3>4, <4>1
    <3> QED
      BY <3>1, <3>3, <3>4
  <2>5. Excused(<< >>, cases, timers, now, {})
    BY DEF Excused
  <2>6. SettledBut(cases, timers, now, (F \cup x) \cup {})
    BY <2>3
  <2>7. Named(cases, timers)
    BY <1>3 DEF Provided
  <2>8. Provided(<< >>, cases, timers, now, failures + 1)
    BY <2>4, <2>5, <2>6, <2>7 DEF Provided
  <2>9. cases' = cases /\ timers' = timers
    BY <2>1 DEF ports
  <2> QED
    BY <1>2, <2>1, <2>2, <2>8, <2>9
<1> QED
  BY <1>1, <1>5, <1>7, <1>8, <1>9, <1>10 DEF Next, Serve

LEMMA SettledIsTimed ==
    ASSUME SInv, NEW c \in cases, Settled(c, timers, now) PROVE ~Mistimed(c)
<1>1. c \in Case
  BY DEF SInv, TypeOK
<1>2. CASE IsTerminal(c)
  BY <1>2 DEF Settled, Mistimed, OfCase
<1>3. CASE ~IsTerminal(c)
  <2> SUFFICES ASSUME NEW spec \in Untimed(c), spec.start_state = Definition(c).initial
               PROVE  FALSE
    BY <1>3 DEF Mistimed
  <2>1. PICK i \in DOMAIN Clocks(c) : spec = Clocks(c)[i]
    BY DEF Untimed, Clocks, ToSet
  <2>2. Deadline(c, spec, now).due_at = Due(c, i)
    BY <1>1, <2>1, DueIsSteady
  <2>3. /\ Due(c, i) # NotStarted /\ ~(now > Due(c, i))
        /\ TimerOf(c, i) \notin timers
    BY <2>1, <2>2 DEF Untimed, TimerOf
  <2>4. TimedClock(c, i, timers, now)
    BY <1>3, <2>1 DEF Settled
  <2> QED
    BY <2>1, <2>3, <2>4 DEF TimedClock
<1> QED
  BY <1>2, <1>3

LEMMA TimedAtRest == ASSUME OrderlyWorkflows, Serial, TInv PROVE TimersFollowCases
<1>1. PICK w : w \in Workers /\ Workers = {w}
  BY DEF Serial
<1>2. SUFFICES ASSUME Quiescent PROVE Cardinality({c \in cases : Mistimed(c)}) <= failures
  BY DEF TimersFollowCases
<1>3. SInv /\ todo[w] = << >> /\ failures \in Nat
  BY <1>1, <1>2 DEF TInv, SInv, TypeOK, Quiescent, IsIdle
<1>4. PICK F : /\ IsFiniteSet(F) /\ Cardinality(F) <= failures
               /\ SettledBut(cases, timers, now, F)
  <2>1. Provided(todo[w], cases, timers, now, failures)
    BY <1>1 DEF TInv
  <2> QED
    BY <1>1, <1>3, <2>1, DoneIsSettled
<1> DEFINE M == {c \in cases : Mistimed(c)}
           g == [c \in M |-> c.case_id]
<1>5. g \in Injection(M, F)
  <2>1. \A c \in M : c.case_id \in F
    BY <1>3, <1>4, SettledIsTimed DEF SettledBut
  <2>2. \A c, d \in M : c.case_id = d.case_id => c = d
    BY <1>3 DEF SInv
  <2> HIDE DEF M
  <2> QED
    BY <2>1, <2>2 DEF Injection, IsInjective
<1>6. Cardinality(M) <= Cardinality(F) /\ Cardinality(M) \in Nat /\ Cardinality(F) \in Nat
  <2> HIDE DEF M, g
  <2>1. IsFiniteSet(M) /\ Cardinality(M) <= Cardinality(F)
    BY <1>4, <1>5, FS_Injection
  <2> QED
    BY <1>4, <2>1, FS_CardinalityType
<1> HIDE DEF M
<1>7. Cardinality(M) <= failures
  BY <1>3, <1>4, <1>6
<1> QED
  BY <1>7 DEF M

(* With one handler at a time, once it is done, an open case has a timer   *)
(* for every clock that runs from its opening and is not past due, and a   *)
(* closed case has none, but for one case for each handler that died: in   *)
(* every registry where a case does not open at its end, does not come     *)
(* back from it, and has a name of its own for each of its clocks.         *)
THEOREM TimersAreKept == ASSUME OrderlyWorkflows, Serial PROVE Spec => []TimersFollowCases
<1>1. Init => TInv
  <2>1. Init => SInv
    BY SerialInit
  <2> SUFFICES ASSUME Init PROVE TInv
    OBVIOUS
  <2>2. Provided(<< >>, {}, {}, 0, 0)
    <3>1. Excused(<< >>, {}, {}, 0, {})
      BY DEF Excused
    <3>2. Named({}, {}) /\ SettledBut({}, {}, 0, {} \cup {})
      BY DEF Named, SettledBut
    <3>3. IsFiniteSet({}) /\ Cardinality({}) <= 0
      BY FS_EmptySet
    <3> QED
      BY <3>1, <3>2, <3>3 DEF Provided
  <2> QED
    BY <2>1, <2>2 DEF TInv, Init
<1>2. TInv /\ [Next]_vars => TInv'
  BY TimersInductive
<1>3. TInv => TimersFollowCases
  BY TimedAtRest
<1> QED
  BY <1>1, <1>2, <1>3, PTL DEF Spec

=============================================================================
