--------------------------- MODULE ContainerProofs ---------------------------
(***************************************************************************)
(* For any number of threads, requests and restarts, though nothing locks  *)
(* the construction of the container and its ports: the handlers of end    *)
(* users work in one container; what was acknowledged is in the queue; and *)
(* what a handler of a warm process wrote is where it is read.             *)
(*                                                                         *)
(* The first argument is about what a handler still has to look up. It asks*)
(* for the container twice, first for the principal.  Once the first is    *)
(* done a container is cached, whoever built it, and it is never replaced; *)
(* so the second look-up, which precedes every port of the handler's       *)
(* service, meets that one.                                                *)
(*                                                                         *)
(* The others are about what it holds by then.  Every thread stands in a   *)
(* place of its route (Places), so the console that it ends with is one of *)
(* a store, whose contents are those of the database, and of a log, which  *)
(* in a warm process is a cached one (WarmInv).                            *)
(***************************************************************************)
EXTENDS Container, SequenceTheorems, TLAPS

Task == [step : {"look", "fill"}, name : Ports \cup {"_container"}]

LookUp == [step |-> "look", name |-> "_container"]

PortsFrom(todo, k) == \A i \in k..Len(todo) : todo[i].name \in Ports

(* The principal is being resolved; the container is to be asked for; it   *)
(* has been.                                                               *)
Resolving(todo) ==
    Len(todo) >= 2 /\ todo[1].name = "_container" /\ todo[2] = LookUp /\ PortsFrom(todo, 3)
Binding(todo) == Len(todo) >= 1 /\ todo[1] = LookUp /\ PortsFrom(todo, 2)
Bound(todo)   == PortsFrom(todo, 1)

Fields == {"route", "id", "container", "todo", "values", "warm"}

IsEndUsers(th) == th # Idle /\ th.route # "service_reviews"

(* A busy thread is a function, so that one part of it can be replaced.    *)
Shaped(th) == th = Idle \/ th = [f \in Fields |-> th[f]]

(* Where a handler stands, when c is cached.                               *)
Stage(th, c) ==
    IsEndUsers(th) =>
      /\ th.todo \in Seq(Task)
      /\ \/ Resolving(th.todo)
         \/ Binding(th.todo) /\ c # None
         \/ Bound(th.todo) /\ c # None /\ th.container = c

CInv ==
    /\ built \in Nat
    /\ thread = [t \in Threads |-> thread[t]]
    /\ \A t \in Threads : Shaped(thread[t]) /\ Stage(thread[t], cache)

LEMMA TailOfTasks ==
    ASSUME NEW s \in Seq(Task), s # << >>
    PROVE  /\ Tail(s) \in Seq(Task) /\ Head(s) = s[1] /\ Len(s) \in Nat \ {0}
           /\ Len(Tail(s)) = Len(s) - 1
           /\ \A i \in 1..(Len(s) - 1) : Tail(s)[i] = s[i + 1]
OBVIOUS

LEMMA TailMovesOn ==
    ASSUME NEW s \in Seq(Task), s # << >>
    PROVE  /\ Resolving(s) => Binding(Tail(s))
           /\ Binding(s) \/ Bound(s) => Bound(Tail(s))
<1>1. \A k \in 1..3 : PortsFrom(s, k + 1) => PortsFrom(Tail(s), k)
  <2> SUFFICES ASSUME NEW k \in 1..3, PortsFrom(s, k + 1), NEW i \in k..Len(Tail(s))
               PROVE  Tail(s)[i].name \in Ports
    BY DEF PortsFrom
  <2>1. i \in 1..(Len(s) - 1) /\ i + 1 \in (k + 1)..Len(s)
    BY TailOfTasks
  <2> QED
    BY <2>1, TailOfTasks DEF PortsFrom
<1>2. Resolving(s) => Binding(Tail(s))
  <2>1. Len(s) >= 2 => Tail(s)[1] = s[2]
    BY TailOfTasks
  <2> QED
    BY <1>1, <2>1, TailOfTasks DEF Resolving, Binding
<1>3. Bound(s) => PortsFrom(s, 2)
  BY TailOfTasks DEF Bound, PortsFrom
<1> QED
  BY <1>1, <1>2, <1>3 DEF Binding, Bound

(* The handlers of end users begin with the principal.                     *)
LEMMA StartsResolving ==
    ASSUME NEW route \in Routes, route # "service_reviews"
    PROVE  Looking(Lookups(route)) \in Seq(Task) /\ Resolving(Looking(Lookups(route)))
<1>1. CASE route = "cases"
  BY <1>1 DEF Lookups, Looking, Task, Ports, Resolving, LookUp, PortsFrom
<1>2. CASE route = "reviews"
  BY <1>2 DEF Lookups, Looking, Task, Ports, Resolving, LookUp, PortsFrom
<1> QED
  BY <1>1, <1>2 DEF Routes

(* A missing port puts nothing but ports before what is left.              *)
LEMMA NeedsArePorts ==
    ASSUME NEW port \in Ports
    PROVE  Looking(Needs(port)) \in Seq(Task) /\ Bound(Looking(Needs(port)))
<1>1. CASE port = "console"
  BY <1>1 DEF Needs, Looking, Task, Ports, Bound, PortsFrom
<1>2. CASE port = "review_router"
  BY <1>2 DEF Needs, Looking, Task, Ports, Bound, PortsFrom
<1>3. CASE port # "console" /\ port # "review_router"
  <2>1. Needs(port) = << >>
    BY <1>3 DEF Needs
  <2> QED
    BY <2>1 DEF Looking, Task, Bound, PortsFrom
<1> QED
  BY <1>1, <1>2, <1>3

LEMMA BoundTogether ==
    ASSUME NEW s \in Seq(Task), NEW u \in Seq(Task), Bound(s), Bound(u)
    PROVE  s \o u \in Seq(Task) /\ Bound(s \o u)
<1>1. s \o u \in Seq(Task) /\ Len(s \o u) = Len(s) + Len(u) /\ Len(s) \in Nat /\ Len(u) \in Nat
  OBVIOUS
<1>2. ASSUME NEW i \in 1..Len(s \o u)
      PROVE  (s \o u)[i].name \in Ports
  <2>1. CASE i <= Len(s)
    BY <1>1, <2>1 DEF Bound, PortsFrom
  <2>2. CASE i > Len(s)
    <3>1. i - Len(s) \in 1..Len(u) /\ (s \o u)[i] = u[i - Len(s)]
      BY <1>1, <2>2
    <3> QED
      BY <3>1 DEF Bound, PortsFrom
  <2> QED
    BY <1>1, <2>1, <2>2
<1> QED
  BY <1>1, <1>2 DEF Bound, PortsFrom

(* The stages, read off the task that comes next.                          *)
LEMMA NextTask ==
    ASSUME NEW s \in Seq(Task), s # << >>
    PROVE  /\ Binding(s) => Head(s) = LookUp
           /\ Resolving(s) => Head(s).name = "_container"
           /\ Bound(s) => Head(s).name \in Ports
BY TailOfTasks DEF Binding, Resolving, Bound, PortsFrom

LEMMA NoPortIsContainer == "_container" \notin Ports
BY DEF Ports

(* A container that has to be built is still ahead.                        *)
LEMMA FillComes ==
    ASSUME NEW s \in Seq(Task), Resolving(s)
    PROVE  LET u == [s EXCEPT ![1].step = "fill"]
           IN  u \in Seq(Task) /\ Resolving(u)
<1> DEFINE first == [s[1] EXCEPT !.step = "fill"]
           u     == [s EXCEPT ![1] = first]
<1>1. Len(s) \in Nat /\ Len(s) >= 2 /\ s[1] \in Task /\ s[1].name = "_container"
  BY DEF Resolving
<1>2. first \in Task /\ first.name = "_container"
  BY <1>1 DEF Task
<1> HIDE DEF first
<1>3. u \in Seq(Task) /\ Len(u) = Len(s) /\ u[1] = first /\ \A i \in 2..Len(s) : u[i] = s[i]
  BY <1>1, <1>2
<1>4. Resolving(u)
  BY <1>1, <1>2, <1>3 DEF Resolving, PortsFrom
<1>5. u = [s EXCEPT ![1].step = "fill"]
  BY DEF first
<1> QED
  BY <1>3, <1>4, <1>5

(* What is cached stays, so the other threads stand where they stood; the  *)
(* steps below are left with the thread that moves.                        *)
LEMMA OneMoves ==
    ASSUME CInv, NEW t \in Threads, NEW th, thread' = [thread EXCEPT ![t] = th],
           Shaped(th), Stage(th, cache'), cache # None => cache' = cache, built' \in Nat
    PROVE  CInv'
<1>1. \A u \in Threads : thread'[u] = IF u = t THEN th ELSE thread[u]
  BY DEF CInv
<1>2. thread' = [u \in Threads |-> thread'[u]]
  BY DEF CInv
<1>3. ASSUME NEW u \in Threads
      PROVE  Shaped(thread'[u]) /\ Stage(thread'[u], cache')
  <2>1. CASE u = t
    BY <1>1, <2>1
  <2>2. CASE u # t
    <3>1. thread'[u] = thread[u] /\ Shaped(thread[u]) /\ Stage(thread[u], cache)
      BY <1>1, <2>2 DEF CInv
    <3>2. Stage(thread[u], cache')
      BY <3>1 DEF Stage
    <3> QED
      BY <3>1, <3>2
  <2> QED
    BY <2>1, <2>2
<1> QED
  BY <1>2, <1>3 DEF CInv

(* A handler whose next task is the container has it ahead once or twice;  *)
(* one whose next task is a port has it behind.                            *)
LEMMA WhereItStands ==
    ASSUME CInv, NEW t \in Threads, NEW step, Working(t, step), IsEndUsers(thread[t])
    PROVE  /\ thread[t].todo \in Seq(Task) /\ thread[t].todo # << >>
           /\ Upcoming(t).name = "_container" =>
                \/ Resolving(thread[t].todo)
                \/ Binding(thread[t].todo) /\ cache # None /\ step = "look"
           /\ Upcoming(t).name \in Ports =>
                Bound(thread[t].todo) /\ cache # None /\ thread[t].container = cache
<1>1. thread[t].todo \in Seq(Task) /\ thread[t].todo # << >> /\ Stage(thread[t], cache)
  BY DEF CInv, Stage, Working
<1>2. Upcoming(t) = Head(thread[t].todo) /\ Upcoming(t).step = step
  BY DEF Upcoming, Working
<1> QED
  BY <1>1, <1>2, NextTask, NoPortIsContainer DEF Stage, LookUp

LEMMA StartKeeps ==
    ASSUME CInv, NEW t \in Threads, NEW route \in Routes, Start(t, route)
    PROVE  CInv'
<1> DEFINE th == [ route |-> route, id |-> requests, container |-> None,
                   todo |-> Looking(Lookups(route)), values |-> << >>, warm |-> Warm ]
<1>1. thread' = [thread EXCEPT ![t] = th] /\ cache' = cache /\ built' = built
  BY DEF Start
<1>2. Shaped(th)
  BY DEF Shaped, Fields
<1>3. Stage(th, cache')
  BY StartsResolving DEF Stage, IsEndUsers
<1> HIDE DEF th
<1> QED
  BY <1>1, <1>2, <1>3, OneMoves DEF CInv

LEMMA LookContainerKeeps ==
    ASSUME CInv, NEW t \in Threads, LookContainer(t)
    PROVE  CInv'
<1> DEFINE old == thread[t]
           met == [old EXCEPT !.container = cache, !.todo = Tail(@)]
           missed == [old EXCEPT !.todo[1].step = "fill"]
<1>1. old = [f \in Fields |-> old[f]] /\ Working(t, "look") /\ Upcoming(t).name = "_container"
  BY DEF LookContainer, Working, CInv, Shaped
<1>2. thread = [u \in Threads |-> thread[u]] /\ built' \in Nat /\ cache' = cache
  BY DEF CInv, LookContainer
<1>3. CASE cache # None
  <2>1. thread' = [thread EXCEPT ![t] = met]
    BY <1>2, <1>3 DEF LookContainer
  <2>2. Shaped(met) /\ met.todo = Tail(old.todo) /\ met.container = cache /\ met.route = old.route
    BY <1>1 DEF Shaped, Fields
  <2>3. Stage(met, cache)
    <3> SUFFICES ASSUME IsEndUsers(old)
                 PROVE  Stage(met, cache)
      BY <1>1, <2>2 DEF Stage, IsEndUsers, Working
    <3>1. old.todo \in Seq(Task) /\ old.todo # << >> /\ (Resolving(old.todo) \/ Binding(old.todo))
      BY <1>1, WhereItStands
    <3> QED
      BY <3>1, <1>3, <2>2, TailOfTasks, TailMovesOn DEF Stage
  <2> HIDE DEF met
  <2> QED
    BY <1>2, <2>1, <2>2, <2>3, OneMoves
<1>4. CASE cache = None
  <2>1. thread' = [thread EXCEPT ![t] = missed]
    BY <1>2, <1>4 DEF LookContainer
  <2>2. Shaped(missed) /\ missed.todo = [old.todo EXCEPT ![1].step = "fill"]
          /\ missed.route = old.route
    BY <1>1 DEF Shaped, Fields
  <2>3. Stage(missed, cache)
    <3> SUFFICES ASSUME IsEndUsers(old)
                 PROVE  Stage(missed, cache)
      BY <1>1, <2>2 DEF Stage, IsEndUsers, Working
    <3>1. old.todo \in Seq(Task) /\ old.todo # << >> /\ Resolving(old.todo)
      BY <1>1, <1>4, WhereItStands
    <3>2. missed.todo \in Seq(Task) /\ Resolving(missed.todo)
      BY <2>2, <3>1, FillComes
    <3> QED
      BY <3>2 DEF Stage
  <2> HIDE DEF missed
  <2> QED
    BY <1>2, <2>1, <2>2, <2>3, OneMoves
<1> QED
  BY <1>3, <1>4

(* Whoever fills the cache, something is in it afterwards.                 *)
LEMMA FillContainerKeeps ==
    ASSUME CInv, NEW t \in Threads, FillContainer(t)
    PROVE  CInv'
<1> DEFINE old == thread[t]
           new == [old EXCEPT !.container = built', !.todo = Tail(@)]
<1>1. old = [f \in Fields |-> old[f]] /\ Working(t, "fill") /\ Upcoming(t).name = "_container"
  BY DEF FillContainer, Working, CInv, Shaped
<1>2. /\ thread' = [thread EXCEPT ![t] = new] /\ built' \in Nat
      /\ cache' # None /\ (cache # None => cache' = cache)
  <2>1. built' \in Nat /\ cache' = IF cache = None THEN built' ELSE cache
    BY DEF CInv, FillContainer
  <2>2. built' # None
    BY <2>1, ContainerAssumption DEF ContainerAssumption
  <2>3. thread' = [thread EXCEPT ![t] = new]
    BY DEF CInv, FillContainer
  <2> QED
    BY <2>1, <2>2, <2>3
<1>3. Shaped(new) /\ new.todo = Tail(old.todo) /\ new.route = old.route
  BY <1>1 DEF Shaped, Fields
<1>4. Stage(new, cache')
  <2> SUFFICES ASSUME IsEndUsers(old)
               PROVE  Stage(new, cache')
    BY <1>1, <1>3 DEF Stage, IsEndUsers, Working
  <2>1. old.todo \in Seq(Task) /\ old.todo # << >> /\ Resolving(old.todo)
    BY <1>1, WhereItStands
  <2> QED
    BY <2>1, <1>2, <1>3, TailOfTasks, TailMovesOn DEF Stage
<1> HIDE DEF new
<1> QED
  BY <1>2, <1>3, <1>4, OneMoves

LEMMA LookPortKeeps ==
    ASSUME CInv, NEW t \in Threads, LookPort(t)
    PROVE  CInv'
<1> DEFINE old == thread[t]
           port == Upcoming(t).name
           found(i) == [old EXCEPT !.todo = Tail(@), !.values = Append(@, i)]
           ahead == Looking(Needs(port)) \o << [step |-> "fill", name |-> port] >> \o Tail(old.todo)
           missed == [old EXCEPT !.todo = ahead]
<1>1. old = [f \in Fields |-> old[f]] /\ Working(t, "look") /\ port \in Ports
  BY DEF LookPort, Working, CInv, Shaped
<1>2. thread = [u \in Threads |-> thread[u]] /\ built' \in Nat /\ cache' = cache
  BY DEF CInv, LookPort
<1>3. IsEndUsers(old) =>
        /\ old.todo \in Seq(Task) /\ old.todo # << >> /\ Bound(old.todo)
        /\ cache # None /\ old.container = cache
  BY <1>1, WhereItStands
<1>4. ASSUME NEW i, thread' = [thread EXCEPT ![t].todo = Tail(@), ![t].values = Append(@, i)]
      PROVE  CInv'
  <2>1. thread' = [thread EXCEPT ![t] = found(i)]
    BY <1>2, <1>4
  <2>2. Shaped(found(i)) /\ found(i).todo = Tail(old.todo)
          /\ found(i).container = old.container /\ found(i).route = old.route
    BY <1>1 DEF Shaped, Fields
  <2>3. Stage(found(i), cache')
    BY <1>1, <1>2, <1>3, <2>2, TailOfTasks, TailMovesOn DEF Stage, IsEndUsers, Working
  <2> HIDE DEF found
  <2> QED
    BY <1>2, <2>1, <2>2, <2>3, OneMoves
<1>5. ASSUME thread' = [thread EXCEPT ![t].todo = ahead]
      PROVE  CInv'
  <2>1. thread' = [thread EXCEPT ![t] = missed]
    BY <1>2, <1>5
  <2>2. Shaped(missed) /\ missed.todo = ahead
          /\ missed.container = old.container /\ missed.route = old.route
    BY <1>1 DEF Shaped, Fields
  <2>3. IsEndUsers(old) => ahead \in Seq(Task) /\ Bound(ahead)
    <3> SUFFICES ASSUME IsEndUsers(old)
                 PROVE  ahead \in Seq(Task) /\ Bound(ahead)
      OBVIOUS
    <3> DEFINE itself == << [step |-> "fill", name |-> port] >>
    <3>1. itself \in Seq(Task) /\ Bound(itself)
      BY <1>1 DEF Task, Bound, PortsFrom
    <3>2. Tail(old.todo) \in Seq(Task) /\ Bound(Tail(old.todo))
      BY <1>3, TailOfTasks, TailMovesOn
    <3>3. Looking(Needs(port)) \in Seq(Task) /\ Bound(Looking(Needs(port)))
      BY <1>1, NeedsArePorts
    <3> HIDE DEF itself
    <3>4. Looking(Needs(port)) \o itself \in Seq(Task) /\ Bound(Looking(Needs(port)) \o itself)
      BY <3>1, <3>3, BoundTogether
    <3>5. (Looking(Needs(port)) \o itself) \o Tail(old.todo) \in Seq(Task)
            /\ Bound((Looking(Needs(port)) \o itself) \o Tail(old.todo))
      BY <3>2, <3>4, BoundTogether
    <3> QED
      BY <3>5 DEF itself
  <2> HIDE DEF ahead
  <2>4. Stage(missed, cache')
    BY <1>1, <1>2, <1>3, <2>2, <2>3 DEF Stage, IsEndUsers, Working
  <2> HIDE DEF missed
  <2> QED
    BY <1>2, <2>1, <2>2, <2>4, OneMoves
<1> QED
  BY <1>4, <1>5 DEF LookPort

LEMMA FillPortKeeps ==
    ASSUME CInv, NEW t \in Threads, FillPort(t)
    PROVE  CInv'
<1> DEFINE old == thread[t]
           new(v) == [old EXCEPT !.todo = Tail(@), !.values = v]
<1>1. old = [f \in Fields |-> old[f]] /\ Working(t, "fill") /\ Upcoming(t).name \in Ports
  BY DEF FillPort, Working, CInv, Shaped
<1>2. built' \in Nat /\ cache' = cache
  BY DEF CInv, FillPort
<1>3. PICK v : thread' = [thread EXCEPT ![t] = new(v)]
  BY <1>1 DEF CInv, FillPort, Fields
<1>4. Shaped(new(v)) /\ new(v).todo = Tail(old.todo)
        /\ new(v).container = old.container /\ new(v).route = old.route
  BY <1>1 DEF Shaped, Fields
<1>5. IsEndUsers(old) =>
        /\ old.todo \in Seq(Task) /\ old.todo # << >> /\ Bound(old.todo)
        /\ cache # None /\ old.container = cache
  BY <1>1, WhereItStands
<1>6. Stage(new(v), cache')
  BY <1>1, <1>2, <1>4, <1>5, TailOfTasks, TailMovesOn DEF Stage, IsEndUsers, Working
<1> HIDE DEF new
<1> QED
  BY <1>2, <1>3, <1>4, <1>6, OneMoves

LEMMA ReturnKeeps ==
    ASSUME CInv, NEW t \in Threads, Returns(t), UNCHANGED <<cache, built>>
    PROVE  CInv'
BY OneMoves DEF Returns, CInv, Shaped, Stage, IsEndUsers

LEMMA RestartKeeps ==
    ASSUME CInv, Restart
    PROVE  CInv'
BY DEF CInv, Restart, Shaped, Stage, IsEndUsers

(* How far each handler of an end user has got, and that a container is    *)
(* cached from its first look-up on (_container, get_principal).           *)
THEOREM StagesKept == Spec => []CInv
<1>1. Init => CInv
  BY DEF Init, CInv, Shaped, Stage, IsEndUsers
<1>2. CInv /\ [Next]_vars => CInv'
  <2> SUFFICES ASSUME CInv, [Next]_vars
               PROVE  CInv'
    OBVIOUS
  <2>1. CASE UNCHANGED vars
    BY <2>1 DEF vars, CInv
  <2>2. CASE Restart
    BY <2>2, RestartKeeps
  <2>3. ASSUME NEW t \in Threads, NEW route \in Routes, Start(t, route)
        PROVE  CInv'
    BY <2>3, StartKeeps
  <2>4. ASSUME NEW t \in Threads, LookContainer(t) \/ FillContainer(t)
        PROVE  CInv'
    BY <2>4, LookContainerKeeps, FillContainerKeeps
  <2>5. ASSUME NEW t \in Threads, LookPort(t) \/ FillPort(t)
        PROVE  CInv'
    BY <2>5, LookPortKeeps, FillPortKeeps
  <2>6. ASSUME NEW t \in Threads, HandleReview(t) \/ HandleCase(t)
        PROVE  CInv'
    BY <2>6, ReturnKeeps DEF HandleReview, HandleCase
  <2> QED
    BY <2>1, <2>2, <2>3, <2>4, <2>5, <2>6 DEF Next
<1> QED
  BY <1>1, <1>2, PTL DEF Spec

(* Handlers of end users work in the one container that is cached, however *)
(* many threads build it at once (_container, get_principal).              *)
THEOREM HandlersMeet == Spec => []EndUserHandlersMeet
<1>1. CInv => EndUserHandlersMeet
  <2> SUFFICES ASSUME CInv, NEW t \in Threads, IsEndUsers(thread[t]),
                      Ready(t) \/ Upcoming(t).name \in Ports
               PROVE  thread[t].container = cache
    BY DEF EndUserHandlersMeet, IsEndUsers
  <2>1. Stage(thread[t], cache)
    BY DEF CInv
  <2>2. CASE thread[t].todo = << >>
    BY <2>1, <2>2 DEF Stage, Resolving, Binding
  <2>3. CASE thread[t].todo # << >>
    <3>1. thread[t].todo \in Seq(Task) /\ Head(thread[t].todo).name \in Ports
      BY <2>1, <2>3 DEF Stage, Ready, Upcoming
    <3> QED
      BY <2>1, <2>3, <3>1, NextTask, NoPortIsContainer DEF Stage, LookUp
  <2> QED
    BY <2>2, <2>3
<1> QED
  BY <1>1, StagesKept, PTL

-----------------------------------------------------------------------------
(* What a handler holds.                                                   *)
(*                                                                         *)
(* An expression is evaluated on a stack, so where a handler stands is the *)
(* ports that it holds and what is still to do.  There are only so many    *)
(* such places, and every step leads from one of them to another.          *)

Look(name)  == [step |-> "look", name |-> name]
Make(name)  == [step |-> "fill", name |-> name]
Doing(name) == {Look(name), Make(name)}

And(held, port)  == Append(held, port)
Then(task, rest) == << task >> \o rest

(* On the way to one more port that is made of nothing.                    *)
AtSimple(port, before, after, held, todo) ==
    held = before /\ \E x \in Doing(port) : todo = Then(x, after)

(* On the way to a console.                                                *)
AtConsole(before, after, held, todo) ==
    LET made == Then(Make("console"), after)
    IN  \/ held = before /\ todo = Then(Look("console"), after)
        \/ AtSimple("review_store", before, Then(Look("audit"), made), held, todo)
        \/ AtSimple("audit", And(before, "review_store"), made, held, todo)
        \/ held = And(And(before, "review_store"), "audit") /\ todo = made

(* What the handler of a route is to look up, and what it has in the end.  *)
Routed == Then(Look("review_router"), << >>)
ToHave(route) ==
    IF route = "cases" THEN Then(Look("case_store"), Then(Look("audit"), Routed))
                       ELSE Then(Look("console"), << >>)

Both == And(And(<< >>, "case_store"), "audit")
Has(route) == IF route = "cases" THEN And(Both, "review_router") ELSE And(<< >>, "console")

AtCase(held, todo) ==
    \/ AtSimple("case_store", << >>, Then(Look("audit"), Routed), held, todo)
    \/ AtSimple("audit", And(<< >>, "case_store"), Routed, held, todo)
    \/ held = Both /\ todo = Routed
    \/ AtConsole(Both, Then(Make("review_router"), << >>), held, todo)
    \/ held = And(Both, "console") /\ todo = Then(Make("review_router"), << >>)

(* Asking for the container, once more or for the last time.               *)
AtContainer(route, held, todo) ==
    \/ AtSimple("_container", << >>, ToHave(route), held, todo)
    \/ AtSimple("_container", << >>, Then(LookUp, ToHave(route)), held, todo)

At(route, held, todo) ==
    \/ AtContainer(route, held, todo)
    \/ route = "cases" /\ AtCase(held, todo)
    \/ route # "cases" /\ AtConsole(<< >>, << >>, held, todo)
    \/ held = Has(route) /\ todo = << >>

(* The ports of what is held.                                              *)
PortsOf(values) == [i \in 1..Len(values) |-> values[i].port]

NoFills(todo) == \A i \in DOMAIN todo : todo[i].step # "fill"

(* A handler stands in a place of its route; it holds instances, and by    *)
(* the time it looks up a port it has a container.                         *)
Standing(th) ==
    th # Idle =>
      /\ th.route \in Routes /\ th.values \in Seq(Instances)
      /\ At(th.route, PortsOf(th.values), th.todo)
      /\ th.todo # << >> /\ Head(th.todo).name \in Ports => th.container \in Nat

Places ==
    /\ cache \in Nat \cup {None} /\ attrs \subseteq Instances
    /\ \A t \in Threads : Standing(thread[t])

(* Every port is there, and no handler is to replace one of the cached     *)
(* container.                                                              *)
Settled ==
    /\ cache # None /\ \A port \in Ports : Attr(cache, port) # {}
    /\ \A t \in Threads : thread[t] # Idle =>
         \/ NoFills(thread[t].todo)
         \/ Bound(thread[t].todo) /\ thread[t].container # cache

CachedAttrs == {i \in attrs : i.container = cache}

(* A handler that starts in a warm process works with what is there.       *)
Warmed(th) ==
    th # Idle /\ th.warm =>
      /\ Settled /\ NoFills(th.todo)
      /\ th.todo = << >> \/ Head(th.todo).name \in Ports => th.container = cache
      /\ \A i \in 1..Len(th.values) : th.values[i] \in CachedAttrs

CachedLogs ==
    {i \in CachedAttrs : i.port = "audit"}
      \cup {LogOf(i) : i \in {j \in CachedAttrs : j.port = "console"}}
      \cup {LogOf(i.parts[1]) : i \in {j \in CachedAttrs : j.port = "review_router"}}

WarmInv ==
    /\ boots \in Nat
    /\ \A t \in Threads : Warmed(thread[t])
    /\ \A x \in records :
         /\ x.boot \in 0..boots
         /\ x.at # Disk /\ x.boot = boots /\ x.warm => Settled /\ x.at \in CachedLogs

(* What is answered is stored, under a key once.                           *)
Stored == {x.what : x \in {y \in records : y.at = Disk}}

QueueInv ==
    /\ acknowledged \subseteq Stored
    /\ \A r, s \in Stored : r.key # None /\ r.key = s.key => r = s

-----------------------------------------------------------------------------
LEMMA Tasks ==
    ASSUME NEW n \in Ports \cup {"_container"}
    PROVE  /\ Doing(n) \subseteq Task
           /\ Look(n).name = n /\ Look(n).step = "look"
           /\ Make(n).name = n /\ Make(n).step = "fill"
BY DEF Doing, Look, Make, Task

(* Task by task: what comes first, and what is left.                       *)
LEMMA ThenInFull ==
    ASSUME NEW x \in Task, NEW rest \in Seq(Task)
    PROVE  /\ Then(x, rest) \in Seq(Task) /\ Then(x, rest) # << >>
           /\ Head(Then(x, rest)) = x /\ Tail(Then(x, rest)) = rest
           /\ [Then(x, rest) EXCEPT ![1].step = "fill"] = Then(Make(x.name), rest)
           /\ NoFills(rest) /\ x.step = "look" => NoFills(Then(x, rest))
           /\ NoFills(Then(x, rest)) => NoFills(rest) /\ x.step # "fill"
           /\ Bound(Then(x, rest)) <=> x.name \in Ports /\ Bound(rest)
<1> DEFINE s == Then(x, rest)
<1>1. /\ s \in Seq(Task) /\ Len(s) = 1 + Len(rest) /\ s[1] = x /\ Len(rest) \in Nat
      /\ \A i \in 1..Len(rest) : s[i + 1] = rest[i]
  BY DEF Then
<1>2. \A i \in 2..Len(s) : i - 1 \in 1..Len(rest) /\ s[i] = rest[i - 1]
  BY <1>1
<1> HIDE DEF s
<1>3. s # << >> /\ Head(s) = x
  BY <1>1
<1>4. Tail(s) = rest
  <2>1. Tail(s) \in Seq(Task) /\ Len(Tail(s)) = Len(rest) /\ \A i \in 1..Len(rest) : Tail(s)[i] = rest[i]
    BY <1>1, <1>3, TailOfTasks
  <2> QED
    BY <2>1
<1>5. [s EXCEPT ![1].step = "fill"] = Then(Make(x.name), rest)
  <2> DEFINE u == [s EXCEPT ![1].step = "fill"]
             v == Then(Make(x.name), rest)
  <2>1. Make(x.name) = [x EXCEPT !.step = "fill"] /\ Make(x.name) \in Task
    BY DEF Make, Task
  <2>2. u \in Seq(Task) /\ Len(u) = Len(s) /\ u[1] = Make(x.name) /\ \A i \in 2..Len(s) : u[i] = s[i]
    BY <1>1, <2>1
  <2>3. v \in Seq(Task) /\ Len(v) = Len(s) /\ v[1] = Make(x.name) /\ \A i \in 2..Len(s) : v[i] = rest[i - 1]
    BY <1>1, <1>2, <2>1 DEF Then
  <2> HIDE DEF u, v
  <2>4. u = v
    BY <1>2, <2>2, <2>3
  <2> QED
    BY <2>4 DEF u, v
<1>6. \A i \in 1..Len(s) : i = 1 \/ (i - 1 \in 1..Len(rest) /\ s[i] = rest[i - 1])
  <2>1. \A i \in 1..Len(s) : i = 1 \/ i \in 2..Len(s)
    BY <1>1
  <2> QED
    BY <1>2, <2>1
<1>7. 1 \in 1..Len(s) /\ \A i \in 1..Len(rest) : i + 1 \in 1..Len(s) /\ s[i + 1] = rest[i]
  BY <1>1
<1>8. DOMAIN s = 1..Len(s) /\ DOMAIN rest = 1..Len(rest)
  BY <1>1
<1>9. /\ NoFills(rest) /\ x.step = "look" => NoFills(s)
      /\ NoFills(s) => NoFills(rest) /\ x.step # "fill"
      /\ Bound(s) <=> x.name \in Ports /\ Bound(rest)
  <2> HIDE DEF Ports
  <2>1. NoFills(rest) /\ x.step = "look" => NoFills(s)
    <3> SUFFICES ASSUME NoFills(rest), x.step = "look", NEW i \in 1..Len(s)
                 PROVE  s[i].step # "fill"
      BY <1>8 DEF NoFills
    <3> QED
      BY <1>1, <1>6, <1>8 DEF NoFills
  <2>4. NoFills(s) => NoFills(rest) /\ x.step # "fill"
    BY <1>1, <1>7, <1>8 DEF NoFills
  <2>2. Bound(s) => x.name \in Ports /\ Bound(rest)
    BY <1>1, <1>7 DEF Bound, PortsFrom
  <2>3. x.name \in Ports /\ Bound(rest) => Bound(s)
    BY <1>1, <1>6 DEF Bound, PortsFrom
  <2> QED
    BY <2>1, <2>2, <2>3, <2>4
<1> QED
  BY <1>1, <1>3, <1>4, <1>5, <1>9 DEF s

LEMMA ThenSplits ==
    ASSUME NEW x \in Task, NEW rest \in Seq(Task)
    PROVE  /\ Then(x, rest) \in Seq(Task) /\ Then(x, rest) # << >>
           /\ Head(Then(x, rest)) = x /\ Tail(Then(x, rest)) = rest
BY ThenInFull

LEMMA ThenBound ==
    ASSUME NEW x \in Task, NEW rest \in Seq(Task)
    PROVE  Bound(Then(x, rest)) <=> x.name \in Ports /\ Bound(rest)
BY ThenInFull

LEMMA ThenFills ==
    ASSUME NEW x \in Task, NEW rest \in Seq(Task)
    PROVE  /\ NoFills(rest) /\ x.step = "look" => NoFills(Then(x, rest))
           /\ NoFills(Then(x, rest)) => NoFills(rest) /\ x.step # "fill"
BY ThenInFull

LEMMA ThenMakes ==
    ASSUME NEW x \in Task, NEW rest \in Seq(Task)
    PROVE  [Then(x, rest) EXCEPT ![1].step = "fill"] = Then(Make(x.name), rest)
BY ThenInFull

(* Each port with the ports that it is made of before it.                  *)
Opened(port, rest) == Looking(Needs(port)) \o << Make(port) >> \o rest

LEMMA Opens ==
    ASSUME NEW rest \in Seq(Task)
    PROVE  /\ \A port \in {"case_store", "audit", "review_store"} :
                Opened(port, rest) = Then(Make(port), rest)
           /\ Opened("console", rest) =
                Then(Look("review_store"), Then(Look("audit"), Then(Make("console"), rest)))
           /\ Opened("review_router", rest) = Then(Look("console"), Then(Make("review_router"), rest))
<1>1. ASSUME NEW port \in {"case_store", "audit", "review_store"}
      PROVE  Opened(port, rest) = Then(Make(port), rest)
  <2>1. Looking(Needs(port)) = << >>
    BY DEF Needs, Looking
  <2>2. << >> \o << Make(port) >> = << Make(port) >>
    OBVIOUS
  <2> QED
    BY <2>1, <2>2 DEF Opened, Then
<1>2. \A n \in Ports : Look(n) \in Task /\ Make(n) \in Task
  BY DEF Look, Make, Task
<1>3. Opened("console", rest) =
        Then(Look("review_store"), Then(Look("audit"), Then(Make("console"), rest)))
  <2> DEFINE a == Look("review_store")
             b == Look("audit")
             m == Make("console")
  <2>1. Looking(Needs("console")) = << a, b >>
    BY DEF Needs, Looking, Look
  <2>2. a \in Task /\ b \in Task /\ m \in Task
    BY <1>2 DEF Ports
  <2> HIDE DEF a, b, m
  <2>3. << a, b >> = << a >> \o << b >>
    <3> DEFINE u == << a >> \o << b >>
    <3>1. u \in Seq(Task) /\ Len(u) = 2 /\ u[1] = a /\ u[2] = b
      BY <2>2
    <3> HIDE DEF u
    <3>2. u = << a, b >>
      BY <3>1
    <3> QED
      BY <3>2 DEF u
  <2>5. (<< a, b >> \o << m >>) \o rest = << a >> \o (<< b >> \o (<< m >> \o rest))
    <3>1. << a >> \in Seq(Task) /\ << b >> \in Seq(Task) /\ << m >> \in Seq(Task)
            /\ << m >> \o rest \in Seq(Task) /\ << a >> \o << b >> \in Seq(Task)
      BY <2>2
    <3>2. (<< a >> \o << b >>) \o << m >> = << a >> \o (<< b >> \o << m >>)
      BY <3>1, ConcatAssociative
    <3> QED
      BY <2>3, <3>1, <3>2, ConcatAssociative
  <2>4. Opened("console", rest) = Then(a, Then(b, Then(m, rest)))
    BY <2>1, <2>5 DEF Opened, Then, m
  <2> QED
    BY <2>4 DEF a, b, m
<1>4. Opened("review_router", rest) = Then(Look("console"), Then(Make("review_router"), rest))
  <2> DEFINE a == Look("console")
             m == Make("review_router")
  <2>1. Looking(Needs("review_router")) = << a >>
    BY DEF Needs, Looking, Look
  <2>2. a \in Task /\ m \in Task
    BY <1>2 DEF Ports
  <2> HIDE DEF a, m
  <2>3. << a >> \o << m >> \o rest = << a >> \o (<< m >> \o rest)
    BY <2>2
  <2>4. Opened("review_router", rest) = Then(a, Then(m, rest))
    BY <2>1, <2>3 DEF Opened, Then, m
  <2> QED
    BY <2>4 DEF a, m
<1> QED
  BY <1>1, <1>3, <1>4

(* A port is made of the last of what is held, and takes its place.        *)
Kept(held, port)  == Len(held) - Len(Needs(port))
Parts(held, port) == SubSeq(held, Kept(held, port) + 1, Len(held))
Took(held, port)  == And(SubSeq(held, 1, Kept(held, port)), port)

LEMMA Takes ==
    ASSUME NEW held \in Seq(Ports), NEW a \in Ports, NEW b \in Ports
    PROVE  /\ And(held, a) \in Seq(Ports)
           /\ \A port \in {"case_store", "audit", "review_store"} :
                Kept(held, port) \in Nat /\ Took(held, port) = And(held, port)
           /\ LET h == And(And(held, "review_store"), "audit")
              IN  /\ Kept(h, "console") \in Nat /\ Took(h, "console") = And(held, "console")
                  /\ Parts(h, "console") = Needs("console")
           /\ LET h == And(held, "console")
              IN  /\ Kept(h, "review_router") \in Nat
                  /\ Took(h, "review_router") = And(held, "review_router")
                  /\ Parts(h, "review_router") = Needs("review_router")
<1>1. ASSUME NEW h \in Seq(Ports), NEW port \in Ports
      PROVE  /\ And(h, port) \in Seq(Ports) /\ Len(And(h, port)) = Len(h) + 1
             /\ And(h, port)[Len(h) + 1] = port
             /\ \A i \in 1..Len(h) : And(h, port)[i] = h[i]
             /\ SubSeq(And(h, port), 1, Len(h)) = h
             /\ SubSeq(h, 1, Len(h)) = h /\ Len(h) \in Nat
  BY DEF And
<1>2. ASSUME NEW port \in {"case_store", "audit", "review_store"}
      PROVE  Kept(held, port) \in Nat /\ Took(held, port) = And(held, port)
  <2>1. Len(Needs(port)) = 0
    BY DEF Needs
  <2>2. Len(held) \in Nat /\ SubSeq(held, 1, Len(held)) = held
    BY <1>1
  <2>3. Kept(held, port) = Len(held)
    BY <2>1, <2>2 DEF Kept
  <2> QED
    BY <2>2, <2>3 DEF Took
<1>3. LET h == And(And(held, "review_store"), "audit")
      IN  /\ Kept(h, "console") \in Nat /\ Took(h, "console") = And(held, "console")
          /\ Parts(h, "console") = Needs("console")
  <2> DEFINE g == And(held, "review_store")
             h == And(g, "audit")
  <2>1. /\ h \in Seq(Ports) /\ Len(held) \in Nat /\ Len(h) = Len(held) + 2
        /\ h[Len(held) + 1] = "review_store" /\ h[Len(held) + 2] = "audit"
        /\ \A i \in 1..Len(held) : h[i] = held[i]
    <3>1. "review_store" \in Ports /\ "audit" \in Ports
      BY DEF Ports
    <3>2. /\ g \in Seq(Ports) /\ Len(g) = Len(held) + 1 /\ g[Len(held) + 1] = "review_store"
          /\ \A i \in 1..Len(held) : g[i] = held[i]
      BY <1>1, <3>1
    <3> HIDE DEF g
    <3>3. /\ h \in Seq(Ports) /\ Len(h) = Len(g) + 1 /\ h[Len(g) + 1] = "audit"
          /\ \A i \in 1..Len(g) : h[i] = g[i]
      BY <1>1, <3>1, <3>2
    <3> HIDE DEF h
    <3>4. Len(held) \in Nat
      OBVIOUS
    <3>5. /\ Len(h) = Len(held) + 2 /\ Len(g) + 1 = Len(held) + 2
          /\ \A i \in 1..Len(held) : i \in 1..Len(g)
      BY <3>2, <3>3, <3>4
    <3> QED
      BY <3>2, <3>3, <3>4, <3>5
  <2>2. Needs("console") = << "review_store", "audit" >>
    BY DEF Needs
  <2>6. Len(Needs("console")) = 2
    BY DEF Needs
  <2> HIDE DEF h
  <2>3. Kept(h, "console") = Len(held)
    <3>1. \A k : k = 2 => Len(h) - k = Len(held)
      BY <2>1
    <3> QED
      BY <2>6, <3>1, Zenon DEF Kept
  <2>4. SubSeq(h, 1, Len(held)) = held
    <3> DEFINE u == SubSeq(h, 1, Len(held))
    <3>1. u \in Seq(Ports) /\ Len(u) = Len(held) /\ \A i \in 1..Len(held) : u[i] = held[i]
      BY <2>1
    <3> HIDE DEF u
    <3>2. u = held
      BY <3>1
    <3> QED
      BY <3>2 DEF u
  <2>5. Parts(h, "console") = << "review_store", "audit" >>
    <3> DEFINE u == SubSeq(h, Len(held) + 1, Len(held) + 2)
    <3>1. u \in Seq(Ports) /\ Len(u) = 2 /\ u[1] = "review_store" /\ u[2] = "audit"
      BY <2>1
    <3> HIDE DEF u
    <3>2. u = << "review_store", "audit" >>
      BY <3>1
    <3> QED
      BY <2>1, <2>3, <3>2 DEF Parts, u
  <2> QED
    BY <2>1, <2>2, <2>3, <2>4, <2>5 DEF Took, h
<1>4. LET h == And(held, "console")
      IN  /\ Kept(h, "review_router") \in Nat
          /\ Took(h, "review_router") = And(held, "review_router")
          /\ Parts(h, "review_router") = Needs("review_router")
  <2> DEFINE h == And(held, "console")
  <2>1. /\ h \in Seq(Ports) /\ Len(h) = Len(held) + 1 /\ Len(held) \in Nat
        /\ h[Len(held) + 1] = "console" /\ SubSeq(h, 1, Len(held)) = held
    BY <1>1 DEF Ports
  <2>2. Needs("review_router") = << "console" >>
    BY DEF Needs
  <2>5. Len(Needs("review_router")) = 1
    BY DEF Needs
  <2> HIDE DEF h
  <2>3. Kept(h, "review_router") = Len(held)
    <3>1. \A k : k = 1 => Len(h) - k = Len(held)
      BY <2>1
    <3> QED
      BY <2>5, <3>1, Zenon DEF Kept
  <2>4. Parts(h, "review_router") = << "console" >>
    <3> DEFINE u == SubSeq(h, Len(held) + 1, Len(held) + 1)
    <3>1. u \in Seq(Ports) /\ Len(u) = 1 /\ u[1] = "console"
      BY <2>1
    <3> HIDE DEF u
    <3>2. u = << "console" >>
      BY <3>1
    <3> QED
      BY <2>1, <2>3, <3>2 DEF Parts, u
  <2> QED
    BY <2>1, <2>2, <2>3, <2>4 DEF Took, h
<1> QED
  BY <1>1, <1>2, <1>3, <1>4

(* A step on a port: it is there, it is opened, or it is filled in.        *)
Leads(held, todo, h, d) ==
    LET port == Head(todo).name
    IN  \/ Head(todo).step = "look" /\ h = And(held, port) /\ d = Tail(todo)
        \/ Head(todo).step = "look" /\ h = held /\ d = Opened(port, Tail(todo))
        \/ Head(todo).step = "fill" /\ h = Took(held, port) /\ d = Tail(todo)

(* What a port is made of is held by the time it is filled in.             *)
Supplied(held, todo) ==
    LET port == Head(todo).name
    IN  /\ held \in Seq(Ports) /\ todo \in Seq(Task) /\ todo # << >> /\ Bound(todo)
        /\ Head(todo).step = "fill" =>
             /\ Kept(held, port) \in Nat
             /\ port \in {"console", "review_router"} => Parts(held, port) = Needs(port)

LEMMA SimpleLeads ==
    ASSUME NEW port \in {"case_store", "audit", "review_store"}, NEW before \in Seq(Ports),
           NEW after \in Seq(Task), Bound(after), NEW held, NEW todo,
           AtSimple(port, before, after, held, todo)
    PROVE  /\ Supplied(held, todo)
           /\ \A h, d : Leads(held, todo, h, d) =>
                AtSimple(port, before, after, h, d) \/ (h = And(before, port) /\ d = after)
<1>1. PICK x \in Doing(port) : held = before /\ todo = Then(x, after)
  BY DEF AtSimple
<1>2. /\ port \in Ports /\ port # "console" /\ port # "review_router"
      /\ x \in Task /\ x.name = port /\ x \in {Look(port), Make(port)}
  BY <1>1, Tasks DEF Ports, Doing
<1>3. /\ todo \in Seq(Task) /\ todo # << >> /\ Head(todo) = x /\ Tail(todo) = after /\ Bound(todo)
  BY <1>1, <1>2, ThenSplits, ThenBound
<1>4. Kept(held, port) \in Nat /\ Took(held, port) = And(held, port)
  BY <1>1, <1>2, Takes
<1>5. Opened(port, after) = Then(Make(port), after)
  BY Opens
<1>6. AtSimple(port, before, after, before, Then(Make(port), after))
  BY DEF AtSimple, Doing
<1> QED
  BY <1>1, <1>2, <1>3, <1>4, <1>5, <1>6 DEF Supplied, Leads

LEMMA ConsoleLeads ==
    ASSUME NEW before \in Seq(Ports), NEW after \in Seq(Task), Bound(after), NEW held, NEW todo,
           AtConsole(before, after, held, todo)
    PROVE  /\ Supplied(held, todo)
           /\ \A h, d : Leads(held, todo, h, d) =>
                AtConsole(before, after, h, d) \/ (h = And(before, "console") /\ d = after)
<1> DEFINE made  == Then(Make("console"), after)
           asked == Then(Look("audit"), made)
           more  == And(before, "review_store")
<1>1. /\ Look("console") \in Task /\ Make("console") \in Task /\ Look("audit") \in Task
      /\ Look("audit").name = "audit" /\ Look("console").name = "console"
      /\ Make("console").name = "console" /\ Look("console").step = "look"
      /\ Make("console").step = "fill" /\ Look("audit") \in Doing("audit")
      /\ Look("review_store") \in Doing("review_store")
      /\ "console" \in Ports /\ "audit" \in Ports /\ "review_store" \in Ports
  BY Tasks DEF Ports, Doing
<1>2. made \in Seq(Task) /\ Bound(made) /\ asked \in Seq(Task) /\ Bound(asked)
  BY <1>1, ThenSplits, ThenBound
<1>3. more \in Seq(Ports) /\ And(more, "audit") \in Seq(Ports)
  BY <1>1, Takes
<1>4. CASE held = before /\ todo = Then(Look("console"), after)
  <2>1. /\ todo \in Seq(Task) /\ todo # << >> /\ Head(todo) = Look("console")
        /\ Tail(todo) = after /\ Bound(todo)
    BY <1>1, <1>4, ThenSplits, ThenBound
  <2>2. Opened("console", after) = Then(Look("review_store"), asked)
    BY Opens
  <2>3. AtConsole(before, after, before, Then(Look("review_store"), asked))
    BY <1>1 DEF AtConsole, AtSimple
  <2> QED
    BY <1>1, <1>4, <2>1, <2>2, <2>3 DEF Supplied, Leads
<1>5. CASE AtSimple("review_store", before, asked, held, todo)
  <2> HIDE DEF asked, more
  <2>1. Supplied(held, todo)
    BY <1>2, <1>5, SimpleLeads
  <2>2. \A h, d : Leads(held, todo, h, d) =>
          AtSimple("review_store", before, asked, h, d) \/ (h = more /\ d = asked)
    BY <1>2, <1>5, SimpleLeads DEF more
  <2>3. AtSimple("audit", more, made, more, asked)
    BY <1>1 DEF AtSimple, asked
  <2> QED
    BY <2>1, <2>2, <2>3 DEF AtConsole, asked, more
<1>6. CASE AtSimple("audit", more, made, held, todo)
  <2> HIDE DEF made, more
  <2>1. Supplied(held, todo)
    BY <1>2, <1>3, <1>6, SimpleLeads
  <2>2. \A h, d : Leads(held, todo, h, d) =>
          AtSimple("audit", more, made, h, d) \/ (h = And(more, "audit") /\ d = made)
    BY <1>2, <1>3, <1>6, SimpleLeads
  <2> QED
    BY <2>1, <2>2 DEF AtConsole, made, more
<1>7. CASE held = And(more, "audit") /\ todo = made
  <2>1. /\ todo \in Seq(Task) /\ todo # << >> /\ Head(todo) = Make("console")
        /\ Tail(todo) = after /\ Bound(todo)
    BY <1>1, <1>2, <1>7, ThenSplits, ThenBound
  <2>2. /\ Kept(held, "console") \in Nat /\ Took(held, "console") = And(before, "console")
        /\ Parts(held, "console") = Needs("console")
    BY <1>1, <1>7, Takes
  <2> QED
    BY <1>1, <1>3, <1>7, <2>1, <2>2 DEF Supplied, Leads
<1> QED
  BY <1>4, <1>5, <1>6, <1>7 DEF AtConsole

LEMMA CaseLeads ==
    ASSUME NEW held, NEW todo, AtCase(held, todo)
    PROVE  /\ Supplied(held, todo)
           /\ \A h, d : Leads(held, todo, h, d) =>
                AtCase(h, d) \/ (h = And(Both, "review_router") /\ d = << >>)
<1> DEFINE asked == Then(Look("audit"), Routed)
           one   == And(<< >>, "case_store")
           made  == Then(Make("review_router"), << >>)
<1>1. /\ Look("review_router") \in Task /\ Make("review_router") \in Task /\ Look("audit") \in Task
      /\ Look("audit").name = "audit" /\ Look("review_router").name = "review_router"
      /\ Look("review_router").step = "look" /\ Make("review_router").name = "review_router"
      /\ Make("review_router").step = "fill" /\ Look("audit") \in Doing("audit")
      /\ "console" \in Ports /\ "audit" \in Ports /\ "case_store" \in Ports /\ "review_router" \in Ports
  BY Tasks DEF Ports, Doing
<1>2. << >> \in Seq(Task) /\ Bound(<< >>) /\ << >> \in Seq(Ports)
  BY DEF Bound, PortsFrom
<1>3. /\ Routed \in Seq(Task) /\ Bound(Routed) /\ made \in Seq(Task) /\ Bound(made)
  BY <1>1, <1>2, ThenSplits, ThenBound DEF Routed
<1>4. asked \in Seq(Task) /\ Bound(asked)
  BY <1>1, <1>3, ThenSplits, ThenBound
<1>5. one \in Seq(Ports) /\ Both \in Seq(Ports)
  BY <1>1, <1>2, Takes DEF Both
<1>6. CASE AtSimple("case_store", << >>, asked, held, todo)
  <2> HIDE DEF asked, one
  <2>1. Supplied(held, todo)
    BY <1>2, <1>4, <1>6, SimpleLeads
  <2>2. \A h, d : Leads(held, todo, h, d) =>
          AtSimple("case_store", << >>, asked, h, d) \/ (h = one /\ d = asked)
    BY <1>2, <1>4, <1>6, SimpleLeads DEF one
  <2>3. AtSimple("audit", one, Routed, one, asked)
    BY <1>1 DEF AtSimple, asked
  <2> QED
    BY <2>1, <2>2, <2>3 DEF AtCase, asked, one
<1>7. CASE AtSimple("audit", one, Routed, held, todo)
  <2> HIDE DEF one
  <2>1. Supplied(held, todo)
    BY <1>3, <1>5, <1>7, SimpleLeads
  <2>2. \A h, d : Leads(held, todo, h, d) =>
          AtSimple("audit", one, Routed, h, d) \/ (h = Both /\ d = Routed)
    BY <1>3, <1>5, <1>7, SimpleLeads DEF one, Both
  <2> QED
    BY <2>1, <2>2 DEF AtCase, one
<1>8. CASE held = Both /\ todo = Routed
  <2>1. /\ todo \in Seq(Task) /\ todo # << >> /\ Head(todo) = Look("review_router")
        /\ Tail(todo) = << >> /\ Bound(todo)
    BY <1>1, <1>2, <1>3, <1>8, ThenSplits, ThenBound DEF Routed
  <2>2. Opened("review_router", << >>) = Then(Look("console"), made)
    BY <1>2, Opens
  <2>3. AtConsole(Both, made, Both, Then(Look("console"), made))
    BY DEF AtConsole
  <2> QED
    BY <1>1, <1>5, <1>8, <2>1, <2>2, <2>3 DEF Supplied, Leads, AtCase
<1>9. CASE AtConsole(Both, made, held, todo)
  <2> HIDE DEF made
  <2>1. Supplied(held, todo)
    BY <1>3, <1>5, <1>9, ConsoleLeads
  <2>2. \A h, d : Leads(held, todo, h, d) =>
          AtConsole(Both, made, h, d) \/ (h = And(Both, "console") /\ d = made)
    BY <1>3, <1>5, <1>9, ConsoleLeads
  <2> QED
    BY <2>1, <2>2 DEF AtCase, made
<1>10. CASE held = And(Both, "console") /\ todo = made
  <2>1. /\ todo \in Seq(Task) /\ todo # << >> /\ Head(todo) = Make("review_router")
        /\ Tail(todo) = << >> /\ Bound(todo)
    BY <1>1, <1>2, <1>3, <1>10, ThenSplits, ThenBound
  <2>2. /\ Kept(held, "review_router") \in Nat
        /\ Took(held, "review_router") = And(Both, "review_router")
        /\ Parts(held, "review_router") = Needs("review_router") /\ held \in Seq(Ports)
    BY <1>1, <1>5, <1>10, Takes
  <2> QED
    BY <1>1, <2>1, <2>2 DEF Supplied, Leads
<1> QED
  BY <1>6, <1>7, <1>8, <1>9, <1>10 DEF AtCase

LEMMA ToHaveIsBound ==
    ASSUME NEW route \in Routes
    PROVE  /\ ToHave(route) \in Seq(Task) /\ Bound(ToHave(route)) /\ NoFills(ToHave(route))
           /\ At(route, << >>, ToHave(route))
<1>1. << >> \in Seq(Task) /\ Bound(<< >>) /\ NoFills(<< >>)
  BY DEF Bound, PortsFrom, NoFills
<1>2. \A n \in Ports : Look(n) \in Task /\ Look(n).name = n /\ Look(n).step = "look"
  BY Tasks DEF Doing
<1>3. "console" \in Ports /\ "audit" \in Ports /\ "case_store" \in Ports /\ "review_router" \in Ports
  BY DEF Ports
<1>4. Routed \in Seq(Task) /\ Bound(Routed) /\ NoFills(Routed)
  BY <1>1, <1>2, <1>3, ThenSplits, ThenBound, ThenFills DEF Routed
<1>5. CASE route = "cases"
  <2> DEFINE asked == Then(Look("audit"), Routed)
  <2>1. asked \in Seq(Task) /\ Bound(asked) /\ NoFills(asked)
    BY <1>2, <1>3, <1>4, ThenSplits, ThenBound, ThenFills
  <2> HIDE DEF asked
  <2>2. ToHave(route) = Then(Look("case_store"), asked)
    BY <1>5 DEF ToHave, asked
  <2>3. AtSimple("case_store", << >>, asked, << >>, ToHave(route))
    BY <2>2 DEF AtSimple, Doing
  <2> QED
    <3>1. ToHave(route) \in Seq(Task) /\ Bound(ToHave(route)) /\ NoFills(ToHave(route))
      BY <1>2, <1>3, <2>1, <2>2, ThenSplits, ThenBound, ThenFills
    <3>2. At(route, << >>, ToHave(route))
      BY <1>5, <2>3 DEF At, AtCase, asked
    <3> QED
      BY <3>1, <3>2
<1>6. CASE route # "cases"
  <2>1. ToHave(route) = Then(Look("console"), << >>)
    BY <1>6 DEF ToHave
  <2>2. AtConsole(<< >>, << >>, << >>, ToHave(route))
    BY <2>1 DEF AtConsole
  <2> QED
    <3>1. ToHave(route) \in Seq(Task) /\ Bound(ToHave(route)) /\ NoFills(ToHave(route))
      BY <1>1, <1>2, <1>3, <2>1, ThenSplits, ThenBound, ThenFills
    <3>2. At(route, << >>, ToHave(route))
      BY <1>6, <2>2 DEF At
    <3> QED
      BY <3>1, <3>2
<1> QED
  BY <1>5, <1>6

(* Before the container is there, nothing is held and nothing filled in.   *)
LEMMA ContainerPlaces ==
    ASSUME NEW route \in Routes, NEW held, NEW todo, AtContainer(route, held, todo)
    PROVE  /\ held = << >> /\ todo \in Seq(Task) /\ todo # << >>
           /\ Head(todo).name = "_container" /\ NoFills(Tail(todo))
           /\ At(route, held, Tail(todo))
           /\ At(route, held, [todo EXCEPT ![1].step = "fill"])
           /\ Head([todo EXCEPT ![1].step = "fill"]).name = "_container"
<1>1. PICK rest \in {ToHave(route), Then(LookUp, ToHave(route))},
           x \in Doing("_container") : held = << >> /\ todo = Then(x, rest)
  BY DEF AtContainer, AtSimple
<1>2. LookUp \in Task /\ LookUp.name = "_container" /\ LookUp.step = "look" /\ LookUp \in Doing("_container")
  BY DEF LookUp, Task, Doing, Look
<1>3. rest \in Seq(Task) /\ NoFills(rest)
  BY <1>1, <1>2, ThenSplits, ThenFills, ToHaveIsBound
<1>4. At(route, << >>, rest)
  <2>1. AtSimple("_container", << >>, ToHave(route), << >>, Then(LookUp, ToHave(route)))
    BY <1>2 DEF AtSimple
  <2> QED
    BY <1>1, <2>1, ToHaveIsBound DEF At, AtContainer
<1>5. x \in Task /\ x.name = "_container"
  BY Tasks DEF Doing
<1>6. todo \in Seq(Task) /\ todo # << >> /\ Head(todo) = x /\ Tail(todo) = rest
        /\ [todo EXCEPT ![1].step = "fill"] = Then(Make("_container"), rest)
  BY <1>1, <1>3, <1>5, ThenSplits, ThenMakes
<1>7. At(route, << >>, Then(Make("_container"), rest))
  BY <1>1 DEF At, AtContainer, AtSimple, Doing
<1>8. Head(Then(Make("_container"), rest)).name = "_container"
  BY <1>3, Tasks, ThenSplits DEF Doing
<1> QED
  BY <1>1, <1>3, <1>4, <1>5, <1>6, <1>7, <1>8

LEMMA PortPlaces ==
    ASSUME NEW route \in Routes, NEW held, NEW todo, At(route, held, todo), todo # << >>
    PROVE  \/ AtContainer(route, held, todo)
           \/ /\ Supplied(held, todo)
              /\ \A h, d : Leads(held, todo, h, d) => At(route, h, d)
<1>1. CASE route = "cases" /\ AtCase(held, todo)
  BY <1>1, CaseLeads DEF At, Has
<1>2. CASE route # "cases" /\ AtConsole(<< >>, << >>, held, todo)
  <2>1. << >> \in Seq(Task) /\ Bound(<< >>) /\ << >> \in Seq(Ports)
    BY DEF Bound, PortsFrom
  <2>2. /\ Supplied(held, todo)
        /\ \A h, d : Leads(held, todo, h, d) =>
             AtConsole(<< >>, << >>, h, d) \/ (h = And(<< >>, "console") /\ d = << >>)
    BY <1>2, <2>1, ConsoleLeads
  <2>3. Has(route) = And(<< >>, "console")
    BY <1>2 DEF Has
  <2> QED
    BY <1>2, <2>2, <2>3, Zenon DEF At
<1> QED
  BY <1>1, <1>2 DEF At

(* The next task decides which of the two it is.                           *)
LEMMA PlaceByTask ==
    ASSUME NEW route \in Routes, NEW held, NEW todo, At(route, held, todo), todo # << >>
    PROVE  /\ todo \in Seq(Task) /\ Head(todo) \in Task
           /\ Head(todo).name = "_container" => AtContainer(route, held, todo)
           /\ Head(todo).name \in Ports =>
                Supplied(held, todo) /\ \A h, d : Leads(held, todo, h, d) => At(route, h, d)
<1>1. ASSUME AtContainer(route, held, todo)
      PROVE  todo \in Seq(Task) /\ Head(todo) \in Task /\ Head(todo).name \notin Ports
  <2>1. todo \in Seq(Task) /\ Head(todo).name = "_container"
    BY <1>1, ContainerPlaces
  <2>2. Head(todo) \in Task
    BY <2>1
  <2> QED
    BY <2>1, <2>2, NoPortIsContainer
<1>2. Supplied(held, todo) =>
        todo \in Seq(Task) /\ Head(todo) \in Task /\ Head(todo).name # "_container"
  BY TailOfTasks, NextTask, NoPortIsContainer DEF Supplied
<1> QED
  BY <1>1, <1>2, PortPlaces

LEMMA PortsOfInstances ==
    ASSUME NEW values \in Seq(Instances)
    PROVE  /\ PortsOf(values) \in Seq(Ports) /\ Len(PortsOf(values)) = Len(values)
           /\ \A i \in 1..Len(values) : PortsOf(values)[i] = values[i].port
           /\ \A x \in Instances : PortsOf(Append(values, x)) = And(PortsOf(values), x.port)
           /\ \A k \in 0..Len(values) :
                /\ SubSeq(values, 1, k) \in Seq(Instances)
                /\ PortsOf(SubSeq(values, 1, k)) = SubSeq(PortsOf(values), 1, k)
<1>1. \A x \in Instances : x.port \in Ports
  BY DEF Instances, Instance, Ports
<1>2. ASSUME NEW v \in Seq(Instances)
      PROVE  PortsOf(v) \in Seq(Ports) /\ Len(PortsOf(v)) = Len(v) /\ Len(v) \in Nat
               /\ \A i \in 1..Len(v) : PortsOf(v)[i] = v[i].port
  <2> HIDE DEF Instances, Ports
  <2>1. \A i \in 1..Len(v) : v[i] \in Instances
    OBVIOUS
  <2> QED
    BY <1>1, <2>1 DEF PortsOf
<1>3. ASSUME NEW x \in Instances
      PROVE  PortsOf(Append(values, x)) = And(PortsOf(values), x.port)
  <2> HIDE DEF Instances, Ports
  <2> DEFINE p == PortsOf(Append(values, x))
             q == And(PortsOf(values), x.port)
  <2>1. PICK a \in Seq(Instances) :
          /\ a = Append(values, x) /\ Len(a) = Len(values) + 1 /\ a[Len(values) + 1] = x
          /\ \A i \in 1..Len(values) : a[i] = values[i]
    <3>1. /\ Append(values, x) \in Seq(Instances) /\ Len(Append(values, x)) = Len(values) + 1
          /\ Append(values, x)[Len(values) + 1] = x
          /\ \A i \in 1..Len(values) : Append(values, x)[i] = values[i]
      OBVIOUS
    <3> QED
      BY <3>1, Zenon
  <2>2. /\ p \in Seq(Ports) /\ Len(p) = Len(values) + 1 /\ p[Len(values) + 1] = x.port
        /\ \A i \in 1..Len(values) : p[i] = values[i].port
    <3>1. /\ PortsOf(a) \in Seq(Ports) /\ Len(PortsOf(a)) = Len(a) /\ Len(values) \in Nat
          /\ \A i \in 1..Len(a) : PortsOf(a)[i] = a[i].port
      BY <1>2
    <3>2. Len(values) + 1 \in 1..Len(a) /\ \A i \in 1..Len(values) : i \in 1..Len(a)
      BY <2>1, <3>1
    <3> QED
      BY <2>1, <3>1, <3>2
  <2>3. /\ q \in Seq(Ports) /\ Len(q) = Len(values) + 1 /\ q[Len(values) + 1] = x.port
        /\ \A i \in 1..Len(values) : q[i] = values[i].port
    BY <1>1, <1>2 DEF And
  <2> HIDE DEF p, q
  <2>4. p = q
    BY <1>2, <2>2, <2>3
  <2> QED
    BY <2>4 DEF p, q
<1>4. ASSUME NEW k \in 0..Len(values)
      PROVE  /\ SubSeq(values, 1, k) \in Seq(Instances)
             /\ PortsOf(SubSeq(values, 1, k)) = SubSeq(PortsOf(values), 1, k)
  <2> HIDE DEF Instances, Ports
  <2> DEFINE p == PortsOf(SubSeq(values, 1, k))
             q == SubSeq(PortsOf(values), 1, k)
  <2>1. /\ SubSeq(values, 1, k) \in Seq(Instances) /\ Len(SubSeq(values, 1, k)) = k
        /\ \A i \in 1..k : SubSeq(values, 1, k)[i] = values[i]
    BY <1>2
  <2>2. p \in Seq(Ports) /\ Len(p) = k /\ \A i \in 1..k : p[i] = values[i].port
    BY <1>2, <2>1
  <2>3. q \in Seq(Ports) /\ Len(q) = k /\ \A i \in 1..k : q[i] = values[i].port
    BY <1>2
  <2> HIDE DEF p, q
  <2>4. p = q
    BY <2>2, <2>3
  <2> QED
    BY <2>1, <2>4 DEF p, q
<1> QED
  BY <1>2, <1>3, <1>4

(* What a console and a router are made of are instances of their parts.   *)
LEMMA MadeOfParts ==
    ASSUME NEW values \in Seq(Instances), NEW port \in Ports, NEW c \in Nat, NEW n \in Nat,
           Kept(PortsOf(values), port) \in Nat,
           port \in {"console", "review_router"} => Parts(PortsOf(values), port) = Needs(port)
    PROVE  LET kept == Len(values) - Len(Needs(port))
           IN  /\ kept \in 0..Len(values)
               /\ [ container |-> c, port |-> port, no |-> n,
                    parts |-> SubSeq(values, kept + 1, Len(values)) ] \in Instances
<1> DEFINE kept  == Len(values) - Len(Needs(port))
           parts == SubSeq(values, kept + 1, Len(values))
           held  == PortsOf(values)
<1>1. /\ held \in Seq(Ports) /\ Len(held) = Len(values) /\ Len(values) \in Nat
      /\ \A i \in 1..Len(values) : held[i] = values[i].port
  <2> HIDE DEF Instances
  <2> QED
    BY PortsOfInstances
<1>2. kept = Kept(held, port) /\ kept \in Nat
  BY <1>1 DEF Kept
<1>3. Len(Needs(port)) \in Nat
  BY DEF Needs
<1>4. kept \in 0..Len(values) /\ Len(values) - kept = Len(Needs(port))
  <2>1. \A k : k \in Nat /\ Len(values) - k \in Nat =>
          Len(values) - k \in 0..Len(values) /\ Len(values) - (Len(values) - k) = k
    BY <1>1
  <2> QED
    BY <1>2, <1>3, <2>1, Zenon
<1> HIDE DEF kept
<1>5. /\ parts \in Seq(Instances) /\ Len(parts) = Len(Needs(port))
      /\ \A i \in 1..Len(parts) : parts[i] = values[kept + i] /\ parts[i] \in Instances
  <2> HIDE DEF Instances, Needs
  <2>1. /\ parts \in Seq(Instances) /\ Len(parts) = Len(values) - kept
        /\ \A i \in 1..Len(parts) : parts[i] = values[kept + i] /\ parts[i] \in Instances
    BY <1>1, <1>4
  <2> QED
    BY <1>4, <2>1
<1>6. port \in {"console", "review_router"} =>
        \A i \in 1..Len(parts) : parts[i].port = Needs(port)[i]
  <2> SUFFICES ASSUME port \in {"console", "review_router"}, NEW i \in 1..Len(parts)
               PROVE  parts[i].port = Needs(port)[i]
    OBVIOUS
  <2>1. Needs(port) = SubSeq(held, kept + 1, Len(held))
    BY <1>2 DEF Parts
  <2>2. SubSeq(held, kept + 1, Len(held))[i] = held[kept + i] /\ kept + i \in 1..Len(values)
    BY <1>1, <1>3, <1>4, <1>5
  <2> QED
    BY <1>1, <1>5, <2>1, <2>2
<1> DEFINE simple  == Instance({"case_store", "audit", "review_store"}, {<< >>})
           console == Instance({"console"}, Seq(simple))
           made    == [container |-> c, port |-> port, no |-> n, parts |-> parts]
<1>7. \A x \in Instances :
        /\ x.port \in {"review_store", "audit"} => x \in simple
        /\ x.port = "console" => x \in console
  BY DEF Instances, Instance
<1>8. made \in Instances
  <2> HIDE DEF parts
  <2>1. CASE port = "console"
    <3>1. Len(parts) = 2 /\ Needs(port)[1] = "review_store" /\ Needs(port)[2] = "audit"
      BY <1>5, <2>1 DEF Needs
    <3>2. \A i \in 1..Len(parts) : parts[i] \in simple
      <4> SUFFICES ASSUME NEW i \in 1..Len(parts)
                   PROVE  parts[i] \in simple
        OBVIOUS
      <4>1. i = 1 \/ i = 2
        BY <3>1
      <4>2. parts[i].port = Needs("console")[i]
        BY <1>6, <2>1
      <4> HIDE DEF simple, console
      <4> QED
        BY <1>5, <1>7, <2>1, <3>1, <4>1, <4>2
    <3>3. parts \in Seq(simple)
      BY <1>5, <3>2
    <3>4. made \in console
      BY <2>1, <3>3 DEF Instance
    <3> QED
      BY <3>4 DEF Instances
  <2>2. CASE port = "review_router"
    <3>1. Len(parts) = 1 /\ Needs(port)[1] = "console"
      BY <1>5, <2>2 DEF Needs
    <3>2. \A i \in 1..Len(parts) : parts[i] \in console
      BY <1>5, <1>6, <1>7, <2>2, <3>1
    <3>3. parts \in Seq(console)
      BY <1>5, <3>2
    <3>4. made \in Instance({"review_router"}, Seq(console))
      BY <2>2, <3>3 DEF Instance
    <3> QED
      BY <3>4 DEF Instances
  <2>3. CASE port \notin {"console", "review_router"}
    <3>1. port \in {"case_store", "audit", "review_store"} /\ Len(parts) = 0
      BY <1>5, <2>3 DEF Needs, Ports
    <3>2. parts = << >>
      BY <1>5, <3>1
    <3>3. made \in simple
      BY <3>1, <3>2 DEF Instance
    <3> QED
      BY <3>3 DEF Instances
  <2> QED
    BY <2>1, <2>2, <2>3
<1> QED
  BY <1>4, <1>8 DEF kept

(* The moves of one thread, by what becomes of it.                         *)
Becomes(t, c, d, v) ==
    thread' = [thread EXCEPT ![t] = [thread[t] EXCEPT !.container = c, !.todo = d, !.values = v]]

LEMMA BecomesInFull ==
    ASSUME CInv, NEW t \in Threads, thread[t] # Idle, NEW c, NEW d, NEW v, Becomes(t, c, d, v)
    PROVE  /\ \A u \in Threads : u # t => thread'[u] = thread[u]
           /\ thread'[t].container = c /\ thread'[t].todo = d /\ thread'[t].values = v
           /\ thread'[t].route = thread[t].route /\ thread'[t].warm = thread[t].warm
           /\ thread'[t].id = thread[t].id
<1>1. thread[t] = [f \in Fields |-> thread[t][f]] /\ thread = [u \in Threads |-> thread[u]]
  BY DEF CInv, Shaped
<1>2. thread'[t] = [thread[t] EXCEPT !.container = c, !.todo = d, !.values = v]
        /\ \A u \in Threads : u # t => thread'[u] = thread[u]
  BY <1>1 DEF Becomes
<1> QED
  BY <1>1, <1>2 DEF Fields

LEMMA LookContainerMoves ==
    ASSUME CInv, NEW t \in Threads, LookContainer(t)
    PROVE  \/ cache # None /\ Becomes(t, cache, Tail(thread[t].todo), thread[t].values)
           \/ cache = None /\ Becomes(t, thread[t].container,
                                     [thread[t].todo EXCEPT ![1].step = "fill"], thread[t].values)
<1>1. thread[t] = [f \in Fields |-> thread[t][f]] /\ thread = [u \in Threads |-> thread[u]]
  BY DEF CInv, Shaped, LookContainer, Working
<1> QED
  BY <1>1 DEF LookContainer, Becomes, Fields

LEMMA FillContainerMoves ==
    ASSUME CInv, NEW t \in Threads, FillContainer(t)
    PROVE  Becomes(t, built', Tail(thread[t].todo), thread[t].values)
<1>1. thread[t] = [f \in Fields |-> thread[t][f]] /\ thread = [u \in Threads |-> thread[u]]
  BY DEF CInv, Shaped, FillContainer, Working
<1> QED
  BY <1>1 DEF FillContainer, Becomes, Fields

LEMMA LookPortMoves ==
    ASSUME CInv, NEW t \in Threads, LookPort(t)
    PROVE  LET old  == thread[t]
               port == Upcoming(t).name
           IN  \/ \E i \in Attr(old.container, port) :
                    Becomes(t, old.container, Tail(old.todo), Append(old.values, i))
               \/ /\ Attr(old.container, port) = {}
                  /\ Becomes(t, old.container, Opened(port, Tail(old.todo)), old.values)
<1>1. thread[t] = [f \in Fields |-> thread[t][f]] /\ thread = [u \in Threads |-> thread[u]]
  BY DEF CInv, Shaped, LookPort, Working
<1> QED
  BY <1>1 DEF LookPort, Becomes, Fields, Opened, Make

LEMMA FillPortMoves ==
    ASSUME CInv, NEW t \in Threads, FillPort(t)
    PROVE  LET old  == thread[t]
               port == Upcoming(t).name
               kept == Len(old.values) - Len(Needs(port))
               made == [ container |-> old.container, port |-> port, no |-> built + 1,
                         parts |-> SubSeq(old.values, kept + 1, Len(old.values)) ]
           IN  /\ attrs' = (attrs \ Attr(old.container, port)) \cup {made}
               /\ Becomes(t, old.container, Tail(old.todo), Append(SubSeq(old.values, 1, kept), made))
<1>1. thread[t] = [f \in Fields |-> thread[t][f]] /\ thread = [u \in Threads |-> thread[u]]
  BY DEF CInv, Shaped, FillPort, Working
<1> QED
  BY <1>1 DEF FillPort, Becomes, Fields

-----------------------------------------------------------------------------
LEMMA ThenElements ==
    ASSUME NEW x \in Task, NEW rest \in Seq(Task), NEW n \in {0, 1, 2, 3, 4}, Len(rest) = n
    PROVE  /\ Then(x, rest) \in Seq(Task) /\ Len(Then(x, rest)) = n + 1 /\ Then(x, rest)[1] = x
           /\ n >= 1 => Then(x, rest)[2] = rest[1]
           /\ n >= 2 => Then(x, rest)[3] = rest[2]
           /\ n >= 3 => Then(x, rest)[4] = rest[3]
           /\ n >= 4 => Then(x, rest)[5] = rest[4]
<1> DEFINE s == Then(x, rest)
<1>1. /\ s \in Seq(Task) /\ Len(s) = n + 1 /\ s[1] = x
      /\ \A i \in 2..(n + 1) : s[i] = rest[i - 1]
  BY DEF Then
<1> HIDE DEF s
<1>2. /\ n >= 1 => s[2] = rest[1]
      /\ n >= 2 => s[3] = rest[2]
      /\ n >= 3 => s[4] = rest[3]
      /\ n >= 4 => s[5] = rest[4]
  BY <1>1
<1> QED
  BY <1>1, <1>2 DEF s

LEMMA ThenAlone ==
    ASSUME NEW x \in Task
    PROVE  Then(x, << >>) \in Seq(Task) /\ Len(Then(x, << >>)) = 1 /\ Then(x, << >>)[1] = x
BY DEF Then

(* A handler starts by asking for the container. *)
LEMMA StartsAtContainer ==
    ASSUME NEW route \in Routes
    PROVE  /\ AtContainer(route, << >>, Looking(Lookups(route)))
           /\ NoFills(Looking(Lookups(route)))
<1>1. LookUp = Look("_container") /\ LookUp \in Doing("_container") /\ LookUp \in Task
  BY DEF LookUp, Look, Doing, Task
<1>2. \A n \in Ports : Look(n) \in Task
  BY Tasks DEF Doing
<1>3. NoFills(Looking(Lookups(route)))
  BY DEF NoFills, Looking
<1>5. CASE route = "cases"
  <2> DEFINE s1 == Then(Look("review_router"), << >>)
             s2 == Then(Look("audit"), s1)
             s3 == Then(Look("case_store"), s2)
             s4 == Then(LookUp, s3)
             s5 == Then(LookUp, s4)
             s  == Looking(Lookups(route))
  <2>1. /\ Look("review_router") \in Task /\ Look("audit") \in Task /\ Look("case_store") \in Task
    BY <1>2 DEF Ports
  <2>2. s1 \in Seq(Task) /\ Len(s1) = 1 /\ s1[1] = Look("review_router")
    BY <2>1, ThenAlone
  <2> HIDE DEF s1
  <2>3. s2 \in Seq(Task) /\ Len(s2) = 2 /\ s2[1] = Look("audit") /\ s2[2] = s1[1]
    BY <2>1, <2>2, ThenElements
  <2> HIDE DEF s2
  <2>4. s3 \in Seq(Task) /\ Len(s3) = 3 /\ s3[1] = Look("case_store") /\ s3[2] = s2[1] /\ s3[3] = s2[2]
    BY <2>1, <2>3, ThenElements
  <2> HIDE DEF s3
  <2>5. /\ s4 \in Seq(Task) /\ Len(s4) = 4 /\ s4[1] = LookUp
        /\ s4[2] = s3[1] /\ s4[3] = s3[2] /\ s4[4] = s3[3]
    BY <1>1, <2>4, ThenElements
  <2> HIDE DEF s4
  <2>6. /\ s5 \in Seq(Task) /\ Len(s5) = 5 /\ s5[1] = LookUp
        /\ s5[2] = s4[1] /\ s5[3] = s4[2] /\ s5[4] = s4[3] /\ s5[5] = s4[4]
    BY <1>1, <2>5, ThenElements
  <2> HIDE DEF s5
  <2>7. /\ s \in Seq(Task) /\ Len(s) = 5 /\ s[1] = LookUp /\ s[2] = LookUp
        /\ s[3] = Look("case_store") /\ s[4] = Look("audit") /\ s[5] = Look("review_router")
    BY <1>5 DEF Looking, Lookups, Look, LookUp, Task, Ports
  <2> HIDE DEF s
  <2>8. s = s5
    <3>1. \A i \in 1..5 : i \in {1, 2, 3, 4, 5}
      OBVIOUS
    <3>2. \A i \in 1..5 : s[i] = s5[i]
      BY <2>2, <2>3, <2>4, <2>5, <2>6, <2>7, <3>1
    <3> QED
      BY <2>6, <2>7, <3>2
  <2>9. s3 = ToHave(route)
    BY <1>5 DEF ToHave, Routed, s1, s2, s3
  <2> QED
    BY <1>1, <1>3, <2>8, <2>9 DEF AtContainer, AtSimple, s, s4, s5
<1>6. CASE route # "cases"
  <2> DEFINE s1 == Then(Look("console"), << >>)
             s2 == Then(LookUp, s1)
             s3 == Then(LookUp, s2)
             s  == Looking(Lookups(route))
  <2>1. Look("console") \in Task
    BY <1>2 DEF Ports
  <2>2. s1 \in Seq(Task) /\ Len(s1) = 1 /\ s1[1] = Look("console")
    BY <2>1, ThenAlone
  <2> HIDE DEF s1
  <2>3. s2 \in Seq(Task) /\ Len(s2) = 2 /\ s2[1] = LookUp /\ s2[2] = s1[1]
    BY <1>1, <2>2, ThenElements
  <2> HIDE DEF s2
  <2>4. s3 \in Seq(Task) /\ Len(s3) = 3 /\ s3[1] = LookUp /\ s3[2] = s2[1] /\ s3[3] = s2[2]
    BY <1>1, <2>3, ThenElements
  <2> HIDE DEF s3
  <2>5. CASE route = "reviews"
    <3>1. /\ s \in Seq(Task) /\ Len(s) = 3 /\ s[1] = LookUp /\ s[2] = LookUp /\ s[3] = Look("console")
      BY <2>5 DEF Looking, Lookups, Look, LookUp, Task, Ports
    <3> HIDE DEF s
    <3>2. s = s3
      BY <2>2, <2>3, <2>4, <3>1
    <3> QED
      BY <1>1, <1>3, <1>6, <3>2 DEF AtContainer, AtSimple, ToHave, s, s1, s2, s3
  <2>6. CASE route = "service_reviews"
    <3>1. s \in Seq(Task) /\ Len(s) = 2 /\ s[1] = LookUp /\ s[2] = Look("console")
      BY <2>6 DEF Looking, Lookups, Look, LookUp, Task, Ports
    <3> HIDE DEF s
    <3>2. s = s2
      BY <2>2, <2>3, <3>1
    <3> QED
      BY <1>1, <1>3, <1>6, <3>2 DEF AtContainer, AtSimple, ToHave, s, s1, s2
  <2> QED
    BY <1>6, <2>5, <2>6 DEF Routes
<1> QED
  BY <1>5, <1>6

LEMMA OneTakesPlace ==
    ASSUME CInv, Places, NEW t \in Threads, thread[t] # Idle, NEW c, NEW d, NEW v,
           Becomes(t, c, d, v), v \in Seq(Instances), At(thread[t].route, PortsOf(v), d),
           d # << >> /\ Head(d).name \in Ports => c \in Nat,
           cache' \in Nat \cup {None}, attrs' \subseteq Instances
    PROVE  Places'
<1>1. /\ \A u \in Threads : u # t => thread'[u] = thread[u]
      /\ thread'[t].container = c /\ thread'[t].todo = d /\ thread'[t].values = v
      /\ thread'[t].route = thread[t].route
  BY BecomesInFull
<1>2. Standing(thread'[t])
  BY <1>1 DEF Places, Standing
<1>3. \A u \in Threads : Standing(thread'[u])
  BY <1>1, <1>2 DEF Places
<1> QED
  BY <1>3 DEF Places

(* Where a busy thread stands, in the terms of the lemmas above.           *)
LEMMA WhereItIs ==
    ASSUME Places, NEW t \in Threads, NEW step, Working(t, step)
    PROVE  LET th   == thread[t]
               held == PortsOf(th.values)
           IN  /\ th # Idle /\ th.todo # << >> /\ th.route \in Routes /\ th.values \in Seq(Instances)
               /\ At(th.route, held, th.todo) /\ Head(th.todo).step = step
               /\ Upcoming(t) = Head(th.todo)
               /\ Head(th.todo).name \in Ports => th.container \in Nat
BY DEF Places, Standing, Working, Upcoming

LEMMA ContainerTakesPlace ==
    ASSUME CInv, Places, NEW t \in Threads, LookContainer(t) \/ FillContainer(t)
    PROVE  Places'
<1> DEFINE old  == thread[t]
           held == PortsOf(old.values)
<1>1. /\ old # Idle /\ old.todo # << >> /\ old.route \in Routes /\ old.values \in Seq(Instances)
      /\ At(old.route, held, old.todo) /\ Head(old.todo).name = "_container"
  BY WhereItIs DEF LookContainer, FillContainer
<1>2. /\ At(old.route, held, Tail(old.todo))
      /\ At(old.route, held, [old.todo EXCEPT ![1].step = "fill"])
      /\ Head([old.todo EXCEPT ![1].step = "fill"]).name \notin Ports
  <2>1. AtContainer(old.route, held, old.todo)
    BY <1>1, PlaceByTask
  <2> QED
    BY <1>1, <2>1, ContainerPlaces, NoPortIsContainer
<1>3. CASE LookContainer(t)
  <2>1. cache' = cache /\ attrs' = attrs
    BY <1>3 DEF LookContainer
  <2>2. CASE cache # None /\ Becomes(t, cache, Tail(old.todo), old.values)
    BY <1>1, <1>2, <2>1, <2>2, OneTakesPlace DEF Places
  <2>3. CASE Becomes(t, old.container, [old.todo EXCEPT ![1].step = "fill"], old.values)
    BY <1>1, <1>2, <2>1, <2>3, OneTakesPlace DEF Places
  <2> QED
    BY <1>3, <2>2, <2>3, LookContainerMoves
<1>4. CASE FillContainer(t)
  <2>1. built' \in Nat /\ attrs' = attrs /\ (cache' = cache \/ cache' = built')
    BY <1>4 DEF FillContainer, CInv
  <2>2. Becomes(t, built', Tail(old.todo), old.values)
    BY <1>4, FillContainerMoves
  <2> QED
    BY <1>1, <1>2, <2>1, <2>2, OneTakesPlace DEF Places
<1> QED
  BY <1>3, <1>4

LEMMA LookPortTakesPlace ==
    ASSUME CInv, Places, NEW t \in Threads, LookPort(t)
    PROVE  Places'
<1> DEFINE old  == thread[t]
           held == PortsOf(old.values)
           port == Upcoming(t).name
<1>1. /\ old # Idle /\ old.todo # << >> /\ old.route \in Routes /\ old.values \in Seq(Instances)
      /\ At(old.route, held, old.todo) /\ Head(old.todo).step = "look"
      /\ port = Head(old.todo).name /\ port \in Ports /\ old.container \in Nat
  BY WhereItIs DEF LookPort
<1>2. cache' = cache /\ attrs' = attrs
  BY DEF LookPort
<1>3. /\ At(old.route, And(held, port), Tail(old.todo))
      /\ At(old.route, held, Opened(port, Tail(old.todo)))
  BY <1>1, PlaceByTask DEF Leads
<1>4. ASSUME NEW i \in Attr(old.container, port),
             Becomes(t, old.container, Tail(old.todo), Append(old.values, i))
      PROVE  Places'
  <2>1. i \in Instances /\ i.port = port
    BY DEF Attr, Places
  <2>2. PortsOf(Append(old.values, i)) = And(held, port) /\ Append(old.values, i) \in Seq(Instances)
    BY <1>1, <2>1, PortsOfInstances
  <2> QED
    BY <1>1, <1>2, <1>3, <1>4, <2>2, OneTakesPlace DEF Places
<1>5. ASSUME Becomes(t, old.container, Opened(port, Tail(old.todo)), old.values)
      PROVE  Places'
  BY <1>1, <1>2, <1>3, <1>5, OneTakesPlace DEF Places
<1> QED
  BY <1>4, <1>5, LookPortMoves

LEMMA FillPortTakesPlace ==
    ASSUME CInv, Places, NEW t \in Threads, FillPort(t)
    PROVE  Places'
<1> DEFINE old  == thread[t]
           held == PortsOf(old.values)
           port == Upcoming(t).name
           kept == Len(old.values) - Len(Needs(port))
           made == [ container |-> old.container, port |-> port, no |-> built + 1,
                     parts |-> SubSeq(old.values, kept + 1, Len(old.values)) ]
           v    == Append(SubSeq(old.values, 1, kept), made)
<1>1. /\ old # Idle /\ old.todo # << >> /\ old.route \in Routes /\ old.values \in Seq(Instances)
      /\ At(old.route, held, old.todo) /\ Head(old.todo).step = "fill"
      /\ port = Head(old.todo).name /\ port \in Ports /\ old.container \in Nat
  BY WhereItIs DEF FillPort
<1>2. cache' = cache /\ attrs' = (attrs \ Attr(old.container, port)) \cup {made}
        /\ Becomes(t, old.container, Tail(old.todo), v)
  BY FillPortMoves DEF FillPort
<1>3. /\ At(old.route, Took(held, port), Tail(old.todo)) /\ Kept(held, port) \in Nat
      /\ port \in {"console", "review_router"} => Parts(held, port) = Needs(port)
  <2>1. /\ Supplied(held, old.todo)
        /\ \A h, d : Leads(held, old.todo, h, d) => At(old.route, h, d)
    BY <1>1, PlaceByTask
  <2>2. Leads(held, old.todo, Took(held, port), Tail(old.todo))
    BY <1>1 DEF Leads
  <2> QED
    BY <1>1, <2>1, <2>2 DEF Supplied
<1>4. kept \in 0..Len(old.values) /\ made \in Instances
  <2>1. built + 1 \in Nat
    BY DEF CInv
  <2> QED
    BY <1>1, <1>3, <2>1, MadeOfParts
<1>5. kept = Kept(held, port)
  BY <1>1, PortsOfInstances DEF Kept
<1>6. made.port = port
  OBVIOUS
<1> HIDE DEF made, kept
<1>7. v \in Seq(Instances) /\ PortsOf(v) = Took(held, port)
  <2> DEFINE low == SubSeq(old.values, 1, kept)
  <2>1. low \in Seq(Instances) /\ PortsOf(low) = SubSeq(held, 1, kept)
    BY <1>1, <1>4, PortsOfInstances
  <2> HIDE DEF low
  <2>2. PortsOf(Append(low, made)) = And(PortsOf(low), port)
    BY <1>4, <1>6, <2>1, PortsOfInstances
  <2>3. Append(low, made) \in Seq(Instances)
    BY <1>4, <2>1
  <2> QED
    BY <1>5, <2>1, <2>2, <2>3 DEF Took, low
<1>8. attrs' \subseteq Instances
  BY <1>2, <1>4 DEF Places
<1> HIDE DEF v
<1> QED
  BY <1>1, <1>2, <1>3, <1>7, <1>8, OneTakesPlace DEF Places

(* Every thread stands in a place of its route and holds the instances     *)
(* that it has looked up or built by then, in the order of the route,      *)
(* whatever other threads build meanwhile (Container.console,              *)
(* Container.review_router).                                               *)
THEOREM PlacesKept == Spec => []Places
<1>1. Init => Places
  BY DEF Init, Places, Standing
<1>2. CInv /\ Places /\ [Next]_vars => Places'
  <2> SUFFICES ASSUME CInv, Places, [Next]_vars
               PROVE  Places'
    OBVIOUS
  <2>1. CASE UNCHANGED vars
    BY <2>1 DEF vars, Places
  <2>2. CASE Restart
    BY <2>2 DEF Restart, Places, Standing
  <2>3. ASSUME NEW t \in Threads, NEW route \in Routes, Start(t, route)
        PROVE  Places'
    <3> DEFINE th == [ route |-> route, id |-> requests, container |-> None,
                       todo |-> Looking(Lookups(route)), values |-> << >>, warm |-> Warm ]
    <3>1. /\ \A u \in Threads : thread'[u] = IF u = t THEN th ELSE thread[u]
          /\ cache' = cache /\ attrs' = attrs
      BY <2>3 DEF Start, CInv
    <3>2. PortsOf(<< >>) = << >> /\ << >> \in Seq(Instances)
      BY DEF PortsOf
    <3>3. /\ At(route, << >>, Looking(Lookups(route)))
          /\ Head(Looking(Lookups(route))).name \notin Ports
      BY StartsAtContainer, ContainerPlaces, NoPortIsContainer DEF At
    <3>4. Standing(th)
      BY <3>2, <3>3 DEF Standing
    <3> HIDE DEF th
    <3> QED
      BY <3>1, <3>4 DEF Places
  <2>4. ASSUME NEW t \in Threads, LookContainer(t) \/ FillContainer(t)
        PROVE  Places'
    BY <2>4, ContainerTakesPlace
  <2>5. ASSUME NEW t \in Threads, LookPort(t) \/ FillPort(t)
        PROVE  Places'
    BY <2>5, LookPortTakesPlace, FillPortTakesPlace
  <2>6. ASSUME NEW t \in Threads, HandleReview(t) \/ HandleCase(t)
        PROVE  Places'
    <3>1. /\ \A u \in Threads : thread'[u] = IF u = t THEN Idle ELSE thread[u]
          /\ cache' = cache /\ attrs' = attrs
      BY <2>6 DEF HandleReview, HandleCase, Returns, CInv
    <3> QED
      BY <3>1 DEF Places, Standing
  <2> QED
    BY <2>1, <2>2, <2>3, <2>4, <2>5, <2>6 DEF Next
<1> QED
  BY <1>1, <1>2, StagesKept, PTL DEF Spec

-----------------------------------------------------------------------------
(* A sequence with one element more.                                       *)
LEMMA OneMore ==
    ASSUME NEW S, NEW held \in Seq(S), NEW port \in S
    PROVE  /\ And(held, port) \in Seq(S)
           /\ Len(And(held, port)) = Len(held) + 1
           /\ And(held, port)[Len(held) + 1] = port
           /\ \A i \in 1..Len(held) : And(held, port)[i] = held[i]
  BY DEF And

LEMMA ThreeMore ==
    ASSUME NEW a, NEW b, NEW c
    PROVE  /\ Len(And(And(And(<< >>, a), b), c)) = 3
           /\ And(And(And(<< >>, a), b), c)[2] = b
           /\ And(And(And(<< >>, a), b), c)[3] = c
<1> DEFINE S      == {a, b, c}
           none   == << >>
           first  == And(none, a)
           second == And(first, b)
           third  == And(second, c)
<1>1. none \in Seq(S) /\ Len(none) = 0 /\ a \in S /\ b \in S /\ c \in S
  OBVIOUS
<1> HIDE DEF S, none
<1>2. first \in Seq(S) /\ Len(first) = Len(none) + 1
  BY <1>1, OneMore, Zenon
<1> HIDE DEF first
<1>3. second \in Seq(S) /\ Len(second) = Len(first) + 1 /\ second[Len(first) + 1] = b
  BY <1>1, <1>2, OneMore, Zenon
<1> HIDE DEF second
<1>4. /\ Len(third) = Len(second) + 1 /\ third[Len(second) + 1] = c
      /\ \A i \in 1..Len(second) : third[i] = second[i]
  <2>1. second \in Seq(S) /\ c \in S
    BY <1>1, <1>3
  <2> QED
    <3>1. Len(third) = Len(second) + 1 /\ third[Len(second) + 1] = c
      BY <2>1, OneMore, Zenon
    <3>2. ASSUME NEW i \in 1..Len(second)
          PROVE  third[i] = second[i]
      BY <2>1, OneMore, Zenon
    <3> QED
      BY <3>1, <3>2
<1> HIDE DEF third
<1>5. Len(third) = 3 /\ third[2] = b /\ third[3] = c
  BY <1>1, <1>2, <1>3, <1>4
<1> QED
  BY <1>5 DEF third, second, first, none

(* A handler that has looked up everything holds what it asked for.        *)
LEMMA ReadyHolds ==
    ASSUME Places, NEW t \in Threads, Ready(t)
    PROVE  LET v == thread[t].values
           IN  /\ v \in Seq(Instances)
               /\ thread[t].route = "cases" =>
                    Len(v) = 3 /\ v[2].port = "audit" /\ v[3].port = "review_router"
               /\ thread[t].route # "cases" =>
                    Len(v) = 1 /\ Last(v) = v[1] /\ v[1].port = "console"
<1> DEFINE th   == thread[t]
           held == PortsOf(th.values)
<1>1. th.route \in Routes /\ th.values \in Seq(Instances) /\ At(th.route, held, << >>)
  BY DEF Places, Standing, Ready
<1>2. held = Has(th.route)
  <2>1. ~AtContainer(th.route, held, << >>)
    BY <1>1, ContainerPlaces
  <2>2. ~AtCase(held, << >>)
    BY CaseLeads DEF Supplied
  <2>3. ~AtConsole(<< >>, << >>, held, << >>)
    <3>1. << >> \in Seq(Task) /\ Bound(<< >>) /\ << >> \in Seq(Ports)
      BY DEF Bound, PortsFrom
    <3> QED
      BY <3>1, ConsoleLeads DEF Supplied
  <2> QED
    BY <1>1, <2>1, <2>2, <2>3 DEF At
<1>3. /\ Len(held) = Len(th.values) /\ Len(th.values) \in Nat
      /\ \A i \in 1..Len(th.values) : held[i] = th.values[i].port
  BY <1>1, PortsOfInstances
<1>4. CASE th.route = "cases"
  <2>1. held = And(And(And(<< >>, "case_store"), "audit"), "review_router")
    BY <1>2, <1>4 DEF Has, Both
  <2>2. Len(held) = 3 /\ held[2] = "audit" /\ held[3] = "review_router"
    <3>1. /\ Len(And(And(And(<< >>, "case_store"), "audit"), "review_router")) = 3
          /\ And(And(And(<< >>, "case_store"), "audit"), "review_router")[2] = "audit"
          /\ And(And(And(<< >>, "case_store"), "audit"), "review_router")[3] = "review_router"
      <4> DEFINE a == "case_store"
                 b == "audit"
                 c == "review_router"
      <4> HIDE DEF a, b, c
      <4>1. /\ Len(And(And(And(<< >>, a), b), c)) = 3
            /\ And(And(And(<< >>, a), b), c)[2] = b
            /\ And(And(And(<< >>, a), b), c)[3] = c
        BY ThreeMore
      <4> QED
        BY <4>1 DEF a, b, c
    <3> QED
      BY <2>1, <3>1, Zenon
  <2> QED
    BY <1>1, <1>3, <1>4, <2>2
<1>5. CASE th.route # "cases"
  <2>1. held = And(<< >>, "console")
    BY <1>2, <1>5 DEF Has
  <2>2. Len(held) = 1 /\ held[1] = "console"
    BY <2>1 DEF And
  <2> QED
    BY <1>1, <1>3, <1>5, <2>2 DEF Last
<1> QED
  BY <1>4, <1>5

(* The queue's file holds a submission that is new, or is left alone.      *)
LEMMA SubmitKeepsQueue ==
    ASSUME QueueInv, NEW t, NEW console, NEW id, NEW key, Submit(t, console, id, key)
    PROVE  QueueInv'
<1> DEFINE known  == {r \in Contents(Disk) : key # None /\ r.key = key}
           review == [id |-> id, key |-> key]
<1>1. Contents(Disk) = Stored
  BY DEF Contents, Stored
<1>2. /\ records' = records \cup
           (IF known = {} THEN {Entry(Disk, review, t), Entry(LogOf(console), review, t)} ELSE {})
      /\ acknowledged' = acknowledged \cup (IF known = {} THEN {review} ELSE known)
  BY DEF Submit, ReviewDb
<1>3. \A at : Entry(at, review, t).at = at /\ Entry(at, review, t).what = review
  BY DEF Entry
<1>4. CASE known = {}
  <2>1. Stored' = Stored \cup {review} /\ acknowledged' = acknowledged \cup {review}
    BY <1>2, <1>3, <1>4 DEF Stored
  <2>2. \A r \in Stored : key # None => r.key # key
    BY <1>1, <1>4
  <2>3. review.key = key
    OBVIOUS
  <2> HIDE DEF review
  <2> QED
    BY <2>1, <2>2, <2>3 DEF QueueInv
<1>5. CASE known # {}
  <2>1. Stored' = Stored /\ acknowledged' = acknowledged \cup known /\ known \subseteq Stored
    BY <1>1, <1>2, <1>5 DEF Stored
  <2> QED
    BY <2>1 DEF QueueInv
<1> QED
  BY <1>4, <1>5

(* So does an escalation; a case record goes to a log, which is not it.    *)
LEMMA CaseKeepsQueue ==
    ASSUME Places, QueueInv, NEW t \in Threads, HandleCase(t)
    PROVE  QueueInv'
<1> DEFINE log    == thread[t].values[2]
           console == thread[t].values[3].parts[1]
           review == [id |-> thread[t].id, key |-> None]
           case   == [case |-> thread[t].id]
<1>1. /\ records' = records \cup
           {Entry(log, case, t), Entry(Disk, review, t), Entry(LogOf(console), review, t)}
      /\ acknowledged' = acknowledged \cup {review}
  BY DEF HandleCase, ReviewDb
<1>2. log # Disk
  <2>1. thread[t].values \in Seq(Instances) /\ Len(thread[t].values) = 3
    BY ReadyHolds DEF HandleCase
  <2>2. log \in Instances
    BY <2>1
  <2> QED
    BY <2>2, ContainerAssumption DEF ContainerAssumption
<1>3. \A at, what : Entry(at, what, t).at = at /\ Entry(at, what, t).what = what
  BY DEF Entry
<1>4. Stored' = Stored \cup {review}
  <2> HIDE DEF log, console, review, case
  <2> QED
    BY <1>1, <1>2, <1>3 DEF Stored
<1>5. review.key = None
  OBVIOUS
<1> HIDE DEF review
<1> QED
  BY <1>1, <1>4, <1>5 DEF QueueInv

(* Whatever was acknowledged is in the database, which has one row for a   *)
(* key (submit_review, submit_review_service).                             *)
THEOREM QueueKept == Spec => []QueueInv
<1>1. Init => QueueInv
  BY DEF Init, QueueInv, Stored
<1>2. Places /\ QueueInv /\ [Next]_vars => QueueInv'
  <2> SUFFICES ASSUME Places, QueueInv, [Next]_vars
               PROVE  QueueInv'
    OBVIOUS
  <2>1. CASE UNCHANGED <<records, acknowledged>>
    BY <2>1 DEF QueueInv, Stored
  <2>2. ASSUME NEW t \in Threads, HandleReview(t)
        PROVE  QueueInv'
    BY <2>2, SubmitKeepsQueue DEF HandleReview
  <2>3. ASSUME NEW t \in Threads, HandleCase(t)
        PROVE  QueueInv'
    BY <2>3, CaseKeepsQueue
  <2> QED
    BY <2>1, <2>2, <2>3
       DEF Next, vars, Restart, Start, LookContainer, FillContainer, LookPort, FillPort
<1> QED
  BY <1>1, <1>2, PlacesKept, PTL DEF Spec

(* A review whose submission was answered is in every console's queue, and *)
(* a key stands for one review, for any number of threads, requests and    *)
(* restarts (REVIEW_DB_PATH).                                              *)
THEOREM AcknowledgedStays == Spec => []AcknowledgedIsQueued
<1>1. QueueInv => AcknowledgedIsQueued
  BY DEF QueueInv, AcknowledgedIsQueued, ReviewDb, Stored, Contents
<1> QED
  BY <1>1, QueueKept, PTL

-----------------------------------------------------------------------------
(* A warm process.                                                         *)

LEMMA OpenedBound ==
    ASSUME NEW port \in Ports, NEW rest \in Seq(Task), Bound(rest)
    PROVE  Bound(Opened(port, rest))
<1>1. \A n \in Ports : Doing(n) \subseteq Task /\ Look(n).name = n /\ Make(n).name = n
  BY Tasks
<1>2. \A n \in Ports : Look(n) \in Task /\ Make(n) \in Task
  BY <1>1 DEF Doing
<1>3. CASE port \in {"case_store", "audit", "review_store"}
  BY <1>1, <1>2, <1>3, Opens, ThenBound
<1>4. CASE port = "console"
  <2> DEFINE made  == Then(Make("console"), rest)
             asked == Then(Look("audit"), made)
  <2>1. "console" \in Ports /\ "audit" \in Ports /\ "review_store" \in Ports
    BY DEF Ports
  <2>2. made \in Seq(Task) /\ Bound(made)
    BY <1>1, <1>2, <2>1, ThenSplits, ThenBound
  <2>3. asked \in Seq(Task) /\ Bound(asked)
    BY <1>1, <1>2, <2>1, <2>2, ThenSplits, ThenBound
  <2>4. Opened(port, rest) = Then(Look("review_store"), asked)
    BY <1>4, Opens
  <2> QED
    BY <1>1, <1>2, <2>1, <2>3, <2>4, ThenBound
<1>5. CASE port = "review_router"
  <2> DEFINE made == Then(Make("review_router"), rest)
  <2>1. "console" \in Ports /\ "review_router" \in Ports
    BY DEF Ports
  <2>2. made \in Seq(Task) /\ Bound(made)
    BY <1>1, <1>2, <2>1, ThenSplits, ThenBound
  <2>3. Opened(port, rest) = Then(Look("console"), made)
    BY <1>5, Opens
  <2> QED
    BY <1>1, <1>2, <2>1, <2>2, <2>3, ThenBound
<1> QED
  BY <1>3, <1>4, <1>5 DEF Ports

LEMMA TailFills ==
    ASSUME NEW s \in Seq(Task), s # << >>
    PROVE  NoFills(s) => NoFills(Tail(s)) /\ Head(s).step # "fill"
<1>1. /\ Head(s) = s[1] /\ Len(s) \in Nat \ {0} /\ Tail(s) \in Seq(Task)
      /\ Len(Tail(s)) = Len(s) - 1 /\ \A i \in 1..(Len(s) - 1) : Tail(s)[i] = s[i + 1]
  BY TailOfTasks
<1>2. DOMAIN s = 1..Len(s) /\ DOMAIN Tail(s) = 1..(Len(s) - 1)
  BY <1>1
<1>3. 1 \in DOMAIN s /\ \A i \in DOMAIN Tail(s) : i + 1 \in DOMAIN s /\ Tail(s)[i] = s[i + 1]
  BY <1>1, <1>2
<1> QED
  BY <1>1, <1>3 DEF NoFills

(* The cached container is left alone by a handler that moves.             *)
LeftAlone == cache' = cache /\ CachedAttrs' = CachedAttrs

LEMMA SettledByPort ==
    ASSUME Settled
    PROVE  \A port \in Ports : \E i \in CachedAttrs : i.port = port
BY DEF Settled, Attr, CachedAttrs

LEMMA SettledOneMoves ==
    ASSUME CInv, Settled, LeftAlone, NEW t \in Threads, thread[t] # Idle, NEW c, NEW d, NEW v,
           Becomes(t, c, d, v), NoFills(d) \/ (Bound(d) /\ c # cache)
    PROVE  Settled'
<1>1. /\ \A u \in Threads : u # t => thread'[u] = thread[u]
      /\ thread'[t].container = c /\ thread'[t].todo = d
  BY BecomesInFull
<1>2. \A port \in Ports : Attr(cache, port)' # {}
  BY SettledByPort DEF LeftAlone, CachedAttrs, Attr
<1>3. ASSUME NEW u \in Threads, thread'[u] # Idle
      PROVE  NoFills(thread'[u].todo) \/ (Bound(thread'[u].todo) /\ thread'[u].container # cache')
  BY <1>1, <1>3 DEF Settled, LeftAlone
<1> QED
  BY <1>2, <1>3 DEF Settled, LeftAlone, Attr

(* What a handler may do in a settled process: find what it looks for, or  *)
(* go on with a container of its own.                                      *)
LEMMA SettledContainer ==
    ASSUME CInv, Places, Settled, NEW t \in Threads, LookContainer(t) \/ FillContainer(t)
    PROVE  /\ LeftAlone /\ Settled'
           /\ Becomes(t, cache, Tail(thread[t].todo), thread[t].values)
           /\ NoFills(Tail(thread[t].todo))
<1> DEFINE old  == thread[t]
           held == PortsOf(old.values)
<1>1. /\ old # Idle /\ old.todo # << >> /\ old.route \in Routes
      /\ At(old.route, held, old.todo) /\ Head(old.todo).name = "_container"
      /\ FillContainer(t) => Head(old.todo).step = "fill"
  BY WhereItIs DEF LookContainer, FillContainer
<1>2. AtContainer(old.route, held, old.todo)
  BY <1>1, PlaceByTask
<1>3. old.todo \in Seq(Task) /\ NoFills(Tail(old.todo))
  BY <1>1, <1>2, ContainerPlaces
<1>4. NoFills(old.todo)
  BY <1>1, <1>3, NextTask, NoPortIsContainer DEF Settled
<1>5. LookContainer(t)
  BY <1>1, <1>3, <1>4, TailFills
<1>6. LeftAlone /\ Becomes(t, cache, Tail(old.todo), old.values)
  <2>1. cache' = cache /\ attrs' = attrs
    BY <1>5 DEF LookContainer
  <2>2. cache # None
    BY DEF Settled
  <2> QED
    BY <1>5, <2>1, <2>2, LookContainerMoves DEF LeftAlone, CachedAttrs
<1>7. Settled'
  BY <1>1, <1>3, <1>6, SettledOneMoves
<1> QED
  BY <1>3, <1>6, <1>7

LEMMA SettledLook ==
    ASSUME CInv, Places, Settled, NEW t \in Threads, LookPort(t)
    PROVE  LeftAlone /\ Settled'
<1> DEFINE old  == thread[t]
           port == Upcoming(t).name
<1>1. /\ old # Idle /\ old.todo # << >> /\ old.route \in Routes
      /\ At(old.route, PortsOf(old.values), old.todo)
      /\ port = Head(old.todo).name /\ port \in Ports
  BY WhereItIs DEF LookPort
<1>2. old.todo \in Seq(Task) /\ Bound(old.todo)
  BY <1>1, PlaceByTask DEF Supplied
<1>3. Tail(old.todo) \in Seq(Task) /\ Bound(Tail(old.todo))
  BY <1>1, <1>2, TailOfTasks, TailMovesOn
<1>4. LeftAlone
  BY DEF LookPort, LeftAlone, CachedAttrs
<1>5. NoFills(old.todo) \/ old.container # cache
  BY <1>1 DEF Settled
<1>6. ASSUME NEW i, Becomes(t, old.container, Tail(old.todo), Append(old.values, i))
      PROVE  Settled'
  <2>1. NoFills(Tail(old.todo)) \/ (Bound(Tail(old.todo)) /\ old.container # cache)
    BY <1>1, <1>2, <1>3, <1>5, TailFills
  <2> QED
    BY <1>1, <1>4, <1>6, <2>1, SettledOneMoves
<1>7. ASSUME Attr(old.container, port) = {},
             Becomes(t, old.container, Opened(port, Tail(old.todo)), old.values)
      PROVE  Settled'
  <2>1. old.container # cache
    BY <1>1, <1>7 DEF Settled
  <2>2. Bound(Opened(port, Tail(old.todo)))
    BY <1>1, <1>3, OpenedBound
  <2> QED
    BY <1>1, <1>4, <1>7, <2>1, <2>2, SettledOneMoves
<1> QED
  BY <1>4, <1>6, <1>7, LookPortMoves

LEMMA SettledFill ==
    ASSUME CInv, Places, Settled, NEW t \in Threads, FillPort(t)
    PROVE  LeftAlone /\ Settled' /\ ~NoFills(thread[t].todo)
<1> DEFINE old  == thread[t]
           port == Upcoming(t).name
<1>1. /\ old # Idle /\ old.todo # << >> /\ old.route \in Routes
      /\ At(old.route, PortsOf(old.values), old.todo) /\ Head(old.todo).step = "fill"
      /\ port = Head(old.todo).name /\ port \in Ports
  BY WhereItIs DEF FillPort
<1>2. old.todo \in Seq(Task) /\ Bound(old.todo)
  BY <1>1, PlaceByTask DEF Supplied
<1>3. Bound(Tail(old.todo))
  BY <1>1, <1>2, TailMovesOn
<1>4. ~NoFills(old.todo) /\ old.container # cache
  BY <1>1, <1>2, TailFills DEF Settled
<1>5. PICK made, v : /\ attrs' = (attrs \ Attr(old.container, port)) \cup {made}
                     /\ made.container = old.container
                     /\ Becomes(t, old.container, Tail(old.todo), v)
  <2> DEFINE kept == Len(old.values) - Len(Needs(port))
             made == [ container |-> old.container, port |-> port, no |-> built + 1,
                       parts |-> SubSeq(old.values, kept + 1, Len(old.values)) ]
             v    == Append(SubSeq(old.values, 1, kept), made)
  <2>1. /\ attrs' = (attrs \ Attr(old.container, port)) \cup {made}
        /\ Becomes(t, old.container, Tail(old.todo), v)
    BY FillPortMoves
  <2>2. made.container = old.container
    OBVIOUS
  <2> HIDE DEF made, v
  <2> QED
    BY <2>1, <2>2, Zenon
<1>6. LeftAlone
  BY <1>4, <1>5 DEF FillPort, LeftAlone, CachedAttrs, Attr
<1>7. Settled'
  BY <1>1, <1>3, <1>4, <1>5, <1>6, SettledOneMoves
<1> QED
  BY <1>4, <1>6, <1>7

(* What is warm stays so while the cached container is left alone.         *)
LEMMA WarmOneMoves ==
    ASSUME CInv, WarmInv, NEW t \in Threads, thread[t] # Idle, NEW c, NEW d, NEW v,
           Becomes(t, c, d, v), UNCHANGED <<records, boots>>, Settled => LeftAlone /\ Settled',
           thread[t].warm =>
             /\ NoFills(d) /\ (d = << >> \/ Head(d).name \in Ports => c = cache)
             /\ \A i \in 1..Len(v) : v[i] \in CachedAttrs
    PROVE  WarmInv'
<1>1. /\ \A u \in Threads : u # t => thread'[u] = thread[u]
      /\ thread'[t].container = c /\ thread'[t].todo = d /\ thread'[t].values = v
      /\ thread'[t].warm = thread[t].warm
  BY BecomesInFull
<1>2. ASSUME NEW u \in Threads, NEW th, th = thread'[u]
      PROVE  Warmed(th)'
  <2> SUFFICES ASSUME th # Idle, th.warm
               PROVE  Warmed(th)'
    BY DEF Warmed
  <2>1. Settled /\ LeftAlone /\ Settled'
    BY <1>1, <1>2 DEF WarmInv, Warmed
  <2>2. CASE u = t
    BY <1>1, <1>2, <2>1, <2>2 DEF Warmed, LeftAlone
  <2>3. CASE u # t
    BY <1>1, <1>2, <2>1, <2>3 DEF WarmInv, Warmed, LeftAlone
  <2> QED
    BY <2>2, <2>3
<1>3. \A u \in Threads : Warmed(thread[u])'
  BY <1>2 DEF Warmed
<1>4. ASSUME NEW x \in records, x.at # Disk, x.boot = boots, x.warm
      PROVE  Settled' /\ (x.at \in CachedLogs)'
  BY <1>4 DEF WarmInv, CachedLogs, LeftAlone
<1> QED
  BY <1>3, <1>4 DEF WarmInv

(* The records of a handler that returns are in logs of the container.     *)
LEMMA WarmReturns ==
    ASSUME CInv, Places, WarmInv, NEW t \in Threads, HandleReview(t) \/ HandleCase(t)
    PROVE  WarmInv'
<1> DEFINE old == thread[t]
<1>1. /\ \A u \in Threads : thread'[u] = IF u = t THEN Idle ELSE thread[u]
      /\ UNCHANGED <<cache, attrs, boots>> /\ Ready(t)
  BY DEF HandleReview, HandleCase, Returns, CInv
<1>2. Settled => Settled'
  BY <1>1 DEF Settled, Attr
<1>3. CachedAttrs' = CachedAttrs /\ CachedLogs' = CachedLogs
  BY <1>1 DEF CachedAttrs, CachedLogs
<1>4. \A u \in Threads : Warmed(thread[u])'
  BY <1>1, <1>2, <1>3 DEF WarmInv, Warmed
<1>5. ASSUME NEW x \in records', x \notin records
      PROVE  /\ x.boot = boots /\ x.warm = old.warm
             /\ old.warm => x.at = Disk \/ x.at \in CachedLogs
  <2>1. /\ old.values \in Seq(Instances)
        /\ old.route = "cases" =>
             Len(old.values) = 3 /\ old.values[2].port = "audit" /\ old.values[3].port = "review_router"
        /\ old.route # "cases" =>
             Len(old.values) = 1 /\ Last(old.values) = old.values[1] /\ old.values[1].port = "console"
    BY <1>1, ReadyHolds
  <2>2. old.warm => \A i \in 1..Len(old.values) : old.values[i] \in CachedAttrs
    BY <1>1 DEF WarmInv, Warmed, Ready
  <2>3. CASE HandleReview(t)
    <3>1. old.route # "cases"
      BY <2>3 DEF HandleReview
    <3>2. PICK what : x \in {Entry(Disk, what, t), Entry(LogOf(old.values[1]), what, t)}
      BY <1>5, <2>1, <2>3, <3>1 DEF HandleReview, Submit, ReviewDb
    <3>3. old.warm => LogOf(old.values[1]) \in CachedLogs
      BY <2>1, <2>2, <3>1 DEF CachedLogs
    <3> QED
      BY <3>2, <3>3 DEF Entry
  <2>4. CASE HandleCase(t)
    <3>1. old.route = "cases"
      BY <2>4 DEF HandleCase
    <3>2. PICK what : x \in { Entry(Disk, what, t), Entry(old.values[2], what, t),
                             Entry(LogOf(old.values[3].parts[1]), what, t) }
      BY <1>5, <2>4 DEF HandleCase, ReviewDb
    <3>3. old.warm => old.values[2] \in CachedLogs /\ LogOf(old.values[3].parts[1]) \in CachedLogs
      BY <2>1, <2>2, <3>1 DEF CachedLogs
    <3> QED
      BY <3>2, <3>3 DEF Entry
  <2> QED
    BY <2>3, <2>4
<1>6. old.warm => Settled
  BY <1>1 DEF WarmInv, Warmed, Ready
<1> QED
  BY <1>1, <1>2, <1>3, <1>4, <1>5, <1>6 DEF WarmInv

LEMMA WarmMoves ==
    ASSUME CInv, Places, WarmInv, NEW t \in Threads,
           LookContainer(t) \/ FillContainer(t) \/ LookPort(t) \/ FillPort(t)
    PROVE  WarmInv'
<1> DEFINE old == thread[t]
<1>1. /\ old # Idle /\ old.todo # << >> /\ old.route \in Routes /\ old.values \in Seq(Instances)
      /\ At(old.route, PortsOf(old.values), old.todo) /\ Upcoming(t) = Head(old.todo)
  BY WhereItIs DEF LookContainer, FillContainer, LookPort, FillPort
<1>2. UNCHANGED <<records, boots>>
  BY DEF LookContainer, FillContainer, LookPort, FillPort
<1>3. old.warm =>
        /\ Settled /\ NoFills(old.todo) /\ (Head(old.todo).name \in Ports => old.container = cache)
        /\ \A i \in 1..Len(old.values) : old.values[i] \in CachedAttrs
  BY <1>1 DEF WarmInv, Warmed
<1>4. old.todo \in Seq(Task)
  BY <1>1, PlaceByTask
<1>5. CASE LookContainer(t) \/ FillContainer(t)
  <2>1. PICK c, d : Becomes(t, c, d, old.values)
    BY <1>5, LookContainerMoves, FillContainerMoves
  <2>2. CASE Settled
    <3>1. /\ LeftAlone /\ Settled' /\ Becomes(t, cache, Tail(old.todo), old.values)
          /\ NoFills(Tail(old.todo))
      BY <1>5, <2>2, SettledContainer
    <3> QED
      BY <1>1, <1>2, <1>3, <3>1, WarmOneMoves
  <2>3. CASE ~Settled
    BY <1>1, <1>2, <1>3, <2>1, <2>3, WarmOneMoves
  <2> QED
    BY <2>2, <2>3
<1>6. CASE LookPort(t)
  <2> DEFINE port == Upcoming(t).name
  <2>1. Settled => LeftAlone /\ Settled'
    BY <1>6, SettledLook
  <2>2. port \in Ports /\ port = Head(old.todo).name
    BY <1>1, <1>6 DEF LookPort
  <2>3. ASSUME NEW i \in Attr(old.container, port),
               Becomes(t, old.container, Tail(old.todo), Append(old.values, i))
        PROVE  WarmInv'
    <3>1. old.warm =>
            /\ NoFills(Tail(old.todo)) /\ old.container = cache
            /\ \A k \in 1..Len(Append(old.values, i)) : Append(old.values, i)[k] \in CachedAttrs
      <4>1. old.warm => NoFills(Tail(old.todo)) /\ old.container = cache
        BY <1>1, <1>3, <1>4, <2>2, TailFills
      <4>2. old.warm => i \in CachedAttrs
        BY <4>1 DEF Attr, CachedAttrs
      <4>3. i \in Instances
        BY DEF Attr, Places
      <4>4. \A k \in 1..Len(Append(old.values, i)) :
              Append(old.values, i)[k] = i \/ (k \in 1..Len(old.values)
                                               /\ Append(old.values, i)[k] = old.values[k])
        BY <1>1, <4>3
      <4> QED
        BY <1>3, <4>1, <4>2, <4>4
    <3> QED
      BY <1>1, <1>2, <2>1, <2>3, <3>1, WarmOneMoves
  <2>4. ASSUME Attr(old.container, port) = {},
               Becomes(t, old.container, Opened(port, Tail(old.todo)), old.values)
        PROVE  WarmInv'
    <3>1. ~old.warm
      BY <1>3, <2>2, <2>4 DEF Settled
    <3> QED
      BY <1>1, <1>2, <2>1, <2>4, <3>1, WarmOneMoves
  <2> QED
    BY <1>6, <2>3, <2>4, LookPortMoves
<1>7. CASE FillPort(t)
  <2>1. PICK c, d, v : Becomes(t, c, d, v)
    BY <1>7, FillPortMoves
  <2>2. Settled => LeftAlone /\ Settled' /\ ~NoFills(old.todo)
    BY <1>7, SettledFill
  <2> QED
    BY <1>1, <1>2, <1>3, <2>1, <2>2, WarmOneMoves
<1> QED
  BY <1>5, <1>6, <1>7

LEMMA WarmStarts ==
    ASSUME CInv, WarmInv, NEW t \in Threads, NEW route \in Routes, Start(t, route)
    PROVE  WarmInv'
<1> DEFINE th == [ route |-> route, id |-> requests, container |-> None,
                   todo |-> Looking(Lookups(route)), values |-> << >>, warm |-> Warm ]
<1>1. /\ \A u \in Threads : thread'[u] = IF u = t THEN th ELSE thread[u]
      /\ UNCHANGED <<cache, attrs, records, boots>>
  BY DEF Start, CInv
<1>2. /\ th.todo = Looking(Lookups(route)) /\ th.values = << >> /\ th.warm = Warm
      /\ NoFills(th.todo) /\ th.todo # << >> /\ Head(th.todo).name \notin Ports
  BY StartsAtContainer, ContainerPlaces, NoPortIsContainer
<1> HIDE DEF th
<1>3. Warm => Settled
  <2> SUFFICES ASSUME Warm
               PROVE  Settled
    OBVIOUS
  <2>1. \A u \in Threads : thread[u] # Idle => NoFills(thread[u].todo)
    BY DEF Warm, Filling, NoFills
  <2> QED
    BY <2>1 DEF Warm, Settled
<1>4. Settled => Settled'
  BY <1>1, <1>2 DEF Settled, Attr
<1>5. CachedAttrs' = CachedAttrs /\ CachedLogs' = CachedLogs
  BY <1>1 DEF CachedAttrs, CachedLogs
<1>6. ASSUME NEW u \in Threads
      PROVE  Warmed(thread[u])'
  <2>1. CASE u = t
    BY <1>1, <1>2, <1>3, <1>4, <2>1 DEF Warmed
  <2>2. CASE u # t
    BY <1>1, <1>4, <1>5, <2>2 DEF WarmInv, Warmed
  <2> QED
    BY <2>1, <2>2
<1> QED
  BY <1>1, <1>4, <1>5, <1>6 DEF WarmInv

(* Once every port is cached and nobody is about to replace one, that      *)
(* stays so, and who starts then holds cached instances only               *)
(* (cached_property).                                                      *)
THEOREM WarmthKept == Spec => []WarmInv
<1>1. Init => WarmInv
  BY DEF Init, WarmInv, Warmed
<1>2. CInv /\ Places /\ WarmInv /\ [Next]_vars => WarmInv'
  <2> SUFFICES ASSUME CInv, Places, WarmInv, [Next]_vars
               PROVE  WarmInv'
    OBVIOUS
  <2>1. CASE UNCHANGED vars
    BY <2>1 DEF vars, WarmInv, Warmed, Settled, Attr, CachedAttrs, CachedLogs
  <2>2. CASE Restart
    <3>1. boots' = boots + 1 /\ records' = records /\ \A t \in Threads : thread'[t] = Idle
      BY <2>2 DEF Restart
    <3>2. \A x \in records : x.boot \in 0..boots' /\ x.boot # boots'
      BY <3>1 DEF WarmInv
    <3> QED
      BY <3>1, <3>2 DEF WarmInv, Warmed
  <2>3. ASSUME NEW t \in Threads, NEW route \in Routes, Start(t, route)
        PROVE  WarmInv'
    BY <2>3, WarmStarts
  <2>4. ASSUME NEW t \in Threads,
               LookContainer(t) \/ FillContainer(t) \/ LookPort(t) \/ FillPort(t)
        PROVE  WarmInv'
    BY <2>4, WarmMoves
  <2>5. ASSUME NEW t \in Threads, HandleReview(t) \/ HandleCase(t)
        PROVE  WarmInv'
    BY <2>5, WarmReturns
  <2> QED
    BY <2>1, <2>2, <2>3, <2>4, <2>5 DEF Next
<1> QED
  BY <1>1, <1>2, StagesKept, PlacesKept, PTL DEF Spec

(* No record of a handler that started in a warm process leaves the logs   *)
(* in use before the process ends, for any number of threads and requests  *)
(* (cached_property, REVIEW_AUDIT_PATH).                                   *)
THEOREM WarmRecordsAreKept == Spec => []WarmRecordsStay
<1>1. CachedLogs \subseteq LogsInUse
  BY DEF CachedLogs, CachedAttrs, LogsInUse, Consoles
<1>2. WarmInv => WarmRecordsStay
  BY <1>1 DEF WarmInv, WarmRecordsStay
<1> QED
  BY <1>2, WarmthKept, PTL
=============================================================================
