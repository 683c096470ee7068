------------------------------ MODULE Container ------------------------------
(***************************************************************************)
(* The dependency container of one process under the local profile, while  *)
(* request threads use it for the first time and later, and restarts.      *)
(*                                                                         *)
(* _container is an lru_cache(maxsize=1), each port a cached_property.     *)
(* Neither holds a lock over a miss: a thread that finds nothing builds    *)
(* for itself, and meanwhile others may find nothing too.  The thread that *)
(* fills the lru_cache second leaves it and goes on with its own container;*)
(* the one that fills a cached_property second replaces what is there, and *)
(* each goes on with what it built.                                        *)
(*                                                                         *)
(* A thread's lookups form an expression that is evaluated on a stack:     *)
(* a missing port has the ports it is made of looked up first (Look), and  *)
(* is then made of them and filled in (Fill).                              *)
(***************************************************************************)
EXTENDS Naturals, Sequences, SequencesExt

CONSTANTS
    Threads,        \* the threads of the process that serve requests
    SourceKeys,     \* keys that a producer gives its submissions
    None,           \* nothing is cached
    Disk,           \* the database file, in place of an instance
    MaxRequests,    \* bound: requests
    MaxRestarts     \* bound: restarts of the process

(* What is built: a store or a log of nothing, a console of a store and a  *)
(* log, a router of a console; each for one container, with its number.    *)
Instance(ports, parts) == [container : Nat, port : ports, no : Nat, parts : parts]

Instances ==
    LET simple  == Instance({"case_store", "audit", "review_store"}, {<< >>})
        console == Instance({"console"}, Seq(simple))
    IN  simple \cup console \cup Instance({"review_router"}, Seq(console))

ASSUME ContainerAssumption ==
    /\ None \notin SourceKeys \cup Nat
    /\ Disk \notin Instances
    /\ MaxRequests \in Nat /\ MaxRestarts \in Nat

Ports == {"case_store", "audit", "review_store", "console", "review_router"}

(* What a port is made of; policy and settings are the same for all.       *)
Needs(port) ==
    IF port = "console" THEN << "review_store", "audit" >>
    ELSE IF port = "review_router" THEN << "console" >> ELSE << >>

(* Mutant: the principal is resolved without the container.                *)
Lookups_NoPrincipal(route) ==
    IF route = "cases" THEN << "_container", "case_store", "audit", "review_router" >>
                       ELSE << "_container", "console" >>

(* What a handler looks up, in order: an end user's principal comes from   *)
(* the container's identity port, so those handlers ask for it twice.      *)
Lookups(route) ==
    IF route = "cases"
      THEN << "_container", "_container", "case_store", "audit", "review_router" >>
    ELSE IF route = "reviews" THEN << "_container", "_container", "console" >>
    ELSE << "_container", "console" >>

Routes == {"reviews", "service_reviews", "cases"}

VARIABLES
    cache,          \* the container that _container has cached, or None
    attrs,          \* the port instances that sit in their container
    built,          \* how many objects were built so far, their numbers
    thread,         \* what each thread still has to look up, and holds
    records,        \* what was written, to which instance, in which boot
    acknowledged,   \* the reviews whose submission was answered
    boots, requests \* restarts and requests so far

vars == <<cache, attrs, built, thread, records, acknowledged, boots, requests>>

Idle == [route |-> None]

Init ==
    /\ cache = None /\ attrs = {} /\ built = 0
    /\ thread = [t \in Threads |-> Idle]
    /\ records = {} /\ acknowledged = {}
    /\ boots = 0 /\ requests = 0

-----------------------------------------------------------------------------
(* Instances.  A console is made of a store and an audit log, a router of  *)
(* a console.                                                              *)

Attr(c, port) == {i \in attrs : i.container = c /\ i.port = port}

StoreOf(console) == console.parts[1]
LogOf(console)   == console.parts[2]

(* Mutant: the review database is in memory by default.                    *)
ReviewDb_InMemory(console) == StoreOf(console)

(* Every store of the local profile opens the same file by default.        *)
ReviewDb(console) == Disk

Contents(at) == {x.what : x \in {y \in records : y.at = at /\ (at = Disk \/ y.boot = boots)}}

Filling == {t \in Threads : thread[t] # Idle /\
                            \E i \in DOMAIN thread[t].todo : thread[t].todo[i].step = "fill"}

(* Every port is there, and nobody is about to fill another one in.        *)
Warm == /\ cache # None
        /\ \A port \in Ports : Attr(cache, port) # {}
        /\ Filling = {}

-----------------------------------------------------------------------------
Looking(names) == [i \in DOMAIN names |-> [step |-> "look", name |-> names[i]]]

Start(t, route) ==
    /\ thread[t] = Idle /\ requests < MaxRequests
    /\ thread' = [thread EXCEPT ![t] =
         [ route |-> route, id |-> requests, container |-> None,
           todo |-> Looking(Lookups(route)), values |-> << >>, warm |-> Warm ]]
    /\ requests' = requests + 1
    /\ UNCHANGED <<cache, attrs, built, records, acknowledged, boots>>

Upcoming(t) == Head(thread[t].todo)
Working(t, step) == thread[t] # Idle /\ thread[t].todo # << >> /\ Upcoming(t).step = step

(* _container(): what is cached, or else a container has to be built.      *)
LookContainer(t) ==
    /\ Working(t, "look") /\ Upcoming(t).name = "_container"
    /\ thread' = IF cache # None
                   THEN [thread EXCEPT ![t].container = cache, ![t].todo = Tail(@)]
                   ELSE [thread EXCEPT ![t].todo[1].step = "fill"]
    /\ UNCHANGED <<cache, attrs, built, records, acknowledged, boots, requests>>

(* The container is built; if another was cached meanwhile, that one stays.*)
FillContainer(t) ==
    /\ Working(t, "fill") /\ Upcoming(t).name = "_container"
    /\ built' = built + 1
    /\ cache' = IF cache = None THEN built' ELSE cache
    /\ thread' = [thread EXCEPT ![t].container = built', ![t].todo = Tail(@)]
    /\ UNCHANGED <<attrs, records, acknowledged, boots, requests>>

(* Mutant: the ports are properties that build anew on every access.       *)
LookPort_Property(t) ==
    /\ Working(t, "look") /\ Upcoming(t).name \in Ports
    /\ LET port == Upcoming(t).name
       IN  thread' = [thread EXCEPT ![t].todo =
             Looking(Needs(port)) \o << [step |-> "fill", name |-> port] >> \o Tail(@)]
    /\ UNCHANGED <<cache, attrs, built, records, acknowledged, boots, requests>>

(* A port of the thread's container: the instance that is there, or else   *)
(* the ports it is made of, and then the port itself.                      *)
LookPort(t) ==
    /\ Working(t, "look") /\ Upcoming(t).name \in Ports
    /\ LET port == Upcoming(t).name
           here == Attr(thread[t].container, port)
       IN  \/ \E i \in here :
                thread' = [thread EXCEPT ![t].todo = Tail(@), ![t].values = Append(@, i)]
           \/ /\ here = {}
              /\ thread' = [thread EXCEPT ![t].todo =
                   Looking(Needs(port)) \o << [step |-> "fill", name |-> port] >> \o Tail(@)]
    /\ UNCHANGED <<cache, attrs, built, records, acknowledged, boots, requests>>

(* The port is made of the values looked up last, and put into its place.  *)
FillPort(t) ==
    /\ Working(t, "fill") /\ Upcoming(t).name \in Ports
    /\ LET port == Upcoming(t).name
           c    == thread[t].container
           kept == Len(thread[t].values) - Len(Needs(port))
           made == [ container |-> c, port |-> port, no |-> built + 1,
                     parts |-> SubSeq(thread[t].values, kept + 1, Len(thread[t].values)) ]
       IN  /\ attrs' = (attrs \ Attr(c, port)) \cup {made}
           /\ thread' = [thread EXCEPT ![t].todo = Tail(@),
                           ![t].values = Append(SubSeq(@, 1, kept), made)]
    /\ built' = built + 1
    /\ UNCHANGED <<cache, records, acknowledged, boots, requests>>

Entry(at, what, t) == [at |-> at, what |-> what, boot |-> boots, warm |-> thread[t].warm]

(* A submission through a console: a review that is new, or the one with   *)
(* its key, is answered; what is new is recorded in the console's log.     *)
Submit(t, console, id, key) ==
    LET db     == ReviewDb(console)
        known  == {r \in Contents(db) : key # None /\ r.key = key}
        review == [id |-> id, key |-> key]
    IN  /\ records' = records \cup
             (IF known = {} THEN {Entry(db, review, t), Entry(LogOf(console), review, t)} ELSE {})
        /\ acknowledged' = acknowledged \cup (IF known = {} THEN {review} ELSE known)

Returns(t) == thread' = [thread EXCEPT ![t] = Idle]
Ready(t)   == thread[t] # Idle /\ thread[t].todo = << >>

(* The handler does its work on the instances it holds, and answers.       *)
HandleReview(t) ==
    /\ Ready(t) /\ thread[t].route # "cases"
    /\ \E key \in SourceKeys \cup {None} :
         /\ thread[t].route = "reviews" => key = None
         /\ Submit(t, Last(thread[t].values), thread[t].id, key)
    /\ Returns(t)
    /\ UNCHANGED <<cache, attrs, built, boots, requests>>

(* An evaluation that escalates: a case record, and a review by way of the *)
(* router's console.                                                       *)
HandleCase(t) ==
    /\ Ready(t) /\ thread[t].route = "cases"
    /\ LET log     == thread[t].values[2]
           console == thread[t].values[3].parts[1]
           id      == thread[t].id
           review  == [id |-> id, key |-> None]
       IN  /\ records' = records \cup
                { Entry(log, [case |-> id], t), Entry(ReviewDb(console), review, t),
                  Entry(LogOf(console), review, t) }
           /\ acknowledged' = acknowledged \cup {review}
    /\ Returns(t)
    /\ UNCHANGED <<cache, attrs, built, boots, requests>>

(* The process dies and starts again: only files are left.                 *)
Restart ==
    /\ boots < MaxRestarts
    /\ boots' = boots + 1
    /\ cache' = None /\ attrs' = {}
    /\ thread' = [t \in Threads |-> Idle]
    /\ UNCHANGED <<built, records, acknowledged, requests>>

Next ==
    \/ Restart
    \/ \E t \in Threads :
         \/ \E route \in Routes : Start(t, route)
         \/ LookContainer(t) \/ FillContainer(t) \/ LookPort(t) \/ FillPort(t)
         \/ HandleReview(t) \/ HandleCase(t)

Spec == Init /\ [][Next]_vars

-----------------------------------------------------------------------------
Consoles == {i \in attrs : i.port = "console"}
              \cup {i.parts[1] : i \in {j \in attrs : j.port = "review_router"}}

(* A review whose submission was answered is in the queue of every console *)
(* that a later request can meet, and a producer's key stands for one      *)
(* review, whatever was built twice and however often the process restarts *)
(* (the durable REVIEW_DB_PATH of Settings.load).                          *)
AcknowledgedIsQueued ==
    /\ \A k \in Consoles : acknowledged \subseteq Contents(ReviewDb(k))
    /\ \A r, s \in acknowledged : r.key # None /\ r.key = s.key => r = s

(* Handlers of end users meet in one container: the principal was resolved *)
(* with it, so by the time the handler asks, one is cached (get_principal).*)
EndUserHandlersMeet ==
    \A t \in Threads :
      thread[t] # Idle /\ thread[t].route # "service_reviews"
        /\ (Ready(t) \/ Upcoming(t).name \in Ports) => thread[t].container = cache

(* The audit log is in memory and may be built twice.  What is lost to     *)
(* that was written by a handler that was around while ports were built:   *)
(* once all are there, every record stays in a log that is in use, until   *)
(* the process ends (cached_property, REVIEW_AUDIT_PATH).                  *)
LogsInUse == {i \in attrs : i.port = "audit"} \cup {LogOf(k) : k \in Consoles}

WarmRecordsStay ==
    \A x \in records : x.at # Disk /\ x.boot = boots /\ x.warm => x.at \in LogsInUse
=============================================================================
