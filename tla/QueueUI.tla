------------------------------ MODULE QueueUI ------------------------------
(***************************************************************************)
(* The review page under the local profile: one browser that acts for a    *)
(* chosen persona, the requests it has in flight, and the service that     *)
(* answers them (src/ui/app/page.tsx, src/ui/lib/api.ts).                  *)
(*                                                                         *)
(* A handler runs up to its await, and goes on when the answer comes; what *)
(* the reviewer clicks meanwhile is not held up, and answers come in any   *)
(* order, or not at all.  The service loads a review, decides, and puts    *)
(* the outcome over whatever the row has become meanwhile, as in           *)
(* ReviewConsole; the sign-offs, which no page reads, are left out, as are *)
(* notes and reasons.                                                      *)
(***************************************************************************)
EXTENDS MakerChecker

CONSTANTS
    Personas,       \* the seeded principals of the picker
    FirstPersona,   \* the head of their list
    Others,         \* reviewers at other browsers
    Policy,         \* the routing policy in service
    Waiting,        \* the reviews that wait when the page is opened
    DemoGroup,      \* the segregated group of a demo item, and its severity
    DemoSeverity,
    Nothing,        \* no selection, no answer
    MaxClicks       \* bound: clicks of the reviewer

ASSUME PageAssumption ==
    /\ Personas \cup Others \subseteq Principal /\ FirstPersona \in Personas
    /\ Policy \in RoutingPolicy /\ Waiting \subseteq ReviewItem
    /\ DemoGroup \in Groups /\ DemoSeverity \in Severities
    /\ MaxClicks \in Nat

VARIABLES
    persona,    \* who acts, in the picker and in the header of requests
    queue,      \* the reviews on display
    selected,   \* the review in the evidence panel
    calls,      \* requests in flight, each with its answer once it is served
    sent,       \* how many requests were sent, their numbers
    shown,      \* the number of the queue request that is on display
    asked,      \* the number of the last queue request
    pressed,    \* what was pressed: who was on display, and which review
    closed,     \* reviews that an answer to this browser said were resolved
    store,      \* the rows of the service
    elsewhere,  \* what the handler of another browser is about to put, if any
    reopened,   \* resolved reviews that a put has made pending again
    clicks      \* clicks so far

page == <<persona, queue, selected>>
rows == <<store, elsewhere, reopened>>
vars == <<page, calls, sent, shown, asked, pressed, closed, rows, clicks>>

-----------------------------------------------------------------------------
Call(what, who, id, disposition) ==
    [ no |-> sent + 1, what |-> what, as |-> who, id |-> id,
      disposition |-> disposition, draft |-> Nothing, answer |-> Nothing ]

(* A request leaves with the header of the persona that acts right then.   *)
Sends(call, rest) ==
    /\ calls' = rest \cup {call}
    /\ sent' = sent + 1
    /\ asked' = IF call.what = "queue" THEN sent + 1 ELSE asked

RefreshQueue(who, rest) == Sends(Call("queue", who, Nothing, Nothing), rest)

Init ==
    /\ persona = FirstPersona /\ queue = {} /\ selected = Nothing
    /\ calls = {[ no |-> 1, what |-> "queue", as |-> FirstPersona, id |-> Nothing,
                  disposition |-> Nothing, draft |-> Nothing, answer |-> Nothing ]}
    /\ sent = 1 /\ asked = 1 /\ shown = 0
    /\ pressed = {} /\ closed = {}
    /\ store = Waiting /\ elsewhere = [who \in Others |-> Nothing] /\ reopened = {}
    /\ clicks = 0

Clicks == clicks < MaxClicks /\ clicks' = clicks + 1

(* Mutant: the queue of the persona before stays on display.               *)
OnPersonaChange_NoRefresh(p) ==
    /\ Clicks /\ p # persona
    /\ persona' = p /\ selected' = Nothing
    /\ UNCHANGED <<queue, calls, sent, shown, asked, pressed, closed, rows>>

OnPersonaChange(p) ==
    /\ Clicks /\ p # persona
    /\ persona' = p /\ selected' = Nothing
    /\ RefreshQueue(p, calls)
    /\ UNCHANGED <<queue, shown, pressed, closed, rows>>

(* A click on a review of the queue, however old the queue is.             *)
Select(item) ==
    /\ Clicks /\ item # selected
    /\ selected' = item
    /\ UNCHANGED <<persona, queue, calls, sent, shown, asked, pressed, closed, rows>>

(* A button of the evidence panel; it may be pressed twice.                *)
Decide(disposition) ==
    /\ Clicks /\ selected # Nothing
    /\ Sends(Call("decide", persona, selected.review_id, disposition), calls)
    /\ pressed' = pressed \cup {<<persona, selected.review_id, disposition>>}
    /\ UNCHANGED <<page, shown, closed, rows>>

SeedDemoItem ==
    /\ Clicks
    /\ Sends(Call("submit", persona, Nothing, Nothing), calls)
    /\ UNCHANGED <<page, shown, pressed, closed, rows>>

-----------------------------------------------------------------------------
(* The service. *)

(* Mutant: whoever acts when the request is put on the wire.               *)
Caller_Late(call) == persona

(* The persona of the request's header.                                    *)
Caller(call) == call.as

ListQueue(who) ==
    {WithEffectiveRouting(Policy, r) : r \in {s \in store : s.tenant = who.tenant /\ ~IsTerminal(s)}}

Put(item) == {r \in store : r.review_id # item.review_id} \cup {item}

(* The blind upsert of an outcome: whatever happened since the load.       *)
Puts(item) ==
    /\ store' = Put(item)
    /\ reopened' = reopened \cup
         {r.review_id : r \in {s \in store : s.review_id = item.review_id /\ IsTerminal(s)
                                               /\ ~IsTerminal(item)}}

Answered(call, answer) == calls' = (calls \ {call}) \cup {[call EXCEPT !.answer = answer]}

(* What `who' disposes of: a review of his tenant that is not resolved.    *)
Loaded(who, id) ==
    {WithEffectiveRouting(Policy, r) :
       r \in {s \in store : s.review_id = id /\ s.tenant = who.tenant /\ ~IsTerminal(s)}}

ServeQueue(call) ==
    /\ call.what = "queue"
    /\ Answered(call, [status |-> 200, items |-> ListQueue(Caller(call))])
    /\ UNCHANGED rows

ServeSubmit(call) ==
    /\ call.what = "submit"
    /\ \E id \in ReviewIds : /\ \A r \in store : r.review_id # id
                             /\ \A i \in ReviewIds : (\A r \in store : r.review_id # i) => id <= i
                             /\ store' = Put(WithEffectiveRouting(Policy,
                                  [ review_id |-> id, tenant |-> Caller(call).tenant,
                                    maker |-> Caller(call).actor, severity |-> DemoSeverity,
                                    required |-> 1, sod_group |-> DemoGroup, source_key |-> NoKey,
                                    state |-> "pending", approvals |-> << >> ]))
    /\ Answered(call, [status |-> 201])
    /\ UNCHANGED <<elsewhere, reopened>>

(* A decision is loaded and decided on: it is to be put, denied (403), or  *)
(* a 409 or a 404.                                                         *)
ServeDecide(call) ==
    /\ call.what = "decide" /\ call.draft = Nothing
    /\ LET who   == Caller(call)
           found == \E r \in store : r.review_id = call.id /\ r.tenant = who.tenant
       IN  \/ /\ Loaded(who, call.id) = {}
              /\ Answered(call, [status |-> IF found THEN 409 ELSE 404])
           \/ \E item \in Loaded(who, call.id) :
                IF CheckEligibility(Policy, item, who) = {}
                  THEN calls' = (calls \ {call}) \cup
                         {[call EXCEPT !.draft = Dispose(Policy, item, who, call.disposition)]}
                  ELSE Answered(call, [status |-> 403, item |-> item])
    /\ UNCHANGED rows

(* The outcome is put, and answered.                                       *)
PutDecision(call) ==
    /\ call.draft # Nothing
    /\ Puts(call.draft)
    /\ Answered(call, [status |-> 200, item |-> call.draft])
    /\ UNCHANGED elsewhere

Serve(call) ==
    /\ call.answer = Nothing
    /\ ServeQueue(call) \/ ServeSubmit(call) \/ ServeDecide(call) \/ PutDecision(call)
    /\ UNCHANGED <<page, sent, shown, asked, pressed, closed, clicks>>

(* Somebody approves at another browser: his handler loads and decides, .. *)
OtherDecides(who) ==
    /\ elsewhere[who] = Nothing
    /\ \E id \in ReviewIds : \E item \in Loaded(who, id) :
         /\ CheckEligibility(Policy, item, who) = {}
         /\ elsewhere' = [elsewhere EXCEPT ![who] = Dispose(Policy, item, who, "approve")]
    /\ UNCHANGED <<page, calls, sent, shown, asked, pressed, closed, store, reopened, clicks>>

(* .. and puts, unless it dies.                                            *)
OtherPuts(who) ==
    /\ elsewhere[who] # Nothing
    /\ Puts(elsewhere[who]) \/ UNCHANGED <<store, reopened>>
    /\ elsewhere' = [elsewhere EXCEPT ![who] = Nothing]
    /\ UNCHANGED <<page, calls, sent, shown, asked, pressed, closed, clicks>>

-----------------------------------------------------------------------------
(* The handlers go on. *)

ShowQueue(call) ==
    /\ call.what = "queue" /\ call.answer # Nothing
    /\ queue' = call.answer.items /\ shown' = call.no
    /\ calls' = calls \ {call}
    /\ UNCHANGED <<persona, selected, sent, asked, pressed, closed, rows, clicks>>

Submitted(call) ==
    /\ call.what = "submit" /\ call.answer # Nothing
    /\ RefreshQueue(persona, calls \ {call})
    /\ UNCHANGED <<page, shown, pressed, closed, rows, clicks>>

(* Recorded or refused, the panel is closed, whatever it shows by now, and *)
(* the queue is asked for as whoever acts by now.                          *)
Decided(call) ==
    /\ call.what = "decide" /\ call.answer # Nothing /\ call.answer.status \in {200, 403}
    /\ selected' = Nothing
    /\ closed' = IF IsTerminal(call.answer.item) THEN closed \cup {call.id} ELSE closed
    /\ RefreshQueue(persona, calls \ {call})
    /\ UNCHANGED <<persona, queue, shown, pressed, rows, clicks>>

(* A request or its answer is lost, a handler dies before it puts, or a    *)
(* decision has met a 404 or a 409: a note, and nothing else changes.      *)
Throws(call) ==
    /\ calls' = calls \ {call}
    /\ UNCHANGED <<page, sent, shown, asked, pressed, closed, rows, clicks>>

Next ==
    \/ \E p \in Personas : OnPersonaChange(p)
    \/ \E item \in queue : Select(item)
    \/ \E disposition \in Dispositions : Decide(disposition)
    \/ SeedDemoItem
    \/ \E who \in Others : OtherDecides(who) \/ OtherPuts(who)
    \/ \E call \in calls : Serve(call) \/ ShowQueue(call) \/ Submitted(call)
                             \/ Decided(call) \/ Throws(call)

Spec == Init /\ [][Next]_vars

-----------------------------------------------------------------------------
(* Whatever is stored of a review beyond what it came with was decided     *)
(* elsewhere, or was pressed on this page, on that review, with that       *)
(* disposition, by the persona that the page showed, who is of the         *)
(* review's tenant and did not make it: a persona that is switched while a *)
(* request is on its way, an old queue, a second click or a repeated       *)
(* decision do not lend a decision to anybody else (headers() before the   *)
(* await; dispose within the tenant).                                      *)
PressedBy(r, actor, disposition) ==
    /\ actor # r.maker
    /\ \E p \in Personas : /\ p.actor = actor /\ p.tenant = r.tenant
                           /\ <<p, r.review_id, disposition>> \in pressed

CameWith(r, actor) ==
    \E w \in Waiting : w.review_id = r.review_id /\ actor \in Approvers(w)

GivenElsewhere(r, actor) ==
    actor # r.maker /\ \E p \in Others : p.actor = actor /\ p.tenant = r.tenant

Backed(r) ==
    /\ \A a \in Approvers(r) :
         CameWith(r, a) \/ GivenElsewhere(r, a) \/ PressedBy(r, a, "approve")
    /\ r.state = "rejected" => r \in Waiting \/ \E p \in Personas : PressedBy(r, p.actor, "reject")
    /\ r.state = "amended"  => r \in Waiting \/ \E p \in Personas : PressedBy(r, p.actor, "amend")

DecisionsArePressed == \A r \in store : Backed(r)

(* When the last queue that was asked for is the one on display, it is the *)
(* queue of the persona that acts, and what the page was told is resolved  *)
(* is in it only if a disposition that had been loaded earlier was put     *)
(* over it: every change of the page is followed by a refresh of its own   *)
(* (onPersonaChange, decide; dispose at its put).                          *)
QueueFollowsActor ==
    shown = asked => \A r \in queue :
      r.tenant = persona.tenant /\ (r.review_id \in closed => r.review_id \in reopened)
=============================================================================
