---------------------------- MODULE QueueUIProofs ----------------------------
(***************************************************************************)
(* For any personas, waiting reviews and clicks: no decision is stored for *)
(* somebody who did not press it, and the queue that was asked for last is *)
(* the one of whoever acts.                                                *)
(*                                                                         *)
(* Both arguments are about what a request carries while the page moves    *)
(* on.  A decision carries the persona that pressed it, so that neither    *)
(* what it meets at the service matters, nor what it puts its outcome      *)
(* over.  The last request for the queue carries the persona of right now, *)
(* for whatever changes the persona, or what the page was told is          *)
(* resolved, sends a later one; and a review that was resolved is so until *)
(* that one is answered, or a decision on what was loaded before has been  *)
(* put over it.                                                            *)
(***************************************************************************)
EXTENDS QueueUI, TLAPS

(* Projecting the floor onto a review changes only what it requires.       *)
LEMMA RoutingKeepsRest ==
    ASSUME NEW item \in ReviewItem
    PROVE  LET e == WithEffectiveRouting(Policy, item)
           IN  /\ e \in ReviewItem
               /\ e.review_id = item.review_id /\ e.tenant = item.tenant /\ e.maker = item.maker
               /\ e.state = item.state /\ e.approvals = item.approvals
<1> DEFINE n == RequiredApprovals(Policy, item.severity, item.required)
<1>1. n \in Nat \ {0}
  <2> DEFINE all == {1, item.required, Policy.floors[item.severity]}
  <2>1. all \subseteq Nat \ {0} /\ all # {}
    BY PageAssumption DEF RoutingPolicy, ReviewItem
  <2> QED
    BY <2>1 DEF RequiredApprovals, Max
<1> HIDE DEF n
<1>2. WithEffectiveRouting(Policy, item) = [item EXCEPT !.required = n]
  BY DEF WithEffectiveRouting, n, ReviewItem
<1> QED
  BY <1>1, <1>2 DEF ReviewItem

(* An eligible checker's decision adds the checker's approval, or closes   *)
(* the review, and leaves what it is a decision on.                        *)
LEMMA DisposeDecides ==
    ASSUME NEW item \in ReviewItem, ~IsTerminal(item), NEW who \in Principal,
           CheckEligibility(Policy, item, who) = {}, NEW d \in Dispositions
    PROVE  LET out == Dispose(Policy, item, who, d)
           IN  /\ out \in ReviewItem
               /\ out.review_id = item.review_id /\ out.tenant = item.tenant /\ out.maker = item.maker
               /\ who.actor # item.maker /\ who.tenant = item.tenant
               /\ Approvers(out) \subseteq
                    Approvers(item) \cup (IF d = "approve" THEN {who.actor} ELSE {})
               /\ out.state = "rejected" => d = "reject"
               /\ out.state = "amended" => d = "amend"
<1>1. /\ who.actor \in Actors /\ item.approvals \in Seq(Actors) /\ item.state = "pending"
      /\ who.actor # item.maker /\ who.tenant = item.tenant
  BY DEF Principal, ReviewItem, IsTerminal, CheckEligibility, Findings
<1>2. CASE d = "approve"
  <2>1. PICK state \in {"approved", "pending"} :
          Dispose(Policy, item, who, d) = WithApproval(item, who.actor, state)
    BY <1>2 DEF Dispose, Approved
  <2> DEFINE more == Append(item.approvals, who.actor)
             out  == [item EXCEPT !.approvals = more, !.state = state]
  <2>2. more \in Seq(Actors) /\ Range(more) = Range(item.approvals) \cup {who.actor}
    BY <1>1 DEF Range
  <2> HIDE DEF more
  <2>3. /\ out \in ReviewItem /\ out.approvals = more /\ out.state = state
        /\ out.review_id = item.review_id /\ out.tenant = item.tenant /\ out.maker = item.maker
    BY <2>2 DEF ReviewItem, ReviewStates
  <2>4. Dispose(Policy, item, who, d) = out
    BY <2>1 DEF WithApproval, more
  <2> HIDE DEF out
  <2> QED
    BY <1>1, <1>2, <2>2, <2>3, <2>4 DEF Approvers
<1>3. CASE d # "approve"
  <2>1. PICK state \in {"rejected", "amended"} :
          /\ Dispose(Policy, item, who, d) = Resolved(item, state)
          /\ state = "rejected" => d = "reject"
          /\ state = "amended" => d = "amend"
    BY <1>3 DEF Dispose, Dispositions
  <2> DEFINE out == Resolved(item, state)
  <2>2. /\ out \in ReviewItem /\ out.approvals = item.approvals /\ out.state = state
        /\ out.review_id = item.review_id /\ out.tenant = item.tenant /\ out.maker = item.maker
    BY DEF Resolved, ReviewItem, ReviewStates
  <2> HIDE DEF out
  <2> QED
    BY <1>1, <2>1, <2>2 DEF Approvers, out
<1> QED
  BY <1>2, <1>3

-----------------------------------------------------------------------------
(* What the handlers hold. *)

(* A review whose every decision is somebody's.                            *)
Good(r) == r \in ReviewItem /\ Backed(r)

IsCall(call) ==
    call = [ no |-> call.no, what |-> call.what, as |-> call.as, id |-> call.id,
             disposition |-> call.disposition, draft |-> call.draft, answer |-> call.answer ]

(* A decision that is on its way was pressed by the persona it carries,    *)
(* and so was what its handler is about to put.                            *)
SoundCall(call) ==
    /\ IsCall(call) /\ call.as \in Personas
    /\ call.what = "decide" =>
         call.disposition \in Dispositions /\ <<call.as, call.id, call.disposition>> \in pressed
    /\ call.draft # Nothing =>
         call.what = "decide" /\ Good(call.draft) /\ call.draft.review_id = call.id

ElsewhereIsGood ==
    /\ elsewhere = [who \in Others |-> elsewhere[who]]
    /\ \A who \in Others : elsewhere[who] # Nothing => Good(elsewhere[who])

PressInv ==
    /\ persona \in Personas
    /\ \A r \in store : Good(r)
    /\ \A call \in calls : SoundCall(call)
    /\ ElsewhereIsGood

(* What was pressed stays pressed.                                         *)
LEMMA BackingStays ==
    ASSUME Next
    PROVE  /\ pressed \subseteq pressed'
           /\ \A r : Good(r) => Good(r)'
           /\ \A call : SoundCall(call) => SoundCall(call)'
<1>1. pressed \subseteq pressed'
  BY DEF Next, OnPersonaChange, Select, Decide, SeedDemoItem, OtherDecides, OtherPuts, Serve,
         ShowQueue, Submitted, Decided, Throws
<1>2. \A r : Good(r) => Good(r)'
  BY <1>1 DEF Good, Backed, CameWith, GivenElsewhere, PressedBy
<1> QED
  BY <1>1, <1>2 DEF SoundCall, IsCall

(* A decision on a stored review is backed by whoever makes it.            *)
LEMMA DecidedIsGood ==
    ASSUME PressInv, NEW who \in Principal, NEW id, NEW item \in Loaded(who, id),
           CheckEligibility(Policy, item, who) = {}, NEW d \in Dispositions,
           \/ who \in Others /\ d = "approve"
           \/ who \in Personas /\ << who, id, d >> \in pressed
    PROVE  LET out == Dispose(Policy, item, who, d)
           IN  Good(out) /\ out.review_id = id
<1>1. PICK r \in store : /\ r.review_id = id /\ r.tenant = who.tenant /\ ~IsTerminal(r)
                         /\ item = WithEffectiveRouting(Policy, r)
  BY DEF Loaded
<1>2. r \in ReviewItem /\ Backed(r)
  BY DEF PressInv, Good
<1>3. /\ item \in ReviewItem /\ ~IsTerminal(item)
      /\ item.review_id = r.review_id /\ item.tenant = r.tenant /\ item.maker = r.maker
      /\ Approvers(item) = Approvers(r)
  BY <1>1, <1>2, RoutingKeepsRest DEF IsTerminal, Approvers
<1> DEFINE out == Dispose(Policy, item, who, d)
<1>4. /\ out \in ReviewItem
      /\ out.review_id = item.review_id /\ out.tenant = item.tenant /\ out.maker = item.maker
      /\ who.actor # item.maker /\ who.tenant = item.tenant
      /\ Approvers(out) \subseteq Approvers(item) \cup (IF d = "approve" THEN {who.actor} ELSE {})
      /\ out.state = "rejected" => d = "reject"
      /\ out.state = "amended" => d = "amend"
  BY <1>3, DisposeDecides
<1> HIDE DEF out
<1>5. ASSUME who \in Personas, << who, id, d >> \in pressed
      PROVE  PressedBy(out, who.actor, d)
  BY <1>1, <1>3, <1>4, <1>5 DEF PressedBy
<1>6. ASSUME NEW a \in Approvers(out)
      PROVE  CameWith(out, a) \/ GivenElsewhere(out, a) \/ PressedBy(out, a, "approve")
  <2>1. CASE a \in Approvers(r)
    BY <1>2, <1>3, <1>4, <2>1 DEF Backed, CameWith, GivenElsewhere, PressedBy
  <2>2. CASE a \notin Approvers(r)
    <3>1. d = "approve" /\ a = who.actor
      BY <1>3, <1>4, <2>2
    <3> QED
      BY <1>4, <1>5, <3>1 DEF GivenElsewhere
  <2> QED
    BY <2>1, <2>2
<1>7. Backed(out)
  BY <1>4, <1>5, <1>6 DEF Backed
<1> QED
  BY <1>1, <1>3, <1>4, <1>7 DEF Good, out

-----------------------------------------------------------------------------
(* What a step does to the rows. *)

(* A row joins that is of no review of before.                             *)
Joins ==
    \E item \in ReviewItem :
      /\ \A r \in store : r.review_id # item.review_id
      /\ item.state = "pending" /\ Approvers(item) = {}
      /\ store' = Put(item)

LEMMA SubmitJoins ==
    ASSUME PressInv, NEW call \in calls, ServeSubmit(call)
    PROVE  Joins
<1>1. call.as \in Personas /\ call.as \in Principal
  BY PageAssumption DEF PressInv, SoundCall
<1> DEFINE plain(id) == [ review_id |-> id, tenant |-> Caller(call).tenant,
                          maker |-> Caller(call).actor, severity |-> DemoSeverity,
                          required |-> 1, sod_group |-> DemoGroup, source_key |-> NoKey,
                          state |-> "pending", approvals |-> << >> ]
           item(id)  == WithEffectiveRouting(Policy, plain(id))
<1>2. PICK id \in ReviewIds : (\A r \in store : r.review_id # id) /\ store' = Put(item(id))
  BY DEF ServeSubmit
<1>3. /\ plain(id) \in ReviewItem /\ plain(id).review_id = id
      /\ plain(id).state = "pending" /\ plain(id).approvals = << >>
  BY <1>1, PageAssumption DEF ReviewItem, ReviewStates, Caller, Principal
<1> HIDE DEF plain
<1>4. /\ item(id) \in ReviewItem /\ item(id).review_id = id
      /\ item(id).state = "pending" /\ item(id).approvals = << >>
  BY <1>3, RoutingKeepsRest
<1>5. Approvers(item(id)) = {}
  BY <1>4 DEF Approvers, Range
<1> HIDE DEF item
<1> QED
  BY <1>2, <1>4, <1>5 DEF Joins

LEMMA StepsOnRows ==
    ASSUME PressInv, Next
    PROVE  \/ UNCHANGED << store, reopened >>
           \/ Joins /\ UNCHANGED reopened
           \/ \E item : Good(item) /\ Puts(item)
<1>1. CASE \E call \in calls : Serve(call)
  <2>1. PICK call \in calls :
          ServeQueue(call) \/ ServeSubmit(call) \/ ServeDecide(call) \/ PutDecision(call)
    BY <1>1 DEF Serve
  <2>2. CASE ServeQueue(call) \/ ServeDecide(call)
    BY <2>2 DEF ServeQueue, ServeDecide, rows
  <2>3. CASE ServeSubmit(call)
    BY <2>3, SubmitJoins DEF ServeSubmit
  <2>4. CASE PutDecision(call)
    BY <2>4 DEF PutDecision, PressInv, SoundCall
  <2> QED
    BY <2>1, <2>2, <2>3, <2>4
<1>2. ASSUME NEW who \in Others, OtherPuts(who)
      PROVE  UNCHANGED << store, reopened >> \/ \E item : Good(item) /\ Puts(item)
  BY <1>2 DEF OtherPuts, PressInv, ElsewhereIsGood
<1>3. ASSUME ~\E who \in Others : OtherPuts(who), ~\E call \in calls : Serve(call)
      PROVE  UNCHANGED << store, reopened >>
  BY <1>3 DEF Next, OnPersonaChange, Select, Decide, SeedDemoItem, OtherDecides, ShowQueue,
              Submitted, Decided, Throws, rows
<1> QED
  BY <1>1, <1>2, <1>3

LEMMA RowsStayGood ==
    ASSUME PressInv, Next
    PROVE  \A r \in store' : Good(r)'
<1>1. \A r \in store' : Good(r)
  <2>1. CASE UNCHANGED << store, reopened >>
    BY <2>1 DEF PressInv
  <2>2. CASE Joins
    BY <2>2 DEF Joins, Put, Good, Backed, PressInv
  <2>3. ASSUME NEW item, Good(item), Puts(item)
        PROVE  \A r \in store' : Good(r)
    BY <2>3 DEF Puts, Put, PressInv
  <2> QED
    BY <2>1, <2>2, <2>3, StepsOnRows
<1> QED
  BY <1>1, BackingStays

-----------------------------------------------------------------------------
(* What a step does to the requests in flight. *)

(* A request that sets out is sound, and so are those it leaves.           *)
LEMMA SendingStays ==
    ASSUME PressInv, Next, NEW rest, rest \subseteq calls, NEW call, SoundCall(call)',
           calls' \subseteq rest \cup {call}
    PROVE  \A c \in calls' : SoundCall(c)'
BY BackingStays DEF PressInv

LEMMA PlainCallIsSound ==
    ASSUME NEW what \in {"queue", "submit"}, NEW who \in Personas,
           NEW call, call = Call(what, who, Nothing, Nothing)
    PROVE  SoundCall(call)'
BY DEF SoundCall, Call, IsCall

LEMMA ServedStaysSound ==
    ASSUME PressInv, Next, NEW call \in calls, Serve(call)
    PROVE  \A c \in calls' : SoundCall(c)'
<1>1. SoundCall(call) /\ IsCall(call) /\ call.as \in Personas /\ call.as \in Principal
  BY PageAssumption DEF PressInv, SoundCall
<1>2. ASSUME NEW answer, Answered(call, answer)
      PROVE  \A c \in calls' : SoundCall(c)'
  <2> DEFINE next == [call EXCEPT !.answer = answer]
  <2>1. /\ IsCall(next) /\ next.what = call.what /\ next.as = call.as /\ next.id = call.id
        /\ next.disposition = call.disposition /\ next.draft = call.draft
    BY <1>1 DEF IsCall
  <2>2. calls' \subseteq calls \cup {next}
    BY <1>2 DEF Answered
  <2> HIDE DEF next
  <2>3. SoundCall(next)
    BY <1>1, <2>1 DEF SoundCall
  <2>4. SoundCall(next)'
    BY <2>3, BackingStays
  <2> QED
    BY <2>2, <2>4, SendingStays
<1>3. ASSUME NEW draft, call.what = "decide", Good(draft), draft.review_id = call.id,
             calls' = (calls \ {call}) \cup {[call EXCEPT !.draft = draft]}
      PROVE  \A c \in calls' : SoundCall(c)'
  <2> DEFINE next == [call EXCEPT !.draft = draft]
  <2>1. /\ IsCall(next) /\ next.what = call.what /\ next.as = call.as /\ next.id = call.id
        /\ next.disposition = call.disposition /\ next.draft = draft
    BY <1>1 DEF IsCall
  <2>2. calls' \subseteq calls \cup {next}
    BY <1>3
  <2> HIDE DEF next
  <2>3. SoundCall(next)
    BY <1>1, <1>3, <2>1 DEF SoundCall
  <2>4. SoundCall(next)'
    BY <2>3, BackingStays
  <2> QED
    BY <2>2, <2>4, SendingStays
<1>4. CASE ServeQueue(call) \/ ServeSubmit(call) \/ PutDecision(call)
  BY <1>2, <1>4 DEF ServeQueue, ServeSubmit, PutDecision
<1>5. CASE ServeDecide(call)
  <2>1. CASE \E answer : Answered(call, answer)
    BY <1>2, <2>1
  <2>2. ASSUME NEW item \in Loaded(call.as, call.id), CheckEligibility(Policy, item, call.as) = {},
               calls' = (calls \ {call}) \cup
                 {[call EXCEPT !.draft = Dispose(Policy, item, call.as, call.disposition)]}
        PROVE  \A c \in calls' : SoundCall(c)'
    <3>1. /\ call.what = "decide" /\ call.disposition \in Dispositions
          /\ << call.as, call.id, call.disposition >> \in pressed
      BY <1>1, <1>5 DEF ServeDecide, SoundCall
    <3> DEFINE out == Dispose(Policy, item, call.as, call.disposition)
    <3>2. Good(out) /\ out.review_id = call.id
      BY <1>1, <2>2, <3>1, DecidedIsGood
    <3> HIDE DEF out
    <3>3. calls' = (calls \ {call}) \cup {[call EXCEPT !.draft = out]}
      BY <2>2 DEF out
    <3> QED
      BY <1>3, <3>1, <3>2, <3>3
  <2> QED
    BY <1>5, <2>1, <2>2 DEF ServeDecide, Caller
<1> QED
  BY <1>4, <1>5 DEF Serve

LEMMA CallsStaySound ==
    ASSUME PressInv, Next
    PROVE  persona' \in Personas /\ \A c \in calls' : SoundCall(c)'
<1>1. persona \in Personas
  BY DEF PressInv
<1>2. ASSUME NEW rest, rest \subseteq calls, NEW who \in Personas, RefreshQueue(who, rest)
      PROVE  \A c \in calls' : SoundCall(c)'
  <2>1. PICK new : new = Call("queue", who, Nothing, Nothing)
    OBVIOUS
  <2>2. calls' = rest \cup {new}
    BY <1>2, <2>1 DEF RefreshQueue, Sends
  <2>3. SoundCall(new)'
    BY <1>2, <2>1, PlainCallIsSound
  <2> QED
    BY <1>2, <2>2, <2>3, SendingStays
<1>3. ASSUME calls' \subseteq calls
      PROVE  \A c \in calls' : SoundCall(c)'
  BY <1>3, BackingStays DEF PressInv
<1>4. ASSUME NEW p \in Personas, OnPersonaChange(p)
      PROVE  persona' \in Personas /\ \A c \in calls' : SoundCall(c)'
  BY <1>2, <1>4 DEF OnPersonaChange
<1>5. ASSUME NEW item, Select(item)
      PROVE  persona' \in Personas /\ \A c \in calls' : SoundCall(c)'
  BY <1>1, <1>3, <1>5 DEF Select
<1>6. ASSUME NEW d \in Dispositions, Decide(d)
      PROVE  persona' \in Personas /\ \A c \in calls' : SoundCall(c)'
  <2>0. PICK new : new = Call("decide", persona, selected.review_id, d)
    OBVIOUS
  <2>1. /\ calls' = calls \cup {new} /\ persona' = persona
        /\ pressed' = pressed \cup {<< persona, selected.review_id, d >>}
    BY <1>6, <2>0 DEF Decide, Sends, page
  <2>2. /\ IsCall(new) /\ new.as = persona /\ new.id = selected.review_id
        /\ new.disposition = d /\ new.draft = Nothing
    BY <2>0 DEF Call, IsCall
  <2>3. SoundCall(new)'
    BY <1>1, <2>1, <2>2 DEF SoundCall, IsCall
  <2> QED
    BY <1>1, <2>1, <2>3, SendingStays
<1>7. CASE SeedDemoItem
  <2>1. PICK new : new = Call("submit", persona, Nothing, Nothing)
    OBVIOUS
  <2>2. calls' = calls \cup {new} /\ persona' = persona
    BY <1>7, <2>1 DEF SeedDemoItem, Sends, page
  <2>3. SoundCall(new)'
    BY <1>1, <2>1, PlainCallIsSound
  <2> QED
    BY <1>1, <2>2, <2>3, SendingStays
<1>8. ASSUME NEW who \in Others, OtherDecides(who) \/ OtherPuts(who)
      PROVE  persona' \in Personas /\ \A c \in calls' : SoundCall(c)'
  BY <1>1, <1>3, <1>8 DEF OtherDecides, OtherPuts, page
<1>9. ASSUME NEW call \in calls, Serve(call)
      PROVE  persona' \in Personas /\ \A c \in calls' : SoundCall(c)'
  BY <1>1, <1>9, ServedStaysSound DEF Serve, page
<1>10. ASSUME NEW call \in calls, Submitted(call) \/ Decided(call)
       PROVE  persona' \in Personas /\ \A c \in calls' : SoundCall(c)'
  BY <1>1, <1>2, <1>10 DEF Submitted, Decided, page
<1>11. ASSUME NEW call \in calls, ShowQueue(call) \/ Throws(call)
       PROVE  persona' \in Personas /\ \A c \in calls' : SoundCall(c)'
  BY <1>1, <1>3, <1>11 DEF ShowQueue, Throws, page
<1> QED
  BY <1>4, <1>5, <1>6, <1>7, <1>8, <1>9, <1>10, <1>11 DEF Next

-----------------------------------------------------------------------------
LEMMA ElsewhereStaysGood ==
    ASSUME PressInv, Next
    PROVE  ElsewhereIsGood'
<1> DEFINE Typed == elsewhere' = [who \in Others |-> elsewhere'[who]]
           Held  == \A who \in Others : elsewhere'[who] # Nothing => Good(elsewhere'[who])
<1>1. elsewhere = [who \in Others |-> elsewhere[who]]
  BY DEF PressInv, ElsewhereIsGood
<1>2. \A who \in Others : elsewhere[who] # Nothing => Good(elsewhere[who])
  BY DEF PressInv, ElsewhereIsGood
<1>3. ASSUME NEW w \in Others, NEW out, out # Nothing => Good(out),
             elsewhere' = [elsewhere EXCEPT ![w] = out]
      PROVE  Typed /\ Held
  <2>1. Typed
    BY <1>1, <1>3
  <2>2. ASSUME NEW who \in Others PROVE elsewhere'[who] = IF who = w THEN out ELSE elsewhere[who]
    BY <1>1, <1>3
  <2> QED
    BY <1>2, <1>3, <2>1, <2>2
<1>4. ASSUME NEW w \in Others, OtherDecides(w)
      PROVE  Typed /\ Held
  <2>1. PICK id \in ReviewIds : \E item \in Loaded(w, id) :
          /\ CheckEligibility(Policy, item, w) = {}
          /\ elsewhere' = [elsewhere EXCEPT ![w] = Dispose(Policy, item, w, "approve")]
    BY <1>4 DEF OtherDecides
  <2>2. PICK item \in Loaded(w, id) :
          /\ CheckEligibility(Policy, item, w) = {}
          /\ elsewhere' = [elsewhere EXCEPT ![w] = Dispose(Policy, item, w, "approve")]
    BY <2>1
  <2>3. Good(Dispose(Policy, item, w, "approve"))
    BY <2>2, DecidedIsGood, PageAssumption DEF Dispositions
  <2> DEFINE out == Dispose(Policy, item, w, "approve")
  <2>4. Good(out) /\ elsewhere' = [elsewhere EXCEPT ![w] = out]
    BY <2>2, <2>3
  <2> HIDE DEF out, Typed, Held
  <2> QED
    BY <1>3, <2>4
<1>5. ASSUME NEW w \in Others, OtherPuts(w)
      PROVE  Typed /\ Held
  BY <1>3, <1>5 DEF OtherPuts
<1>6. ASSUME ~\E w \in Others : OtherDecides(w) \/ OtherPuts(w)
      PROVE  elsewhere' = elsewhere
  BY <1>6 DEF Next, OnPersonaChange, Select, Decide, SeedDemoItem, Serve, ServeQueue, ServeSubmit,
              ServeDecide, PutDecision, ShowQueue, Submitted, Decided, Throws, rows
<1>7. Typed /\ Held
  <2>1. CASE elsewhere' = elsewhere
    BY <1>1, <1>2, <2>1
  <2> HIDE DEF Typed, Held
  <2> QED
    BY <1>4, <1>5, <1>6, <2>1
<1>8. ASSUME NEW who \in Others, NEW r, r = elsewhere'[who], r # Nothing
      PROVE  Good(r)'
  BY <1>7, <1>8, BackingStays
<1> QED
  BY <1>7, <1>8 DEF ElsewhereIsGood

LEMMA PressInit == Init => PressInv
<1> SUFFICES ASSUME Init PROVE PressInv
  OBVIOUS
<1>1. \A r \in store : Good(r)
  BY PageAssumption DEF Init, Good, Backed, CameWith
<1>2. \A call \in calls : SoundCall(call)
  BY PageAssumption DEF Init, SoundCall, IsCall
<1>3. /\ elsewhere = [who \in Others |-> elsewhere[who]]
      /\ \A who \in Others : elsewhere[who] = Nothing
  BY DEF Init
<1> QED
  BY <1>1, <1>2, <1>3, PageAssumption DEF Init, PressInv, ElsewhereIsGood

LEMMA PressStays == PressInv /\ [Next]_vars => PressInv'
<1> SUFFICES ASSUME PressInv, [Next]_vars
             PROVE  PressInv'
  OBVIOUS
<1>1. CASE UNCHANGED vars
  <2>1. pressed' = pressed /\ UNCHANGED << persona, calls, store, elsewhere >>
    BY <1>1 DEF vars, page, rows
  <2>2. \A r : Good(r) => Good(r)'
    BY <2>1 DEF Good, Backed, CameWith, GivenElsewhere, PressedBy
  <2>3. \A call : SoundCall(call) => SoundCall(call)'
    BY <2>1, <2>2 DEF SoundCall, IsCall
  <2> QED
    BY <2>1, <2>2, <2>3 DEF PressInv, ElsewhereIsGood
<1>2. CASE Next
  BY <1>2, RowsStayGood, CallsStaySound, ElsewhereStaysGood DEF PressInv
<1> QED
  BY <1>1, <1>2

(* Whatever is stored of a review beyond what it came with was decided     *)
(* elsewhere, or pressed on this page by the persona that it showed        *)
(* (headers; the blind put of dispose).                                    *)
THEOREM DecisionsWerePressed == Spec => []DecisionsArePressed
<1>1. PressInv => DecisionsArePressed
  BY DEF PressInv, DecisionsArePressed, Good
<1> QED
  BY <1>1, PressInit, PressStays, PTL DEF Spec

-----------------------------------------------------------------------------
(* The queue on display. *)

(* A review that is resolved, or was, until a put reopened it.             *)
IsOver(id) ==
    \/ id \in reopened
    \/ /\ \E r \in store : r.review_id = id
       /\ \A r \in store : r.review_id = id => IsTerminal(r)

(* A queue that who may be shown, where what the page was told is resolved *)
(* has been reopened.                                                      *)
IsOf(items, who) ==
    \A r \in items : r.tenant = who.tenant /\ (r.review_id \in closed => r.review_id \in reopened)

Numbered == /\ sent \in Nat /\ asked \in Nat /\ shown \in Nat
            /\ asked <= sent /\ shown <= sent
            /\ \A call \in calls : call.no \in Nat /\ call.no <= sent

(* The last request for the queue is of whoever acts now.                  *)
LastIsOfActor ==
    \A call \in calls : call.what = "queue" /\ call.no = asked =>
      /\ call.as = persona
      /\ call.answer # Nothing => IsOf(call.answer.items, persona)

(* What the page knows, or is about to be told, to be resolved.            *)
TellsOver(call) ==
    call.what = "decide" /\ call.answer # Nothing =>
      (call.answer.status \in {200, 403} /\ IsTerminal(call.answer.item) => IsOver(call.id))

ToldIsOver ==
    /\ \A id \in closed : IsOver(id)
    /\ \A call \in calls : TellsOver(call)

FollowInv == Numbered /\ LastIsOfActor /\ ToldIsOver /\ QueueFollowsActor

(* A review that is over stays so, or is reopened by the put of something  *)
(* that was decided on before; a review that was reopened has been.        *)
LEMMA OverStays ==
    ASSUME PressInv, Next
    PROVE  /\ reopened \subseteq reopened'
           /\ \A id : IsOver(id) => IsOver(id)'
           /\ \A call : TellsOver(call) => TellsOver(call)'
<1>1. reopened \subseteq reopened'
  BY StepsOnRows DEF Puts
<1>2. ASSUME NEW id, IsOver(id), id \notin reopened'
      PROVE  IsOver(id)'
  <2>1. /\ \E r \in store : r.review_id = id
        /\ \A r \in store : r.review_id = id => IsTerminal(r)
    BY <1>1, <1>2 DEF IsOver
  <2>2. CASE UNCHANGED << store, reopened >>
    BY <2>1, <2>2 DEF IsOver
  <2>3. CASE Joins
    <3>1. PICK item \in ReviewItem : /\ \A r \in store : r.review_id # item.review_id
                                     /\ store' = Put(item)
      BY <2>3 DEF Joins
    <3> QED
      BY <2>1, <3>1 DEF IsOver, Put
  <2>4. ASSUME NEW item, Puts(item)
        PROVE  IsOver(id)'
    <3>1. /\ store' = Put(item)
          /\ \A r \in store : r.review_id = item.review_id /\ IsTerminal(r) /\ ~IsTerminal(item)
               => r.review_id \in reopened'
      BY <2>4 DEF Puts
    <3>2. item.review_id = id => IsTerminal(item)
      BY <1>2, <2>1, <3>1
    <3> QED
      BY <2>1, <3>1, <3>2 DEF IsOver, Put
  <2> QED
    BY <2>2, <2>3, <2>4, StepsOnRows
<1>3. \A id : IsOver(id) => IsOver(id)'
  BY <1>2 DEF IsOver
<1> QED
  BY <1>1, <1>3 DEF TellsOver

(* A queue that may be shown to somebody may still be, while the page      *)
(* learns of nothing else that is resolved.                                *)
LEMMA MayStillBeShown ==
    ASSUME PressInv, Next, closed' = closed, NEW items, NEW who, IsOf(items, who)
    PROVE  IsOf(items, who)'
BY OverStays DEF IsOf

(* A refresh is the last request for the queue, and of whoever acts.       *)
LEMMA RefreshIsLast ==
    ASSUME Numbered, NEW rest, rest \subseteq calls, RefreshQueue(persona', rest), shown' = shown
    PROVE  Numbered' /\ LastIsOfActor' /\ QueueFollowsActor'
<1>0. PICK new : new = Call("queue", persona', Nothing, Nothing)
  OBVIOUS
<1>1. /\ new.no = sent + 1 /\ new.what = "queue" /\ new.as = persona' /\ new.answer = Nothing
  BY <1>0 DEF Call
<1>2. /\ calls' = rest \cup {new} /\ sent' = sent + 1 /\ asked' = sent + 1
  BY <1>0, <1>1 DEF RefreshQueue, Sends
<1>3. Numbered'
  BY <1>1, <1>2 DEF Numbered
<1>4. LastIsOfActor'
  BY <1>1, <1>2 DEF Numbered, LastIsOfActor
<1>5. QueueFollowsActor'
  BY <1>2 DEF Numbered, QueueFollowsActor
<1> QED
  BY <1>3, <1>4, <1>5

(* What is answered to somebody is what that one may be shown.             *)
LEMMA AnswerIsOf ==
    ASSUME PressInv, ToldIsOver, NEW who
    PROVE  IsOf(ListQueue(who), who)
<1> SUFFICES ASSUME NEW e \in ListQueue(who)
             PROVE  e.tenant = who.tenant /\ (e.review_id \in closed => e.review_id \in reopened)
  BY DEF IsOf
<1>1. PICK r \in store : /\ r.tenant = who.tenant /\ ~IsTerminal(r)
                         /\ e = WithEffectiveRouting(Policy, r)
  BY DEF ListQueue
<1>2. e.tenant = r.tenant /\ e.review_id = r.review_id
  BY <1>1, RoutingKeepsRest DEF PressInv, Good
<1> QED
  BY <1>1, <1>2 DEF ToldIsOver, IsOver

(* A decision is answered with a resolved review once it has put that.     *)
LEMMA AnswerIsOver ==
    ASSUME PressInv, NEW call \in calls, ServeDecide(call) \/ PutDecision(call)
    PROVE  \/ \E draft : calls' = (calls \ {call}) \cup {[call EXCEPT !.draft = draft]}
           \/ \E answer :
                /\ Answered(call, answer)
                /\ answer.status \in {200, 403} /\ IsTerminal(answer.item) => IsOver(call.id)'
<1>1. CASE ServeDecide(call)
  <2>1. ASSUME NEW item \in Loaded(call.as, call.id)
        PROVE  ~IsTerminal(item)
    <3>1. PICK r \in store : ~IsTerminal(r) /\ item = WithEffectiveRouting(Policy, r)
      BY DEF Loaded
    <3> QED
      BY <3>1, RoutingKeepsRest DEF PressInv, Good, IsTerminal
  <2>2. ASSUME NEW status \in {404, 409}, Answered(call, [status |-> status])
        PROVE  \E answer : Answered(call, answer) /\ answer.status \notin {200, 403}
    <3> DEFINE answer == [status |-> status]
    <3>1. Answered(call, answer) /\ answer.status \notin {200, 403}
      BY <2>2
    <3> HIDE DEF answer
    <3> QED
      BY <3>1
  <2>3. ASSUME NEW item \in Loaded(call.as, call.id),
               Answered(call, [status |-> 403, item |-> item])
        PROVE  \E answer : Answered(call, answer) /\ ~IsTerminal(answer.item)
    <3> DEFINE answer == [status |-> 403, item |-> item]
    <3>1. Answered(call, answer) /\ ~IsTerminal(answer.item)
      BY <2>1, <2>3
    <3> HIDE DEF answer
    <3> QED
      BY <3>1
  <2>4. CASE \E status \in {404, 409} : Answered(call, [status |-> status])
    BY <2>2, <2>4
  <2>5. CASE \E item \in Loaded(call.as, call.id) :
               \/ calls' = (calls \ {call}) \cup
                    {[call EXCEPT !.draft = Dispose(Policy, item, call.as, call.disposition)]}
               \/ Answered(call, [status |-> 403, item |-> item])
    BY <2>3, <2>5
  <2>6. ASSUME NEW found \in BOOLEAN, Answered(call, [status |-> IF found THEN 409 ELSE 404])
        PROVE  \E status \in {404, 409} : Answered(call, [status |-> status])
    BY <2>6
  <2> DEFINE found == \E r \in store : r.review_id = call.id /\ r.tenant = call.as.tenant
  <2>7. \/ Answered(call, [status |-> IF found THEN 409 ELSE 404])
        \/ \E item \in Loaded(call.as, call.id) :
             \/ calls' = (calls \ {call}) \cup
                  {[call EXCEPT !.draft = Dispose(Policy, item, call.as, call.disposition)]}
             \/ Answered(call, [status |-> 403, item |-> item])
    BY <1>1 DEF ServeDecide, Caller
  <2>8. found \in BOOLEAN
    OBVIOUS
  <2> HIDE DEF found
  <2>9. CASE Answered(call, [status |-> IF found THEN 409 ELSE 404])
    BY <2>4, <2>6, <2>8, <2>9
  <2> QED
    BY <2>5, <2>7, <2>9
<1>2. CASE PutDecision(call)
  <2>1. store' = Put(call.draft) /\ call.draft.review_id = call.id
    BY <1>2 DEF PutDecision, Puts, PressInv, SoundCall
  <2>2. IsTerminal(call.draft) => IsOver(call.id)'
    BY <2>1 DEF IsOver, Put
  <2>3. PICK answer : answer = [status |-> 200, item |-> call.draft]
    OBVIOUS
  <2>4. Answered(call, answer) /\ answer.item = call.draft
    BY <1>2, <2>3 DEF PutDecision
  <2> QED
    BY <2>2, <2>4
<1> QED
  BY <1>1, <1>2

(* A request is served: a decision is about to be put, or it is answered.  *)
LEMMA ServeFollows ==
    ASSUME PressInv, FollowInv, Next, NEW call \in calls, Serve(call)
    PROVE  FollowInv'
<1>1. /\ UNCHANGED << persona, queue, sent, shown, asked, closed >>
      /\ IsCall(call) /\ call.no \in Nat /\ call.no <= sent /\ call.answer = Nothing
  BY DEF Serve, page, FollowInv, Numbered, PressInv, SoundCall
<1>2. QueueFollowsActor'
  BY <1>1, OverStays DEF FollowInv, QueueFollowsActor
<1>3. ASSUME NEW next, calls' = (calls \ {call}) \cup {next},
             next.no = call.no, next.what = call.what, next.as = call.as,
             next.what = "queue" /\ next.answer # Nothing => IsOf(next.answer.items, next.as),
             TellsOver(next)'
      PROVE  FollowInv'
  <2>1. Numbered'
    BY <1>1, <1>3 DEF FollowInv, Numbered
  <2>2. LastIsOfActor'
    BY <1>1, <1>3, MayStillBeShown DEF FollowInv, LastIsOfActor
  <2>3. ToldIsOver'
    BY <1>1, <1>3, OverStays DEF FollowInv, ToldIsOver
  <2> QED
    BY <1>2, <2>1, <2>2, <2>3 DEF FollowInv
<1>4. ASSUME NEW answer, Answered(call, answer),
             call.what = "queue" => answer.items = ListQueue(call.as),
             call.what = "decide" /\ answer.status \in {200, 403} /\ IsTerminal(answer.item)
               => IsOver(call.id)'
      PROVE  FollowInv'
  <2>1. PICK next : next = [call EXCEPT !.answer = answer]
    OBVIOUS
  <2>2. /\ next.no = call.no /\ next.what = call.what /\ next.as = call.as
        /\ next.id = call.id /\ next.answer = answer
    BY <1>1, <2>1 DEF IsCall
  <2>3. next.what = "queue" => IsOf(next.answer.items, next.as)
    BY <1>4, <2>2, AnswerIsOf DEF FollowInv
  <2>4. TellsOver(next)'
    BY <1>4, <2>2 DEF TellsOver
  <2>5. calls' = (calls \ {call}) \cup {next}
    BY <1>4, <2>1 DEF Answered
  <2> QED
    BY <1>3, <2>2, <2>3, <2>4, <2>5
<1>5. ASSUME NEW draft, calls' = (calls \ {call}) \cup {[call EXCEPT !.draft = draft]}
      PROVE  FollowInv'
  <2>1. PICK next : next = [call EXCEPT !.draft = draft]
    OBVIOUS
  <2>2. /\ next.no = call.no /\ next.what = call.what /\ next.as = call.as
        /\ next.id = call.id /\ next.answer = Nothing
    BY <1>1, <2>1 DEF IsCall
  <2>3. TellsOver(next)'
    BY <2>2 DEF TellsOver
  <2>4. calls' = (calls \ {call}) \cup {next}
    BY <1>5, <2>1
  <2> QED
    BY <1>3, <2>2, <2>3, <2>4
<1>6. CASE ServeQueue(call)
  <2>1. PICK answer : answer = [status |-> 200, items |-> ListQueue(Caller(call))]
    OBVIOUS
  <2> QED
    BY <1>4, <1>6, <2>1 DEF ServeQueue, Caller
<1>7. CASE ServeSubmit(call)
  <2>1. PICK answer : answer = [status |-> 201]
    OBVIOUS
  <2> QED
    BY <1>4, <1>7, <2>1 DEF ServeSubmit
<1>8. CASE ServeDecide(call) \/ PutDecision(call)
  <2>1. call.what = "decide"
    BY <1>8 DEF ServeDecide, PutDecision, PressInv, SoundCall
  <2> QED
    BY <1>4, <1>5, <1>8, <2>1, AnswerIsOver
<1> QED
  BY <1>6, <1>7, <1>8 DEF Serve

LEMMA FollowInit == Init => FollowInv
<1> SUFFICES ASSUME Init PROVE FollowInv
  OBVIOUS
<1>1. \A call \in calls : /\ call.no = 1 /\ call.as = persona
                          /\ call.what = "queue" /\ call.answer = Nothing
  BY DEF Init
<1> QED
  BY <1>1 DEF Init, FollowInv, Numbered, LastIsOfActor, ToldIsOver, TellsOver, QueueFollowsActor

LEMMA FollowStays == PressInv /\ FollowInv /\ [Next]_vars => FollowInv'
<1> SUFFICES ASSUME PressInv, FollowInv, [Next]_vars
             PROVE  FollowInv'
  OBVIOUS
<1> USE DEF FollowInv
<1>1. CASE UNCHANGED vars
  BY <1>1 DEF vars, page, rows, Numbered, LastIsOfActor, ToldIsOver, TellsOver, QueueFollowsActor,
              IsOf, IsOver
<1>2. CASE Next
  <2>1. ASSUME NEW rest, rest \subseteq calls, NEW call, calls' \subseteq rest \cup {call},
               call.answer = Nothing, \A id \in closed' : IsOver(id)
        PROVE  ToldIsOver'
    <3>1. TellsOver(call)'
      BY <2>1 DEF TellsOver
    <3> QED
      BY <1>2, <2>1, <3>1, OverStays DEF ToldIsOver
  <2>2. ASSUME NEW rest, rest \subseteq calls, RefreshQueue(persona', rest), shown' = shown,
               \A id \in closed' : IsOver(id)
        PROVE  FollowInv'
    <3>1. PICK new : new = Call("queue", persona', Nothing, Nothing)
      OBVIOUS
    <3>2. calls' = rest \cup {new} /\ new.answer = Nothing
      BY <2>2, <3>1 DEF RefreshQueue, Sends, Call
    <3>3. ToldIsOver'
      BY <2>1, <2>2, <3>2
    <3> QED
      BY <2>2, <3>3, RefreshIsLast
  <2>3. ASSUME UNCHANGED << persona, queue, asked, shown, sent, closed >>, calls' \subseteq calls
        PROVE  FollowInv'
    <3>1. Numbered' /\ QueueFollowsActor'
      BY <1>2, <2>3, OverStays DEF Numbered, QueueFollowsActor
    <3>2. LastIsOfActor'
      BY <1>2, <2>3, MayStillBeShown DEF LastIsOfActor
    <3>3. ToldIsOver'
      BY <1>2, <2>3, OverStays DEF ToldIsOver
    <3> QED
      BY <3>1, <3>2, <3>3
  <2>4. ASSUME NEW call, call.no = sent + 1, call.what # "queue", call.answer = Nothing,
               Sends(call, calls), UNCHANGED << persona, queue, shown, closed >>
        PROVE  FollowInv'
    <3>1. calls' = calls \cup {call} /\ sent' = sent + 1 /\ asked' = asked
      BY <2>4 DEF Sends
    <3>2. ToldIsOver'
      BY <2>1, <2>4, <3>1 DEF ToldIsOver
    <3>3. Numbered'
      BY <2>4, <3>1 DEF Numbered
    <3>4. LastIsOfActor'
      BY <1>2, <2>4, <3>1, MayStillBeShown DEF LastIsOfActor
    <3>5. QueueFollowsActor'
      BY <1>2, <2>4, <3>1, OverStays DEF QueueFollowsActor
    <3> QED
      BY <3>2, <3>3, <3>4, <3>5
  <2>5. ASSUME NEW p \in Personas, OnPersonaChange(p)
        PROVE  FollowInv'
    BY <2>2, <2>5 DEF OnPersonaChange, ToldIsOver
  <2>6. ASSUME NEW item, Select(item)
        PROVE  FollowInv'
    BY <2>3, <2>6 DEF Select
  <2>7. ASSUME NEW d \in Dispositions, Decide(d)
        PROVE  FollowInv'
    <3>1. PICK new : new = Call("decide", persona, selected.review_id, d)
      OBVIOUS
    <3> QED
      BY <2>4, <2>7, <3>1 DEF Decide, page, Call
  <2>8. CASE SeedDemoItem
    <3>1. PICK new : new = Call("submit", persona, Nothing, Nothing)
      OBVIOUS
    <3> QED
      BY <2>4, <2>8, <3>1 DEF SeedDemoItem, page, Call
  <2>9. ASSUME NEW who \in Others, OtherDecides(who) \/ OtherPuts(who)
        PROVE  FollowInv'
    BY <2>3, <2>9 DEF OtherDecides, OtherPuts, page
  <2>10. ASSUME NEW call \in calls, ShowQueue(call)
         PROVE  FollowInv'
    <3>1. /\ queue' = call.answer.items /\ shown' = call.no /\ calls' = calls \ {call}
          /\ call.what = "queue" /\ call.answer # Nothing
          /\ UNCHANGED << persona, asked, sent, closed, reopened >>
      BY <2>10 DEF ShowQueue, rows
    <3>2. Numbered'
      BY <3>1 DEF Numbered
    <3>3. LastIsOfActor'
      BY <3>1 DEF LastIsOfActor, IsOf
    <3>4. ToldIsOver'
      BY <1>2, <3>1, OverStays DEF ToldIsOver
    <3>5. QueueFollowsActor'
      BY <3>1 DEF LastIsOfActor, QueueFollowsActor, IsOf
    <3> QED
      BY <3>2, <3>3, <3>4, <3>5
  <2>11. ASSUME NEW call \in calls, Submitted(call)
         PROVE  FollowInv'
    BY <2>2, <2>11 DEF Submitted, page, ToldIsOver
  <2>12. ASSUME NEW call \in calls, Decided(call)
         PROVE  FollowInv'
    <3>1. /\ RefreshQueue(persona', calls \ {call}) /\ shown' = shown
          /\ call.what = "decide" /\ call.answer # Nothing /\ call.answer.status \in {200, 403}
          /\ closed' = IF IsTerminal(call.answer.item) THEN closed \cup {call.id} ELSE closed
      BY <2>12 DEF Decided
    <3>2. \A id \in closed' : IsOver(id)
      BY <3>1 DEF ToldIsOver, TellsOver
    <3> QED
      BY <2>2, <3>1, <3>2
  <2>13. ASSUME NEW call \in calls, Throws(call)
         PROVE  FollowInv'
    BY <2>3, <2>13 DEF Throws, page
  <2> QED
    BY <1>2, <2>5, <2>6, <2>7, <2>8, <2>9, <2>10, <2>11, <2>12, <2>13, ServeFollows DEF Next
<1> QED
  BY <1>1, <1>2

(* When the last queue that was asked for is on display, it is the one of  *)
(* the persona that acts, and what the page was told is resolved is in it  *)
(* only if the blind put of an overlapping decision reopened it            *)
(* (onPersonaChange, decide, refreshQueue; dispose).                       *)
THEOREM QueueIsOfActor == Spec => []QueueFollowsActor
<1>1. FollowInv => QueueFollowsActor
  BY DEF FollowInv
<1> QED
  BY <1>1, PressInit, PressStays, FollowInit, FollowStays, PTL DEF Spec
=============================================================================
