------------------------- MODULE ReviewConsoleProofs -------------------------
(***************************************************************************)
(* Theorems about the review console for every number of threads, items,   *)
(* people, tenants and policies, under any interleaving, any failures and  *)
(* any mix of revisions: about the store, about the trail, and, for one    *)
(* handler at a time, about what becomes of a row and the ledger that the  *)
(* console implements.                                                     *)
(*                                                                         *)
(* The invariants speak of the store.  What makes them inductive is that   *)
(* they hold of the drafts too: an item computed from a stale row is still *)
(* a sound item, so the blind put cannot break what is said per item.      *)
(***************************************************************************)
EXTENDS ConsoleLedger, FiniteSetTheorems, TLAPS

(* The requirement computed for an item is a positive number, no less than *)
(* what was asked or stored and than the floor, and computing it again     *)
(* under the same policy changes nothing.                                  *)
LEMMA RequiredApprovalsSound ==
    ASSUME NEW pol \in RoutingPolicy, NEW sev \in Severities, NEW n \in Nat \ {0}
    PROVE  LET r == RequiredApprovals(pol, sev, n)
           IN  /\ r \in Nat \ {0}
               /\ r >= n
               /\ r >= pol.floors[sev]
               /\ RequiredApprovals(pol, sev, r) = r
<1> DEFINE f == pol.floors[sev]
           MaxOf(m) == CHOOSE x \in {1, m, f} : \A y \in {1, m, f} : x >= y
<1>1. f \in Nat \ {0}
  BY DEF RoutingPolicy
<1>2. ASSUME NEW m \in Nat \ {0}
      PROVE  /\ MaxOf(m) \in {1, m, f}
             /\ MaxOf(m) >= m
             /\ MaxOf(m) >= f
  <2>1. \E x \in {1, m, f} : \A y \in {1, m, f} : x >= y
    <3>1. CASE m >= f
      BY <3>1, <1>1
    <3>2. CASE ~(m >= f)
      BY <3>2, <1>1
    <3> QED
      BY <3>1, <3>2
  <2> QED
    BY <2>1
<1>3. \A m : RequiredApprovals(pol, sev, m) = MaxOf(m)
  BY DEF RequiredApprovals, Max
<1>4. MaxOf(n) \in Nat \ {0} /\ MaxOf(n) >= n /\ MaxOf(n) >= f
  BY <1>1, <1>2
<1>5. MaxOf(MaxOf(n)) = MaxOf(n)
  <2> DEFINE r == MaxOf(n)
  <2>1. r \in Nat \ {0} /\ r >= f
    BY <1>4
  <2> HIDE DEF r
  <2>2. MaxOf(r) \in {1, r, f} /\ MaxOf(r) >= r
    BY <1>2, <2>1
  <2>3. MaxOf(r) = r
    <3> HIDE DEF MaxOf
    <3> QED
      BY <2>1, <2>2, <1>1
  <2> QED
    BY <2>3 DEF r
<1> QED
  BY <1>3, <1>4, <1>5

(* Projecting the floor onto an item changes only what it requires. *)
LEMMA EffectiveRoutingSound ==
    ASSUME NEW pol \in RoutingPolicy, NEW item \in ReviewItem
    PROVE  LET e == WithEffectiveRouting(pol, item)
           IN  /\ e \in ReviewItem
               /\ e.required >= item.required
               /\ RequiredApprovals(pol, e.severity, e.required) = e.required
               /\ e.approvals = item.approvals
               /\ e.state = item.state
               /\ Submitted(e) = Submitted(item)
<1> DEFINE r == RequiredApprovals(pol, item.severity, item.required)
<1>1. /\ r \in Nat \ {0} /\ r >= item.required
      /\ RequiredApprovals(pol, item.severity, r) = r
  BY RequiredApprovalsSound DEF ReviewItem
<1> HIDE DEF r
<1>2. WithEffectiveRouting(pol, item) = [item EXCEPT !.required = r]
  BY DEF WithEffectiveRouting, r, ReviewItem
<1> QED
  BY <1>1, <1>2 DEF ReviewItem, Submitted

(* Who could approve an item depends on its tenant and group alone. *)
LEMMA SameEntitlement ==
    ASSUME NEW a, NEW b, NEW checker,
           a.tenant = b.tenant, a.sod_group = b.sod_group,
           CouldApprove(a, checker)
    PROVE  CouldApprove(b, checker)
BY DEF CouldApprove

(* An eligible checker is not the maker and could approve the item.        *)
LEMMA EligibleCouldApprove ==
    ASSUME NEW pol \in Policies, NEW item, NEW checker \in Principals,
           CheckEligibility(pol, item, checker) = {}
    PROVE  /\ checker.actor # item.maker /\ checker.tenant = item.tenant
           /\ CouldApprove(item, checker)
<1>1. checker.groups \in SUBSET Groups
  BY ConsoleAssumption DEF Principal
<1>2. /\ checker.actor # item.maker /\ item.tenant = checker.tenant
      /\ pol.approver_group \in checker.groups
  BY DEF CheckEligibility, Findings
<1>3. pol.enforce_sod => item.sod_group \notin checker.groups
  BY <1>1, SentinelAssumption DEF CheckEligibility, Findings
<1> QED
  BY <1>2, <1>3 DEF CouldApprove

(* An eligible checker's disposition of a sound pending item, loaded under *)
(* the same policy, makes a sound item of the same request.                *)
LEMMA DisposeSound ==
    ASSUME NEW pol \in Policies, NEW item \in ReviewItem, ~IsTerminal(item),
           RequiredApprovals(pol, item.severity, item.required) = item.required,
           SoundItem(item),
           NEW checker \in Principals, CheckEligibility(pol, item, checker) = {},
           NEW d \in Dispositions
    PROVE  LET out == Dispose(pol, item, checker, d)
           IN  /\ out \in ReviewItem
               /\ SoundItem(out)
               /\ Submitted(out) = Submitted(item)
<1>1. /\ checker.actor \in Actors
      /\ item.approvals \in Seq(Actors)
      /\ item.state = "pending"
      /\ item.required \in Nat \ {0}
  BY ConsoleAssumption DEF Principal, ReviewItem, IsTerminal
<1>2. /\ checker.actor # item.maker
      /\ checker.actor \notin Approvers(item)
  BY DEF CheckEligibility, Findings
<1>3. Len(item.approvals) < item.required
  BY <1>1 DEF SoundItem, QuorumReached
<1>4. CouldApprove(item, checker)
  BY EligibleCouldApprove
<1>5. CASE d = "approve"
  <2> DEFINE state == IF Len(item.approvals) + 1 >= item.required THEN "approved" ELSE "pending"
             out == WithApproval(item, checker.actor, state)
  <2>1. Dispose(pol, item, checker, d) = out
    BY <1>5 DEF Dispose, Approved
  <2>2. state \in ReviewStates
    BY DEF ReviewStates
  <2>3. out.state = state /\ (state = "approved" <=> Len(item.approvals) + 1 >= item.required)
    BY DEF WithApproval, ReviewItem
  <2> HIDE DEF state
  <2>4. /\ out \in ReviewItem
        /\ out.approvals = Append(item.approvals, checker.actor)
        /\ out.required = item.required
        /\ out.maker = item.maker
        /\ out.tenant = item.tenant
        /\ out.sod_group = item.sod_group
        /\ Submitted(out) = Submitted(item)
    <3> DEFINE more == Append(item.approvals, checker.actor)
    <3>1. more \in Seq(Actors)
      BY <1>1
    <3>2. out = [item EXCEPT !.approvals = more, !.state = state]
      BY DEF WithApproval
    <3> HIDE DEF more
    <3>3. out \in ReviewItem /\ out.approvals = more
      BY <2>2, <3>1, <3>2 DEF ReviewItem
    <3>4. Submitted(out) = Submitted(item) /\ out.required = item.required
      BY <3>2 DEF ReviewItem, Submitted
    <3> QED
      BY <3>2, <3>3, <3>4 DEF Submitted, more, ReviewItem
  <2> HIDE DEF out
  <2>5. Approvers(out) = Approvers(item) \cup {checker.actor}
    BY <1>1, <2>4 DEF Approvers, Range
  <2>6. DistinctEyes(out)
    <3>1. out.maker \notin Approvers(out)
      BY <1>2, <2>4, <2>5 DEF SoundItem, DistinctEyes
    <3>2. IsInjective(out.approvals)
      BY <1>1, <1>2, <2>4 DEF SoundItem, DistinctEyes, Approvers, Range, IsInjective
    <3> QED
      BY <3>1, <3>2 DEF DistinctEyes
  <2>7. QuorumReached(out)
    BY <1>1, <1>3, <2>3, <2>4 DEF QuorumReached
  <2>8. EntitledEyes(out)
    BY <1>4, <2>4, <2>5, SameEntitlement DEF SoundItem, EntitledEyes
  <2> QED
    BY <2>1, <2>4, <2>6, <2>7, <2>8 DEF SoundItem
<1>6. CASE d # "approve"
  <2>1. PICK state \in {"rejected", "amended"} : Dispose(pol, item, checker, d) = Resolved(item, state)
    BY <1>6 DEF Dispose, Dispositions
  <2> DEFINE out == Resolved(item, state)
  <2>2. /\ out \in ReviewItem
        /\ out.state = state
        /\ out.approvals = item.approvals
        /\ out.required = item.required
        /\ out.maker = item.maker
        /\ out.tenant = item.tenant
        /\ out.sod_group = item.sod_group
        /\ Submitted(out) = Submitted(item)
    BY <1>1 DEF Resolved, ReviewItem, ReviewStates, Submitted
  <2> HIDE DEF out
  <2>3. DistinctEyes(out)
    BY <2>2 DEF SoundItem, DistinctEyes, Approvers
  <2>4. QuorumReached(out)
    BY <1>3, <2>2 DEF SoundItem, QuorumReached
  <2>5. EntitledEyes(out)
    BY <2>2, SameEntitlement DEF SoundItem, EntitledEyes, Approvers
  <2> QED
    BY <2>1, <2>2, <2>3, <2>4, <2>5 DEF SoundItem, out
<1> QED
  BY <1>5, <1>6

LEMMA SignOffType ==
    ASSUME NEW item \in ReviewItem, NEW action \in {"submit", "dispose"},
           NEW checker \in Actors \cup {NoChecker}, NEW d \in Dispositions,
           NEW findings \in SUBSET Findings
    PROVE  SignOff(item, action, checker, d, findings) \in SignOffEvent
BY DEF SignOff, SignOffEvent, ReviewItem, Decisions

(* A new item is well typed and sound: it has no approvals, and at least   *)
(* one is required.                                                        *)
LEMMA NewItemSound ==
    ASSUME NEW pol \in Policies, NEW id \in ReviewIds, NEW tenant \in Tenants,
           NEW maker \in Actors, NEW request \in Requests,
           NEW key \in SourceKeys \cup {NoKey}
    PROVE  LET item == NewItem(pol, id, tenant, maker, request, key)
           IN  /\ item \in ReviewItem
               /\ SoundItem(item)
               /\ item.review_id = id
               /\ item.source_key = key
               /\ SubmissionSignOff(item) \in SignOffEvent
<1> DEFINE plain == [ review_id |-> id, tenant |-> tenant, maker |-> maker,
                      severity |-> request.severity, required |-> request.required,
                      sod_group |-> request.sod_group, source_key |-> key,
                      state |-> "pending", approvals |-> << >> ]
           item == WithEffectiveRouting(pol, plain)
<1>1. plain \in ReviewItem
  BY ConsoleAssumption DEF ReviewItem, ReviewStates
<1>2. plain.state = "pending" /\ plain.approvals = << >> /\ plain.review_id = id /\ plain.source_key = key
  OBVIOUS
<1> HIDE DEF plain
<1>3. /\ item \in ReviewItem
      /\ item.state = "pending"
      /\ item.approvals = << >>
      /\ Submitted(item) = Submitted(plain)
  BY <1>1, <1>2, ConsoleAssumption, EffectiveRoutingSound
<1>4. item.review_id = id /\ item.source_key = key
  BY <1>2, <1>3 DEF Submitted
<1>5. NewItem(pol, id, tenant, maker, request, key) = item
  BY DEF NewItem, plain
<1> HIDE DEF item
<1>6. SoundItem(item)
  <2>1. item.required \in Nat \ {0}
    BY <1>3 DEF ReviewItem
  <2> QED
    BY <1>3, <2>1 DEF SoundItem, DistinctEyes, QuorumReached, EntitledEyes, Approvers, Range, IsInjective
<1>7. SubmissionSignOff(item) \in SignOffEvent
  BY <1>3, SignOffType DEF SubmissionSignOff, Dispositions
<1> QED
  BY <1>3, <1>4, <1>5, <1>6, <1>7

(* A worker that does not go to its put adds no draft. *)
LEMMA NoNewDraft ==
    ASSUME call \in [Workers -> Call], NEW w \in Workers, NEW c, c.step # "put",
           call' = [call EXCEPT ![w] = c]
    PROVE  Drafts' \subseteq Drafts
BY DEF Drafts

LEMMA CallTypes ==
    /\ Idle \in Call /\ Idle.step = "idle"
    /\ \A e \in SignOffEvent : Recording(e) \in Call /\ Recording(e).step = "record"
    /\ \A i \in ReviewItem, e \in SignOffEvent :
         /\ Putting(i, e) \in Call
         /\ Putting(i, e).step = "put"
         /\ Putting(i, e).item = i
    /\ \A c \in Call : /\ c.step = "put" => c.item \in ReviewItem /\ c.event \in SignOffEvent
                       /\ c.step = "record" => c.event \in SignOffEvent
BY DEF Call, Idle, Recording, Putting

(* Storing a fresh, sound item that conflicts with no row. *)
LEMMA EnterKeepsInvariant ==
    ASSUME IInv, NEW w \in Workers, NEW item \in ReviewItem, SoundItem(item),
           \A r \in store : r.review_id # item.review_id,
           Conflicting(store, item) = {},
           NEW e \in SignOffEvent,
           store' = Put(store, item),
           call' = [call EXCEPT ![w] = Recording(e)],
           UNCHANGED <<signoffs, policy, failures>>
    PROVE  IInv'
<1>1. store' = store \cup {item}
  BY DEF Put, SameRow
<1>2. Drafts' \subseteq Drafts
  BY NoNewDraft, CallTypes DEF IInv, TypeOK
<1>3. TypeOK'
  BY <1>1, CallTypes DEF IInv, TypeOK
<1>4. ItemsSound'
  BY <1>1, <1>2 DEF IInv, ItemsSound
<1>5. IdsUnique'
  BY <1>1 DEF IInv, IdsUnique
<1>6. DraftsOfRows'
  BY <1>1, <1>2 DEF IInv, DraftsOfRows, Submitted
<1>7. OneReviewPerSourceKey'
  BY <1>1 DEF IInv, OneReviewPerSourceKey, Conflicting
<1> QED
  BY <1>3, <1>4, <1>5, <1>6, <1>7 DEF IInv

(* The put of a draft replaces the very row it was made from. *)
LEMMA PutReplacesItsRow ==
    ASSUME IInv, NEW item \in Drafts
    PROVE  \E r \in store : /\ Put(store, item) = (store \ {r}) \cup {item}
                            /\ Submitted(item) = Submitted(r)
<1>1. PICK r \in store : Submitted(r) = Submitted(item)
  BY DEF IInv, DraftsOfRows
<1>2. r.review_id = item.review_id /\ r.tenant = item.tenant
  BY <1>1 DEF Submitted
<1>3. ASSUME NEW s \in store PROVE SameRow(s, item) <=> s = r
  BY <1>2 DEF IInv, IdsUnique, SameRow
<1>4. Put(store, item) = (store \ {r}) \cup {item}
  BY <1>3 DEF Put
<1> QED
  BY <1>1, <1>4

LEMMA PutKeepsInvariant ==
    ASSUME IInv, NEW w \in Workers, PutOutcome(w)
    PROVE  IInv'
<1> DEFINE item == call[w].item
<1>1. /\ item \in Drafts
      /\ item \in ReviewItem
      /\ call[w].event \in SignOffEvent
  BY CallTypes DEF PutOutcome, Drafts, IInv, TypeOK
<1>2. PICK r \in store : /\ store' = (store \ {r}) \cup {item}
                         /\ Submitted(item) = Submitted(r)
  BY <1>1, PutReplacesItsRow DEF PutOutcome
<1>3. Drafts' \subseteq Drafts
  BY <1>1, NoNewDraft, CallTypes DEF PutOutcome, IInv, TypeOK
<1> HIDE DEF item
<1>4. TypeOK'
  BY <1>1, <1>2, CallTypes DEF PutOutcome, IInv, TypeOK
<1>5. ItemsSound'
  BY <1>1, <1>2, <1>3 DEF IInv, ItemsSound
<1>6. IdsUnique'
  BY <1>2 DEF IInv, IdsUnique, Submitted
<1>7. DraftsOfRows'
  BY <1>2, <1>3 DEF IInv, DraftsOfRows, Submitted
<1>8. OneReviewPerSourceKey'
  BY <1>2 DEF IInv, OneReviewPerSourceKey, Submitted
<1> QED
  BY <1>4, <1>5, <1>6, <1>7, <1>8 DEF IInv

(* The steps that leave the store alone and add no draft. *)
LEMMA OtherStepsKeepInvariant ==
    ASSUME IInv, store' = store, Drafts' \subseteq Drafts, TypeOK'
    PROVE  IInv'
BY DEF IInv, ItemsSound, IdsUnique, DraftsOfRows, OneReviewPerSourceKey

(* What a handler puts, from a sound row that it has loaded under its own  *)
(* policy.                                                                 *)
LEMMA LoadedOutcomeSound ==
    ASSUME NEW pol \in Policies, NEW r \in ReviewItem, SoundItem(r), ~IsTerminal(r),
           NEW checker \in Principals, NEW d \in Dispositions,
           CheckEligibility(pol, WithEffectiveRouting(pol, r), checker) = {}
    PROVE  LET out == Dispose(pol, WithEffectiveRouting(pol, r), checker, d)
           IN  /\ out \in ReviewItem
               /\ SoundItem(out)
               /\ Submitted(out) = Submitted(r)
<1> DEFINE item == WithEffectiveRouting(pol, r)
<1>1. /\ item \in ReviewItem
      /\ item.required >= r.required
      /\ RequiredApprovals(pol, item.severity, item.required) = item.required
      /\ item.approvals = r.approvals
      /\ item.state = r.state
      /\ Submitted(item) = Submitted(r)
  BY EffectiveRoutingSound, ConsoleAssumption
<1>2. CheckEligibility(pol, item, checker) = {}
  OBVIOUS
<1> HIDE DEF item
<1>3. ~IsTerminal(item)
  BY <1>1 DEF IsTerminal
<1>4. SoundItem(item)
  <2>1. item.maker = r.maker /\ item.tenant = r.tenant /\ item.sod_group = r.sod_group
    BY <1>1 DEF Submitted
  <2>2. item.required \in Nat /\ r.required \in Nat /\ item.approvals \in Seq(Actors)
    BY <1>1 DEF ReviewItem
  <2>3. DistinctEyes(item)
    BY <1>1, <2>1 DEF SoundItem, DistinctEyes, Approvers
  <2>4. QuorumReached(item)
    <3>1. r.state = "pending"
      BY DEF IsTerminal
    <3>2. Len(r.approvals) < r.required
      BY <2>2, <1>1, <3>1 DEF SoundItem, QuorumReached
    <3> QED
      BY <1>1, <2>2, <3>1, <3>2 DEF QuorumReached
  <2>5. EntitledEyes(item)
    BY <1>1, <2>1, SameEntitlement DEF SoundItem, EntitledEyes, Approvers
  <2> QED
    BY <2>3, <2>4, <2>5 DEF SoundItem
<1>5. LET out == Dispose(pol, item, checker, d)
      IN  out \in ReviewItem /\ SoundItem(out) /\ Submitted(out) = Submitted(item)
  BY <1>1, <1>2, <1>3, <1>4, DisposeSound
<1> QED
  BY <1>1, <1>5 DEF item

LEMMA DisposeAllowedKeepsInvariant ==
    ASSUME IInv, NEW w \in Workers, DisposeAllowed(w)
    PROVE  IInv'
<1>1. PICK checker \in Principals, d \in Dispositions, r \in store :
        LET item    == WithEffectiveRouting(policy[w], r)
            outcome == Dispose(policy[w], item, checker, d)
        IN  /\ ~IsTerminal(r)
            /\ CheckEligibility(policy[w], item, checker) = {}
            /\ call' = [call EXCEPT ![w] =
                 Putting(outcome, SignOff(outcome, "dispose", checker.actor, d, {}))]
  BY DEF DisposeAllowed, Loaded, Get
<1> DEFINE out == Dispose(policy[w], WithEffectiveRouting(policy[w], r), checker, d)
           e   == SignOff(out, "dispose", checker.actor, d, {})
<1>2. policy[w] \in Policies /\ r \in ReviewItem /\ SoundItem(r)
  BY DEF IInv, TypeOK, ItemsSound
<1>3. /\ out \in ReviewItem
      /\ SoundItem(out)
      /\ Submitted(out) = Submitted(r)
  BY <1>1, <1>2, LoadedOutcomeSound
<1>4. call' = [call EXCEPT ![w] = Putting(out, e)]
  BY <1>1
<1> HIDE DEF out
<1>5. e \in SignOffEvent
  BY <1>3, SignOffType, ConsoleAssumption DEF Principal
<1> HIDE DEF e
<1>6. Drafts' \subseteq Drafts \cup {out}
  BY <1>3, <1>4, <1>5, CallTypes DEF Drafts, IInv, TypeOK
<1>7. TypeOK'
  BY <1>3, <1>4, <1>5, CallTypes DEF DisposeAllowed, IInv, TypeOK
<1>8. ItemsSound'
  BY <1>3, <1>6 DEF DisposeAllowed, IInv, ItemsSound
<1>9. DraftsOfRows'
  BY <1>3, <1>6 DEF DisposeAllowed, IInv, DraftsOfRows, Submitted
<1>10. IdsUnique' /\ OneReviewPerSourceKey'
  BY DEF DisposeAllowed, IInv, IdsUnique, OneReviewPerSourceKey
<1> QED
  BY <1>7, <1>8, <1>9, <1>10 DEF IInv

LEMMA DisposeDeniedKeepsInvariant ==
    ASSUME IInv, NEW w \in Workers, DisposeDenied(w)
    PROVE  IInv'
<1>1. PICK checker \in Principals, d \in Dispositions, id \in ReviewIds, r \in store :
        LET item == WithEffectiveRouting(policy[w], r)
            findings == CheckEligibility(policy[w], item, checker)
        IN  call' = [call EXCEPT ![w] =
              Recording(SignOff(item, "dispose", checker.actor, d, findings))]
  BY DEF DisposeDenied, Loaded, Get
<1> DEFINE item == WithEffectiveRouting(policy[w], r)
           findings == CheckEligibility(policy[w], item, checker)
           e == SignOff(item, "dispose", checker.actor, d, findings)
<1>2. item \in ReviewItem
  BY EffectiveRoutingSound, ConsoleAssumption DEF IInv, TypeOK
<1>3. findings \in SUBSET Findings
  BY DEF CheckEligibility
<1>4. call' = [call EXCEPT ![w] = Recording(e)]
  BY <1>1
<1> HIDE DEF item, findings
<1>5. e \in SignOffEvent
  BY <1>2, <1>3, SignOffType, ConsoleAssumption DEF Principal
<1> HIDE DEF e
<1>6. TypeOK' /\ Drafts' \subseteq Drafts
  BY <1>4, <1>5, CallTypes, NoNewDraft DEF DisposeDenied, IInv, TypeOK
<1> QED
  BY <1>6, OtherStepsKeepInvariant DEF DisposeDenied

LEMMA SubmitKeepsInvariant ==
    ASSUME IInv, NEW w \in Workers, Submit(w)
    PROVE  IInv'
<1>1. PICK id \in FreshIds, p \in Principals, request \in Requests :
        LET item == NewItem(policy[w], id, p.tenant, p.actor, request, NoKey)
        IN  /\ store' = Put(store, item)
            /\ call' = [call EXCEPT ![w] = Recording(SubmissionSignOff(item))]
  BY DEF Submit
<1> DEFINE item == NewItem(policy[w], id, p.tenant, p.actor, request, NoKey)
<1>2. /\ item \in ReviewItem
      /\ SoundItem(item)
      /\ item.review_id = id
      /\ item.source_key = NoKey
      /\ SubmissionSignOff(item) \in SignOffEvent
  BY NewItemSound, ConsoleAssumption DEF IInv, TypeOK, Principal, FreshIds
<1>3. /\ store' = Put(store, item)
      /\ call' = [call EXCEPT ![w] = Recording(SubmissionSignOff(item))]
  BY <1>1
<1> HIDE DEF item
<1>4. Conflicting(store, item) = {}
  BY <1>2 DEF Conflicting
<1>5. \A r \in store : r.review_id # item.review_id
  BY <1>2 DEF FreshIds
<1> QED
  BY <1>2, <1>3, <1>4, <1>5, EnterKeepsInvariant DEF Submit

LEMMA SubmitIdempotentKeepsInvariant ==
    ASSUME IInv, NEW w \in Workers, SubmitIdempotent(w)
    PROVE  IInv'
<1>1. CASE UNCHANGED <<store, call>>
  BY <1>1, OtherStepsKeepInvariant DEF SubmitIdempotent, IInv, TypeOK, Drafts
<1>2. CASE ~UNCHANGED <<store, call>>
  <2>1. PICK id \in FreshIds, tenant \in Tenants, maker \in Actors,
             request \in Requests, key \in SourceKeys \cup {NoKey} :
          LET item == NewItem(policy[w], id, tenant, maker, request, key)
          IN  /\ Conflicting(store, item) = {}
              /\ store' = Put(store, item)
              /\ call' = [call EXCEPT ![w] = Recording(SubmissionSignOff(item))]
    BY <1>2 DEF SubmitIdempotent
  <2> DEFINE item == NewItem(policy[w], id, tenant, maker, request, key)
  <2>2. /\ item \in ReviewItem
        /\ SoundItem(item)
        /\ item.review_id = id
        /\ SubmissionSignOff(item) \in SignOffEvent
    BY NewItemSound DEF IInv, TypeOK, FreshIds
  <2>3. /\ Conflicting(store, item) = {}
        /\ store' = Put(store, item)
        /\ call' = [call EXCEPT ![w] = Recording(SubmissionSignOff(item))]
    BY <2>1
  <2> HIDE DEF item
  <2>4. \A r \in store : r.review_id # item.review_id
    BY <2>2 DEF FreshIds
  <2> QED
    BY <2>2, <2>3, <2>4, EnterKeepsInvariant DEF SubmitIdempotent
<1> QED
  BY <1>1, <1>2

LEMMA RestKeepsInvariant ==
    ASSUME IInv, NEW w \in Workers, Record(w) \/ Fail(w) \/ Redeploy(w)
    PROVE  IInv'
<1>1. CASE Record(w)
  <2>1. call[w].event \in SignOffEvent
    BY <1>1, CallTypes DEF Record, IInv, TypeOK
  <2>2. TypeOK'
    <3>1. signoffs' \in Seq(SignOffEvent)
      BY <1>1, <2>1 DEF Record, IInv, TypeOK
    <3>2. call' \in [Workers -> Call]
      BY <1>1, CallTypes DEF Record, IInv, TypeOK
    <3> QED
      BY <1>1, <3>1, <3>2 DEF Record, IInv, TypeOK
  <2>3. Drafts' \subseteq Drafts
    BY <1>1, CallTypes, NoNewDraft DEF Record, IInv, TypeOK
  <2> QED
    BY <1>1, <2>2, <2>3, OtherStepsKeepInvariant DEF Record
<1>2. CASE Fail(w)
  <2>1. TypeOK'
    BY <1>2, CallTypes, ConsoleAssumption DEF Fail, IInv, TypeOK
  <2>2. Drafts' \subseteq Drafts
    BY <1>2, CallTypes, NoNewDraft DEF Fail, IInv, TypeOK
  <2> QED
    BY <1>2, <2>1, <2>2, OtherStepsKeepInvariant DEF Fail
<1>3. CASE Redeploy(w)
  BY <1>3, OtherStepsKeepInvariant DEF Redeploy, IInv, TypeOK, Drafts
<1> QED
  BY <1>1, <1>2, <1>3

LEMMA InitInvariant == Init => IInv
BY ConsoleAssumption, CallTypes
   DEF Init, IInv, TypeOK, ItemsSound, IdsUnique, DraftsOfRows, OneReviewPerSourceKey, Drafts

LEMMA NextInvariant == IInv /\ [Next]_vars => IInv'
<1> SUFFICES ASSUME IInv, [Next]_vars PROVE IInv'
  OBVIOUS
<1>1. ASSUME NEW w \in Workers, Accept(w) \/ Serve(w) \/ Fail(w) \/ Redeploy(w)
      PROVE  IInv'
  BY <1>1, SubmitKeepsInvariant, SubmitIdempotentKeepsInvariant, DisposeAllowedKeepsInvariant,
     DisposeDeniedKeepsInvariant, PutKeepsInvariant, RestKeepsInvariant DEF Accept, Serve
<1>2. CASE UNCHANGED vars
  BY <1>2, OtherStepsKeepInvariant DEF vars, IInv, TypeOK, Drafts
<1> QED
  BY <1>1, <1>2 DEF Next

(* The inductive invariant holds in every reachable state. *)
THEOREM Invariance == Spec => []IInv
BY InitInvariant, NextInvariant, PTL DEF Spec

(* Every variable keeps its type. *)
THEOREM TypeCorrect == Spec => []TypeOK
<1>1. IInv => TypeOK
  BY DEF IInv
<1> QED
  BY <1>1, Invariance, PTL

(* Four-eyes and N-eyes: no stored review is approved by its maker, or     *)
(* twice by one checker, whatever the threads, failures and revisions do.  *)
THEOREM FourEyesHolds == Spec => []FourEyes
<1>1. IInv => FourEyes
  BY DEF IInv, ItemsSound, SoundItem, FourEyes
<1> QED
  BY <1>1, Invariance, PTL

(* A stored review is approved if and only if the approvals it requires    *)
(* are stored on it.                                                       *)
THEOREM QuorumHolds == Spec => []Quorum
<1>1. IInv => Quorum
  BY DEF IInv, ItemsSound, SoundItem, Quorum
<1> QED
  BY <1>1, Invariance, PTL

(* Only entitled, unconflicted principals of the review's tenant approve.  *)
THEOREM EntitlementHolds == Spec => []ApproversEntitled
<1>1. IInv => ApproversEntitled
  BY DEF IInv, ItemsSound, SoundItem, ApproversEntitled
<1> QED
  BY <1>1, Invariance, PTL

(* A producer's key opens one review per tenant, however it is delivered.  *)
THEOREM IdempotenceHolds == Spec => []OneReviewPerSourceKey
<1>1. IInv => OneReviewPerSourceKey
  BY DEF IInv
<1> QED
  BY <1>1, Invariance, PTL

(* The rows that a step keeps, as what was submitted with them. *)
RowsKept == \A r \in store : \E s \in store' : Submitted(s) = Submitted(r)

(* A submission adds a row, under an id that no row has. *)
LEMMA EntryAddsRow ==
    ASSUME IInv, NEW w \in Workers, Submit(w) \/ SubmitIdempotent(w)
    PROVE  store \subseteq store'
<1>1. CASE UNCHANGED store
  BY <1>1
<1>2. CASE ~UNCHANGED store
  <2>1. ASSUME NEW id \in FreshIds, NEW tenant \in Tenants, NEW maker \in Actors,
               NEW request \in Requests, NEW key \in SourceKeys \cup {NoKey}
        PROVE  NewItem(policy[w], id, tenant, maker, request, key).review_id = id
    <3>1. policy[w] \in Policies /\ id \in ReviewIds
      BY DEF IInv, TypeOK, FreshIds
    <3> QED
      BY <3>1, NewItemSound
  <2>2. \A p \in Principals : p.tenant \in Tenants /\ p.actor \in Actors
    BY ConsoleAssumption DEF Principal
  <2>3. PICK id \in FreshIds : \E item : item.review_id = id /\ store' = Put(store, item)
    BY <1>2, <2>1, <2>2 DEF Submit, SubmitIdempotent
  <2> QED
    BY <2>3 DEF Put, SameRow, FreshIds
<1> QED
  BY <1>1, <1>2

LEMMA StepKeepsRows ==
    ASSUME IInv, Next
    PROVE  RowsKept
<1>1. ASSUME NEW w \in Workers, PutOutcome(w)
      PROVE  RowsKept
  <2>1. call[w].item \in Drafts
    BY <1>1 DEF PutOutcome, Drafts
  <2> QED
    BY <1>1, <2>1, PutReplacesItsRow DEF PutOutcome, RowsKept
<1>2. (store \subseteq store') => RowsKept
  BY DEF RowsKept
<1> QED
  BY <1>1, <1>2, EntryAddsRow
     DEF Next, Accept, Serve, DisposeAllowed, DisposeDenied, Record, Fail, Redeploy

(* No step drops a stored review or alters what was submitted.             *)
THEOREM RequestsKept == Spec => RequestsAreKept
<1>1. IInv /\ [Next]_vars => [RowsKept]_vars
  BY StepKeepsRows
<1> QED
  BY <1>1, Invariance, PTL DEF Spec, RequestsAreKept, RowsKept

-----------------------------------------------------------------------------
(* The trail. *)

(* A record is about a row, of its own tenant and with its own maker, and  *)
(* names a checker of that tenant, who could approve if it was allowed.    *)
NamesRow(rows, e) ==
    \E r \in rows :
        /\ r.review_id = e.review_id /\ r.tenant = e.tenant /\ r.maker = e.maker
        /\ e.action = "dispose" => \E p \in Principals : CheckedBy(e, r, p)

(* It is so of the records that are still to be written too.               *)
RecordsNameRows == \A e \in SignedOff \cup Unrecorded : NamesRow(store, e)

LEMMA KeptRowsKeepNames ==
    ASSUME RowsKept, NEW e, NamesRow(store, e)
    PROVE  NamesRow(store', e)
<1>1. PICK r \in store :
        /\ r.review_id = e.review_id /\ r.tenant = e.tenant /\ r.maker = e.maker
        /\ e.action = "dispose" => \E p \in Principals : CheckedBy(e, r, p)
  BY DEF NamesRow
<1>2. PICK s \in store' : Submitted(s) = Submitted(r)
  BY DEF RowsKept
<1>3. /\ s.review_id = r.review_id /\ s.tenant = r.tenant /\ s.maker = r.maker
      /\ s.sod_group = r.sod_group
  BY <1>2 DEF Submitted
<1>4. ASSUME NEW p \in Principals, CheckedBy(e, r, p) PROVE CheckedBy(e, s, p)
  BY <1>3, <1>4, SameEntitlement DEF CheckedBy
<1> QED
  BY <1>1, <1>3, <1>4 DEF NamesRow

(* The record of the submission of a row.                                  *)
LEMMA SubmissionNamesRow ==
    ASSUME NEW rows, NEW item \in rows
    PROVE  NamesRow(rows, SubmissionSignOff(item))
BY DEF NamesRow, SubmissionSignOff, SignOff

(* The record of a disposition of what was submitted with a row.           *)
LEMMA SignOffNamesRow ==
    ASSUME NEW rows, NEW r \in rows, NEW item, Submitted(item) = Submitted(r),
           NEW checker \in Principals, checker.tenant = r.tenant, NEW d, NEW findings,
           findings = {} => checker.actor # r.maker /\ CouldApprove(r, checker)
    PROVE  NamesRow(rows, SignOff(item, "dispose", checker.actor, d, findings))
<1>1. PICK e : e = SignOff(item, "dispose", checker.actor, d, findings)
  OBVIOUS
<1>2. /\ r.review_id = e.review_id /\ r.tenant = e.tenant /\ r.maker = e.maker
      /\ e.checker = checker.actor /\ (e.decision = "allowed" => findings = {})
  BY <1>1 DEF SignOff, Submitted
<1>3. CheckedBy(e, r, checker)
  BY <1>2 DEF CheckedBy
<1> QED
  BY <1>1, <1>2, <1>3 DEF NamesRow

(* A worker that goes to c has the record of c to write, or none.          *)
LEMMA OneNewRecord ==
    ASSUME call \in [Workers -> Call], NEW w \in Workers, NEW c \in Call,
           call' = [call EXCEPT ![w] = c], signoffs' = signoffs
    PROVE  \A e \in (SignedOff \cup Unrecorded)' :
             e \in SignedOff \cup Unrecorded \/ (c # Idle /\ e = c.event)
BY DEF SignedOff, Unrecorded

LEMMA RecordedIsAppended ==
    ASSUME NEW S, NEW s \in Seq(S), NEW e \in S
    PROVE  Range(Append(s, e)) \subseteq Range(s) \cup {e}
<1>1. DOMAIN Append(s, e) = 1..(Len(s) + 1) /\ DOMAIN s = 1..Len(s) /\ Len(s) \in Nat
  OBVIOUS
<1>2. \A i \in DOMAIN Append(s, e) :
        Append(s, e)[i] = IF i = Len(s) + 1 THEN e ELSE s[i]
  OBVIOUS
<1>3. \A i \in DOMAIN Append(s, e) : i # Len(s) + 1 => i \in DOMAIN s
  BY <1>1
<1> QED
  BY <1>2, <1>3 DEF Range

(* What a step adds to the records, written or to be written, names a row. *)
LEMMA NewRecordsNameRows ==
    ASSUME IInv, Next
    PROVE  \A e \in (SignedOff \cup Unrecorded)' :
             e \in SignedOff \cup Unrecorded \/ NamesRow(store', e)
<1> DEFINE Goal == \A e \in (SignedOff \cup Unrecorded)' :
                     e \in SignedOff \cup Unrecorded \/ NamesRow(store', e)
<1>0. /\ call \in [Workers -> Call] /\ signoffs \in Seq(SignOffEvent)
      /\ policy \in [Workers -> RoutingPolicy] /\ policy \in [Workers -> Policies]
      /\ store \subseteq ReviewItem
  BY ConsoleAssumption DEF IInv, TypeOK
<1>1. ASSUME NEW w \in Workers, NEW c \in Call, call' = [call EXCEPT ![w] = c],
             signoffs' = signoffs, c # Idle => NamesRow(store', c.event)
      PROVE  Goal
  BY <1>0, <1>1, OneNewRecord
<1>2. ASSUME NEW w \in Workers, NEW id \in FreshIds, NEW tenant \in Tenants, NEW maker \in Actors,
             NEW request \in Requests, NEW key \in SourceKeys \cup {NoKey}, signoffs' = signoffs,
             LET item == NewItem(policy[w], id, tenant, maker, request, key)
             IN  /\ store' = Put(store, item)
                 /\ call' = [call EXCEPT ![w] = Recording(SubmissionSignOff(item))]
      PROVE  Goal
  <2> DEFINE item == NewItem(policy[w], id, tenant, maker, request, key)
             e == SubmissionSignOff(item)
  <2>1. e \in SignOffEvent
    BY <1>0, NewItemSound DEF FreshIds
  <2>2. item \in store'
    BY <1>2 DEF Put
  <2> HIDE DEF item
  <2>3. NamesRow(store', e)
    BY <2>2, SubmissionNamesRow
  <2>4. Recording(e) \in Call /\ Recording(e).event = e
    BY <2>1 DEF Recording, Call
  <2>5. call' = [call EXCEPT ![w] = Recording(e)]
    BY <1>2 DEF item
  <2> QED
    BY <1>1, <1>2, <2>3, <2>4, <2>5
<1>3. ASSUME NEW w \in Workers, Submit(w)
      PROVE  Goal
  BY <1>2, <1>3, ConsoleAssumption DEF Submit, Principal
<1>4. ASSUME NEW w \in Workers, SubmitIdempotent(w)
      PROVE  Goal
  <2>1. CASE UNCHANGED <<store, call>>
    BY <1>4, <2>1 DEF SubmitIdempotent, SignedOff, Unrecorded
  <2>2. CASE ~UNCHANGED <<store, call>>
    BY <1>2, <1>4, <2>2 DEF SubmitIdempotent
  <2> QED
    BY <2>1, <2>2
<1>5. ASSUME NEW w \in Workers, DisposeAllowed(w)
      PROVE  Goal
  <2>1. PICK checker \in Principals, d \in Dispositions, r \in store :
          LET item    == WithEffectiveRouting(policy[w], r)
              outcome == Dispose(policy[w], item, checker, d)
          IN  /\ ~IsTerminal(r)
              /\ CheckEligibility(policy[w], item, checker) = {}
              /\ call' = [call EXCEPT ![w] =
                   Putting(outcome, SignOff(outcome, "dispose", checker.actor, d, {}))]
    BY <1>5 DEF DisposeAllowed, Loaded, Get
  <2>0. checker.tenant = r.tenant /\ checker.actor # r.maker /\ CouldApprove(r, checker)
    <3>1. PICK item : item = WithEffectiveRouting(policy[w], r)
      OBVIOUS
    <3>2. item.tenant = r.tenant /\ item.maker = r.maker /\ item.sod_group = r.sod_group
      BY <1>0, <3>1, EffectiveRoutingSound DEF Submitted
    <3>3. CheckEligibility(policy[w], item, checker) = {}
      BY <2>1, <3>1
    <3> QED
      BY <1>0, <3>2, <3>3, EligibleCouldApprove, SameEntitlement
  <2> DEFINE item == WithEffectiveRouting(policy[w], r)
             out  == Dispose(policy[w], item, checker, d)
             e    == SignOff(out, "dispose", checker.actor, d, {})
  <2>2. out \in ReviewItem /\ Submitted(out) = Submitted(r)
    BY <1>0, <2>1, LoadedOutcomeSound DEF IInv, ItemsSound
  <2>3. call' = [call EXCEPT ![w] = Putting(out, e)]
    BY <2>1
  <2> HIDE DEF item, out
  <2>4. NamesRow(store, e)
    BY <2>0, <2>2, SignOffNamesRow
  <2>5. e \in SignOffEvent
    BY <2>2, SignOffType, ConsoleAssumption DEF Principal
  <2>6. Putting(out, e) \in Call /\ Putting(out, e).event = e
    BY <2>2, <2>5 DEF Putting, Call
  <2> HIDE DEF e
  <2> QED
    BY <1>1, <1>5, <2>3, <2>4, <2>6 DEF DisposeAllowed
<1>6. ASSUME NEW w \in Workers, DisposeDenied(w)
      PROVE  Goal
  <2>1. PICK checker \in Principals, d \in Dispositions, id \in ReviewIds, r \in store :
          LET item     == WithEffectiveRouting(policy[w], r)
              findings == CheckEligibility(policy[w], item, checker)
          IN  /\ r.tenant = checker.tenant /\ findings # {}
              /\ call' = [call EXCEPT ![w] =
                   Recording(SignOff(item, "dispose", checker.actor, d, findings))]
    BY <1>6 DEF DisposeDenied, Loaded, Get
  <2> DEFINE item     == WithEffectiveRouting(policy[w], r)
             findings == CheckEligibility(policy[w], item, checker)
             e        == SignOff(item, "dispose", checker.actor, d, findings)
  <2>2. item \in ReviewItem /\ Submitted(item) = Submitted(r)
    BY <1>0, EffectiveRoutingSound
  <2>3. call' = [call EXCEPT ![w] = Recording(e)]
    BY <2>1
  <2> HIDE DEF item
  <2>4. findings \in SUBSET Findings /\ findings # {}
    <3>1. findings # {}
      BY <2>1 DEF item
    <3>2. findings \subseteq Findings
      BY DEF CheckEligibility
    <3> QED
      BY <3>1, <3>2
  <2> HIDE DEF findings
  <2>5. NamesRow(store, e)
    BY <2>1, <2>2, <2>4, SignOffNamesRow
  <2>6. e \in SignOffEvent
    BY <2>2, <2>4, SignOffType, ConsoleAssumption DEF Principal
  <2>7. Recording(e) \in Call /\ Recording(e).event = e
    BY <2>6 DEF Recording, Call
  <2> HIDE DEF e
  <2> QED
    BY <1>1, <1>6, <2>3, <2>5, <2>7 DEF DisposeDenied
<1>7. ASSUME NEW w \in Workers, PutOutcome(w) \/ Record(w)
      PROVE  Goal
  <2>1. call[w] # Idle /\ call[w].event \in SignOffEvent
    BY <1>0, <1>7, CallTypes DEF PutOutcome, Record
  <2>2. call[w].event \in Unrecorded
    BY <2>1 DEF Unrecorded
  <2>3. CASE PutOutcome(w)
    <3>1. Recording(call[w].event).event = call[w].event
      BY DEF Recording
    <3> QED
      BY <1>0, <2>2, <2>3, <3>1 DEF PutOutcome, Unrecorded, SignedOff
  <2>4. CASE Record(w)
    <3>1. SignedOff' \subseteq SignedOff \cup Unrecorded
      BY <1>0, <2>1, <2>2, <2>4, RecordedIsAppended DEF Record, SignedOff
    <3>2. Unrecorded' \subseteq Unrecorded
      BY <1>0, <2>4 DEF Record, Unrecorded
    <3> QED
      BY <3>1, <3>2
  <2> QED
    BY <1>7, <2>3, <2>4
<1>8. ASSUME NEW w \in Workers, Fail(w) \/ Redeploy(w)
      PROVE  Goal
  BY <1>0, <1>8 DEF Fail, Redeploy, SignedOff, Unrecorded
<1> QED
  BY <1>3, <1>4, <1>5, <1>6, <1>7, <1>8 DEF Next, Accept, Serve

LEMMA RecordsKeepNaming == IInv /\ RecordsNameRows /\ [Next]_vars => RecordsNameRows'
<1> SUFFICES ASSUME IInv, RecordsNameRows, [Next]_vars PROVE RecordsNameRows'
  OBVIOUS
<1>1. CASE Next
  BY <1>1, NewRecordsNameRows, StepKeepsRows, KeptRowsKeepNames DEF RecordsNameRows
<1>2. CASE UNCHANGED vars
  BY <1>2 DEF vars, RecordsNameRows, SignedOff, Unrecorded
<1> QED
  BY <1>1, <1>2

(* Every record in the trail is of a stored review with its tenant and     *)
(* maker, and of a checker of that tenant, who is not the maker and could  *)
(* approve it if it was allowed, whatever threads and failures do          *)
(* (dispose, _record).                                                     *)
THEOREM TrailIsOfReviews == Spec => []TrailIsEvidence
<1>1. Init => RecordsNameRows
  BY DEF Init, RecordsNameRows, SignedOff, Unrecorded, Range
<1>2. RecordsNameRows => TrailIsEvidence
  BY DEF RecordsNameRows, TrailIsEvidence, NamesRow
<1> QED
  BY <1>1, <1>2, RecordsKeepNaming, Invariance, PTL DEF Spec

-----------------------------------------------------------------------------
(* One handler at a time. *)

OneAtATime == \A v, w \in Workers : v = w

(* An item that came of a row: the same review, at least as strict, with   *)
(* the approvals that were there and perhaps more.                         *)
Continues(r, item) ==
    /\ SameRow(r, item)
    /\ r.required <= item.required
    /\ IsPrefix(r.approvals, item.approvals)

(* What a handler is about to put continues a row that is still open: the  *)
(* very thing that a second handler's put in between would spoil.          *)
DraftsAreCurrent == \A d \in Drafts : \E r \in store : ~IsTerminal(r) /\ Continues(r, d)

LEMMA PrefixOfItself ==
    ASSUME NEW S, NEW s \in Seq(S), NEW x \in S
    PROVE  IsPrefix(s, s) /\ IsPrefix(s, Append(s, x))
<1>1. Len(Append(s, x)) = Len(s) + 1 /\ Len(s) \in Nat
  OBVIOUS
<1>2. SubSeq(Append(s, x), 1, Len(s)) = SubSeq(s, 1, Len(s))
  OBVIOUS
<1> QED
  BY <1>1, <1>2 DEF IsPrefix

LEMMA LoadedOutcomeContinues ==
    ASSUME NEW pol \in Policies, NEW r \in ReviewItem, NEW checker \in Principals,
           NEW d \in Dispositions
    PROVE  Continues(r, Dispose(pol, WithEffectiveRouting(pol, r), checker, d))
<1> DEFINE item == WithEffectiveRouting(pol, r)
           out  == Dispose(pol, item, checker, d)
<1>1. /\ item \in ReviewItem
      /\ item.required >= r.required
      /\ item.approvals = r.approvals
      /\ Submitted(item) = Submitted(r)
  BY EffectiveRoutingSound, ConsoleAssumption
<1>2. checker.actor \in Actors
  BY ConsoleAssumption DEF Principal
<1> HIDE DEF item
<1>3. /\ out.approvals \in {item.approvals, Append(item.approvals, checker.actor)}
      /\ out.required = item.required
      /\ out.review_id = item.review_id /\ out.tenant = item.tenant
  BY <1>1 DEF Dispose, Dispositions, Approved, WithApproval, Resolved, ReviewItem
<1>4. IsPrefix(r.approvals, out.approvals)
  <2>1. item.approvals \in Seq(Actors)
    BY <1>1 DEF ReviewItem
  <2>2. /\ IsPrefix(item.approvals, item.approvals)
        /\ IsPrefix(item.approvals, Append(item.approvals, checker.actor))
    BY <1>2, <2>1, PrefixOfItself
  <2> HIDE DEF out
  <2> QED
    BY <1>1, <1>3, <2>2
<1>5. r.required \in Nat /\ item.required \in Nat
  BY <1>1 DEF ReviewItem
<1> HIDE DEF out
<1>6. SameRow(r, out)
  BY <1>1, <1>3 DEF SameRow, Submitted
<1> QED
  BY <1>1, <1>3, <1>4, <1>5, <1>6 DEF Continues, out, item

(* A put replaces an open row by what continues it.                        *)
LEMMA PutContinuesItsRow ==
    ASSUME IInv, DraftsAreCurrent, NEW w \in Workers, PutOutcome(w)
    PROVE  \E r \in store : /\ ~IsTerminal(r)
                            /\ Continues(r, call[w].item)
                            /\ store' = (store \ {r}) \cup {call[w].item}
<1> DEFINE item == call[w].item
<1>1. item \in Drafts /\ store' = Put(store, item)
  BY DEF PutOutcome, Drafts
<1> HIDE DEF item
<1>2. PICK r \in store : Put(store, item) = (store \ {r}) \cup {item} /\ Submitted(item) = Submitted(r)
  BY <1>1, PutReplacesItsRow
<1>3. PICK s \in store : ~IsTerminal(s) /\ Continues(s, item)
  BY <1>1 DEF DraftsAreCurrent
<1>4. s = r
  BY <1>2, <1>3 DEF IInv, IdsUnique, Continues, SameRow, Submitted
<1> QED
  BY <1>1, <1>2, <1>3, <1>4 DEF item

LEMMA DraftsStayCurrent ==
    ASSUME OneAtATime, IInv, DraftsAreCurrent, [Next]_vars
    PROVE  DraftsAreCurrent'
<1>0. call \in [Workers -> Call]
  BY DEF IInv, TypeOK
<1>1. (store \subseteq store' /\ Drafts' \subseteq Drafts) => DraftsAreCurrent'
  BY DEF DraftsAreCurrent
<1>2. ASSUME NEW w \in Workers, Submit(w) \/ SubmitIdempotent(w)
      PROVE  Drafts' \subseteq Drafts
  BY <1>0, <1>2, CallTypes DEF Submit, SubmitIdempotent, Drafts, Recording
<1>3. ASSUME NEW w \in Workers, DisposeAllowed(w)
      PROVE  DraftsAreCurrent'
  <2>1. PICK checker \in Principals, d \in Dispositions, r \in store :
          LET out == Dispose(policy[w], WithEffectiveRouting(policy[w], r), checker, d)
          IN  /\ ~IsTerminal(r)
              /\ \E e : call' = [call EXCEPT ![w] = Putting(out, e)]
    BY <1>3 DEF DisposeAllowed, Loaded, Get
  <2> DEFINE out == Dispose(policy[w], WithEffectiveRouting(policy[w], r), checker, d)
  <2>2. Continues(r, out)
    BY LoadedOutcomeContinues DEF IInv, TypeOK
  <2> HIDE DEF out
  <2>3. Drafts' \subseteq Drafts \cup {out}
    BY <1>0, <2>1 DEF out, Drafts, Putting
  <2> QED
    BY <1>3, <2>1, <2>2, <2>3 DEF DisposeAllowed, DraftsAreCurrent
<1>4. ASSUME NEW w \in Workers, DisposeDenied(w) \/ Record(w) \/ Fail(w) \/ Redeploy(w)
      PROVE  Drafts' \subseteq Drafts /\ store' = store
  BY <1>0, <1>4 DEF DisposeDenied, Record, Fail, Redeploy, Drafts, Recording, Idle
<1>5. ASSUME NEW w \in Workers, PutOutcome(w)
      PROVE  Drafts' = {}
  <2>1. call'[w].step # "put"
    BY <1>0, <1>5 DEF PutOutcome, Recording
  <2> QED
    BY <2>1 DEF OneAtATime, Drafts
<1>6. CASE UNCHANGED vars
  BY <1>6 DEF vars, DraftsAreCurrent, Drafts
<1>7. CASE Next
  BY <1>1, <1>2, <1>3, <1>4, <1>5, <1>7, EntryAddsRow
     DEF Next, Accept, Serve, DraftsAreCurrent
<1> QED
  BY <1>6, <1>7

(* Only a put touches rows that are there.                                 *)
LEMMA OthersKeepRows ==
    ASSUME IInv, Next
    PROVE  store \subseteq store' \/ \E w \in Workers : PutOutcome(w)
BY EntryAddsRow
   DEF Next, Accept, Serve, DisposeAllowed, DisposeDenied, Record, Fail, Redeploy

LEMMA CurrentFromTheStart == OneAtATime /\ Spec => [](IInv /\ DraftsAreCurrent)
<1>1. Init => DraftsAreCurrent
  BY CallTypes DEF Init, DraftsAreCurrent, Drafts
<1>2. ASSUME OneAtATime PROVE IInv /\ DraftsAreCurrent /\ [Next]_vars => DraftsAreCurrent'
  BY <1>2, DraftsStayCurrent
<1>3. CASE OneAtATime
  BY <1>1, <1>2, <1>3, Invariance, PTL DEF Spec
<1> QED
  BY <1>3

(* One handler at a time, a review that is resolved is never touched again *)
(* (HTTP 409), whatever the failures and the revisions in service.         *)
THEOREM TerminalStays ==
    ASSUME OneAtATime
    PROVE  Spec => TerminalIsFinal
<1> DEFINE Step == \A r \in store : IsTerminal(r) => r \in store'
<1>1. IInv /\ DraftsAreCurrent /\ [Next]_vars => [Step]_vars
  BY OthersKeepRows, PutContinuesItsRow
<1> QED
  BY <1>1, CurrentFromTheStart, PTL DEF Spec, TerminalIsFinal

RowsContinue == \A r \in store : \E s \in store' : Continues(r, s)

LEMMA StepContinuesRows ==
    ASSUME IInv, DraftsAreCurrent, Next
    PROVE  RowsContinue
<1>1. ASSUME NEW r \in store PROVE Continues(r, r)
  <2>1. r.approvals \in Seq(Actors) /\ r.required \in Nat
    BY DEF IInv, TypeOK, ReviewItem
  <2> QED
    BY <2>1 DEF Continues, SameRow, IsPrefix
<1> QED
  BY <1>1, OthersKeepRows, PutContinuesItsRow DEF RowsContinue

(* One handler at a time, a review never requires fewer approvals than it  *)
(* did and never loses one, whatever the failures and revisions.           *)
THEOREM RoutingOnlyTightens ==
    ASSUME OneAtATime
    PROVE  Spec => RoutingRatchets
<1> DEFINE Step == \A r \in store : \E s \in store' :
                     /\ SameRow(r, s)
                     /\ r.required <= s.required
                     /\ IsPrefix(r.approvals, s.approvals)
<1>1. IInv /\ DraftsAreCurrent /\ [Next]_vars => [Step]_vars
  BY StepContinuesRows DEF RowsContinue, Continues
<1> QED
  BY <1>1, CurrentFromTheStart, PTL DEF Spec, RoutingRatchets

(* An ALLOWED sign-off of an approval is backed by rows that hold it.      *)
Backed(rows, e) ==
    e.action = "dispose" /\ e.decision = "allowed" /\ e.disposition = "approve"
      => \E r \in rows : /\ r.review_id = e.review_id
                         /\ r.tenant = e.tenant
                         /\ e.checker \in Approvers(r)

ToWrite == {call[w].event : w \in {v \in Workers : call[v].step = "record"}}

(* So is one that is to be written; before the put, by the draft.          *)
ApprovalsAreBacked ==
    /\ \A e \in SignedOff \cup ToWrite : Backed(store, e)
    /\ \A w \in Workers : call[w].step = "put" => Backed({call[w].item}, call[w].event)

LEMMA ContinuedRowsBack ==
    ASSUME store \subseteq ReviewItem, store' \subseteq ReviewItem, RowsContinue,
           NEW e, Backed(store, e)
    PROVE  Backed(store', e)
<1>1. ASSUME NEW r \in ReviewItem, NEW s \in ReviewItem, Continues(r, s)
      PROVE  Approvers(r) \subseteq Approvers(s)
  <2>1. r.approvals \in Seq(Actors) /\ s.approvals \in Seq(Actors)
    BY DEF ReviewItem
  <2>2. \A i \in 1..Len(r.approvals) : /\ i \in 1..Len(s.approvals)
                                      /\ r.approvals[i] = s.approvals[i]
    <3>1. /\ Len(r.approvals) <= Len(s.approvals)
          /\ SubSeq(r.approvals, 1, Len(r.approvals)) = SubSeq(s.approvals, 1, Len(r.approvals))
      BY <1>1 DEF Continues, IsPrefix
    <3>2. \A i \in 1..Len(r.approvals) :
            /\ SubSeq(r.approvals, 1, Len(r.approvals))[i] = r.approvals[i]
            /\ SubSeq(s.approvals, 1, Len(r.approvals))[i] = s.approvals[i]
      BY <2>1, <3>1
    <3> QED
      BY <2>1, <3>1, <3>2
  <2> QED
    BY <2>1, <2>2 DEF Approvers, Range
<1>2. \A r \in store : \E s \in store' : /\ r.review_id = s.review_id /\ r.tenant = s.tenant
                                       /\ Approvers(r) \subseteq Approvers(s)
  BY <1>1 DEF RowsContinue, Continues, SameRow
<1> QED
  BY <1>2 DEF Backed

(* An approval is on the item that it makes.                               *)
LEMMA OutcomeBacksItsSignOff ==
    ASSUME NEW pol \in Policies, NEW r \in ReviewItem, NEW checker \in Principals,
           NEW d \in Dispositions
    PROVE  LET out == Dispose(pol, WithEffectiveRouting(pol, r), checker, d)
           IN  Backed({out}, SignOff(out, "dispose", checker.actor, d, {}))
<1> DEFINE item == WithEffectiveRouting(pol, r)
           out  == Dispose(pol, item, checker, d)
<1>1. item \in ReviewItem /\ checker.actor \in Actors
  BY EffectiveRoutingSound, ConsoleAssumption DEF Principal
<1> HIDE DEF item
<1>2. CASE d = "approve"
  <2>1. out.approvals = Append(item.approvals, checker.actor)
    BY <1>1, <1>2 DEF Dispose, Approved, WithApproval, ReviewItem
  <2> HIDE DEF out
  <2>2. item.approvals \in Seq(Actors)
    BY <1>1 DEF ReviewItem
  <2>3. checker.actor \in Approvers(out)
    BY <1>1, <2>1, <2>2 DEF Approvers, Range
  <2> QED
    BY <2>3 DEF Backed, SignOff, out, item
<1>3. CASE d # "approve"
  BY <1>3 DEF Backed, SignOff
<1> QED
  BY <1>2, <1>3

LEMMA BackingStays ==
    ASSUME IInv, IInv', DraftsAreCurrent, ApprovalsAreBacked, Next
    PROVE  ApprovalsAreBacked'
<1> DEFINE Written == \A e \in (SignedOff \cup ToWrite)' :
                        e \in SignedOff \cup ToWrite \/ Backed(store', e)
           Drafted == \A w \in Workers : call'[w].step = "put"
                        => Backed({call'[w].item}, call'[w].event)
<1>0. /\ call \in [Workers -> Call] /\ signoffs \in Seq(SignOffEvent)
      /\ policy \in [Workers -> Policies]
      /\ store \subseteq ReviewItem /\ store' \subseteq ReviewItem
  BY DEF IInv, TypeOK
<1>1. Written /\ Drafted => ApprovalsAreBacked'
  BY <1>0, StepContinuesRows, ContinuedRowsBack DEF ApprovalsAreBacked
<1>2. ASSUME NEW w \in Workers, NEW e, signoffs' = signoffs, Backed(store', e),
             call' = [call EXCEPT ![w] = Recording(e)]
      PROVE  Written /\ Drafted
  BY <1>0, <1>2 DEF SignedOff, ToWrite, Recording, ApprovalsAreBacked
<1>3. ASSUME NEW w \in Workers, Submit(w) \/ SubmitIdempotent(w)
      PROVE  Written /\ Drafted
  <2>1. \A item : Backed(store', SubmissionSignOff(item))
    BY DEF Backed, SubmissionSignOff, SignOff
  <2>2. CASE UNCHANGED call
    BY <1>3, <2>2 DEF Submit, SubmitIdempotent, SignedOff, ToWrite, ApprovalsAreBacked
  <2>3. CASE ~UNCHANGED call
    <3>1. \E item : call' = [call EXCEPT ![w] = Recording(SubmissionSignOff(item))]
      BY <1>3, <2>3 DEF Submit, SubmitIdempotent
    <3> QED
      BY <1>2, <1>3, <2>1, <3>1 DEF Submit, SubmitIdempotent
  <2> QED
    BY <2>2, <2>3
<1>4. ASSUME NEW w \in Workers, DisposeAllowed(w)
      PROVE  Written /\ Drafted
  <2>1. PICK checker \in Principals, d \in Dispositions, r \in store :
          LET out == Dispose(policy[w], WithEffectiveRouting(policy[w], r), checker, d)
          IN  call' = [call EXCEPT ![w] =
                Putting(out, SignOff(out, "dispose", checker.actor, d, {}))]
    BY <1>4 DEF DisposeAllowed, Loaded, Get
  <2> DEFINE out == Dispose(policy[w], WithEffectiveRouting(policy[w], r), checker, d)
             e   == SignOff(out, "dispose", checker.actor, d, {})
  <2>2. Backed({out}, e)
    BY <1>0, OutcomeBacksItsSignOff
  <2>3. call' = [call EXCEPT ![w] = Putting(out, e)]
    BY <2>1
  <2> HIDE DEF out, e
  <2> QED
    BY <1>0, <1>4, <2>2, <2>3
       DEF DisposeAllowed, SignedOff, ToWrite, Putting, ApprovalsAreBacked
<1>5. ASSUME NEW w \in Workers, DisposeDenied(w)
      PROVE  Written /\ Drafted
  <2>1. PICK checker \in Principals, d \in Dispositions, id \in ReviewIds :
          \E item \in Loaded(w, id, checker) :
            /\ CheckEligibility(policy[w], item, checker) # {}
            /\ call' = [call EXCEPT ![w] =
                 Recording(SignOff(item, "dispose", checker.actor, d,
                                   CheckEligibility(policy[w], item, checker)))]
    BY <1>5 DEF DisposeDenied
  <2>2. PICK item : /\ CheckEligibility(policy[w], item, checker) # {}
                    /\ call' = [call EXCEPT ![w] =
                         Recording(SignOff(item, "dispose", checker.actor, d,
                                           CheckEligibility(policy[w], item, checker)))]
    BY <2>1
  <2> DEFINE e == SignOff(item, "dispose", checker.actor, d,
                          CheckEligibility(policy[w], item, checker))
  <2>3. Backed(store', e)
    BY <2>2 DEF Backed, SignOff
  <2>4. call' = [call EXCEPT ![w] = Recording(e)] /\ signoffs' = signoffs
    BY <1>5, <2>2 DEF DisposeDenied
  <2> HIDE DEF e
  <2> QED
    BY <1>2, <2>3, <2>4
<1>6. ASSUME NEW w \in Workers, PutOutcome(w)
      PROVE  Written /\ Drafted
  <2>1. Backed({call[w].item}, call[w].event) /\ call[w].item \in store'
    BY <1>6 DEF PutOutcome, Put, ApprovalsAreBacked
  <2>2. Backed(store', call[w].event)
    BY <2>1 DEF Backed
  <2> QED
    BY <1>2, <1>6, <2>2 DEF PutOutcome
<1>7. ASSUME NEW w \in Workers, Record(w)
      PROVE  Written /\ Drafted
  <2>1. call[w].event \in SignOffEvent /\ call[w].event \in ToWrite
    BY <1>0, <1>7, CallTypes DEF Record, ToWrite
  <2>2. SignedOff' \subseteq SignedOff \cup ToWrite
    BY <1>0, <1>7, <2>1, RecordedIsAppended DEF Record, SignedOff
  <2>3. ToWrite' \subseteq ToWrite /\ Drafted
    BY <1>0, <1>7 DEF Record, ToWrite, Idle, ApprovalsAreBacked
  <2> QED
    BY <2>2, <2>3
<1>8. ASSUME NEW w \in Workers, Fail(w) \/ Redeploy(w)
      PROVE  Written /\ Drafted
  <2>1. /\ signoffs' = signoffs
        /\ \A v \in Workers : call'[v].step \in {"put", "record"} => call'[v] = call[v]
    BY <1>0, <1>8 DEF Fail, Redeploy, Idle
  <2>2. (SignedOff \cup ToWrite)' \subseteq SignedOff \cup ToWrite
    BY <2>1 DEF SignedOff, ToWrite
  <2>3. Drafted
    BY <2>1 DEF ApprovalsAreBacked
  <2> QED
    BY <2>2, <2>3
<1> QED
  BY <1>1, <1>3, <1>4, <1>5, <1>6, <1>7, <1>8 DEF Next, Accept, Serve

(* One handler at a time, every approval that the trail says was allowed   *)
(* is stored, and stays so, whatever the failures and revisions.           *)
THEOREM ApprovalsStayStored ==
    ASSUME OneAtATime
    PROVE  Spec => []AllowedApprovalsAreStored
<1>1. Init => ApprovalsAreBacked
  BY DEF Init, ApprovalsAreBacked, SignedOff, ToWrite, Range, Idle
<1>2. IInv /\ IInv' /\ DraftsAreCurrent /\ ApprovalsAreBacked /\ [Next]_vars
        => ApprovalsAreBacked'
  <2>1. CASE Next
    BY <2>1, BackingStays
  <2>2. CASE UNCHANGED vars
    BY <2>2 DEF vars, ApprovalsAreBacked, SignedOff, ToWrite
  <2> QED
    BY <2>1, <2>2
<1>3. ApprovalsAreBacked => AllowedApprovalsAreStored
  BY DEF ApprovalsAreBacked, AllowedApprovalsAreStored, Backed
<1> QED
  BY <1>1, <1>2, <1>3, CurrentFromTheStart, PTL DEF Spec

-----------------------------------------------------------------------------
(* What the trail may miss, for any number of threads. *)

(* A submission, as far as rows and records are concerned.                 *)
Enters(w, item) ==
    /\ call[w] = Idle
    /\ item \in ReviewItem /\ ~IsTerminal(item)
    /\ \A r \in store : r.review_id # item.review_id
    /\ store' = store \cup {item}
    /\ call' = [call EXCEPT ![w] = Recording(SubmissionSignOff(item))]
    /\ UNCHANGED <<signoffs, failures>>

(* The record of a put tells the state that the put leaves.                *)
Tells(e, r) ==
    /\ e.action = "dispose" /\ e.decision = "allowed"
    /\ e.review_id = r.review_id /\ e.tenant = r.tenant
    /\ e.state = r.state

(* A disposition, up to its first access.                                  *)
Attempts(w, c) ==
    /\ call[w] = Idle /\ c \in Call
    /\ c.step \in {"put", "record"} /\ c.event.action = "dispose"
    /\ c.step = "put" => Tells(c.event, c.item)
    /\ call' = [call EXCEPT ![w] = c]
    /\ UNCHANGED <<store, signoffs, failures>>

(* What a step does to rows and records, without how it is computed.       *)
LEMMA StepsOnRecords ==
    ASSUME IInv, Next
    PROVE  \E w \in Workers :
             \/ \E item : Enters(w, item)
             \/ \E c : Attempts(w, c)
             \/ PutOutcome(w) \/ Record(w) \/ Fail(w)
             \/ UNCHANGED <<store, signoffs, call, failures>>
<1> DEFINE Goal(w) == \/ \E item : Enters(w, item)
                      \/ \E c : Attempts(w, c)
                      \/ PutOutcome(w) \/ Record(w) \/ Fail(w)
                      \/ UNCHANGED <<store, signoffs, call, failures>>
<1>0. /\ call \in [Workers -> Call] /\ store \subseteq ReviewItem
      /\ policy \in [Workers -> Policies]
  BY DEF IInv, TypeOK
<1>1. ASSUME NEW w \in Workers, call[w] = Idle, NEW id \in FreshIds, NEW tenant \in Tenants,
             NEW maker \in Actors, NEW request \in Requests, NEW key \in SourceKeys \cup {NoKey},
             LET item == NewItem(policy[w], id, tenant, maker, request, key)
             IN  /\ store' = Put(store, item)
                 /\ call' = [call EXCEPT ![w] = Recording(SubmissionSignOff(item))],
             UNCHANGED <<signoffs, failures>>
      PROVE  Goal(w)
  <2> DEFINE item == NewItem(policy[w], id, tenant, maker, request, key)
  <2>1. id \in ReviewIds /\ \A r \in store : r.review_id # id
    BY DEF FreshIds
  <2>2. item \in ReviewItem /\ item.review_id = id
    BY <1>0, <2>1, NewItemSound
  <2>3. ~IsTerminal(item)
    BY DEF NewItem, WithEffectiveRouting, IsTerminal
  <2>4. /\ store' = Put(store, item)
        /\ call' = [call EXCEPT ![w] = Recording(SubmissionSignOff(item))]
    BY <1>1
  <2> HIDE DEF item
  <2>5. store' = store \cup {item}
    BY <2>1, <2>2, <2>4 DEF Put, SameRow
  <2> QED
    BY <1>1, <2>1, <2>2, <2>3, <2>4, <2>5 DEF Enters
<1>2. ASSUME NEW w \in Workers, Submit(w)
      PROVE  Goal(w)
  BY <1>1, <1>2, ConsoleAssumption DEF Submit, Principal
<1>3. ASSUME NEW w \in Workers, SubmitIdempotent(w)
      PROVE  Goal(w)
  BY <1>1, <1>3 DEF SubmitIdempotent
<1>4. ASSUME NEW w \in Workers, DisposeAllowed(w)
      PROVE  Goal(w)
  <2>1. PICK checker \in Principals, d \in Dispositions, r \in store :
          LET item    == WithEffectiveRouting(policy[w], r)
              outcome == Dispose(policy[w], item, checker, d)
          IN  /\ ~IsTerminal(r)
              /\ CheckEligibility(policy[w], item, checker) = {}
              /\ call' = [call EXCEPT ![w] =
                   Putting(outcome, SignOff(outcome, "dispose", checker.actor, d, {}))]
    BY <1>4 DEF DisposeAllowed, Loaded, Get
  <2> DEFINE item == WithEffectiveRouting(policy[w], r)
             out  == Dispose(policy[w], item, checker, d)
             e    == SignOff(out, "dispose", checker.actor, d, {})
  <2>2. out \in ReviewItem
    BY <1>0, <2>1, LoadedOutcomeSound DEF IInv, ItemsSound
  <2>3. call' = [call EXCEPT ![w] = Putting(out, e)]
    BY <2>1
  <2> HIDE DEF item, out
  <2>4. e \in SignOffEvent
    BY <2>2, SignOffType, ConsoleAssumption DEF Principal
  <2>5. Tells(e, out)
    BY DEF Tells, SignOff
  <2> HIDE DEF e
  <2>6. /\ Putting(out, e) \in Call
        /\ Putting(out, e).step = "put" /\ Putting(out, e).item = out /\ Putting(out, e).event = e
    BY <2>2, <2>4, CallTypes DEF Putting
  <2>7. Attempts(w, Putting(out, e))
    BY <1>4, <2>3, <2>5, <2>6 DEF DisposeAllowed, Attempts, Tells
  <2> QED
    BY <2>7
<1>5. ASSUME NEW w \in Workers, DisposeDenied(w)
      PROVE  Goal(w)
  <2>1. PICK checker \in Principals, d \in Dispositions, r \in store :
          LET item     == WithEffectiveRouting(policy[w], r)
              findings == CheckEligibility(policy[w], item, checker)
          IN  call' = [call EXCEPT ![w] =
                Recording(SignOff(item, "dispose", checker.actor, d, findings))]
    BY <1>5 DEF DisposeDenied, Loaded, Get
  <2> DEFINE item     == WithEffectiveRouting(policy[w], r)
             findings == CheckEligibility(policy[w], item, checker)
             e        == SignOff(item, "dispose", checker.actor, d, findings)
  <2>2. item \in ReviewItem /\ findings \in SUBSET Findings
    BY <1>0, EffectiveRoutingSound, ConsoleAssumption DEF CheckEligibility
  <2>3. call' = [call EXCEPT ![w] = Recording(e)]
    BY <2>1
  <2> HIDE DEF item, findings
  <2>4. e \in SignOffEvent /\ e.action = "dispose"
    BY <2>2, SignOffType, ConsoleAssumption DEF Principal, SignOff
  <2> HIDE DEF e
  <2>5. Recording(e) \in Call /\ Recording(e).step = "record" /\ Recording(e).event = e
    BY <2>4, CallTypes DEF Recording
  <2>6. Attempts(w, Recording(e))
    BY <1>5, <2>3, <2>4, <2>5 DEF DisposeDenied, Attempts
  <2> QED
    BY <2>6
<1> QED
  BY <1>2, <1>3, <1>4, <1>5 DEF Next, Accept, Serve, Redeploy

Records == SignedOff \cup Unrecorded

(* Only a death takes a record away, and then one.                         *)
LEMMA RecordsStay ==
    ASSUME IInv, NEW w \in Workers
    PROVE  /\ \A item : Enters(w, item) => Records \cup {SubmissionSignOff(item)} \subseteq Records'
           /\ \A c : Attempts(w, c) => Records \subseteq Records'
           /\ PutOutcome(w) => Records \subseteq Records' /\ call[w].event \in Records'
           /\ Record(w) => Records \subseteq Records'
           /\ Fail(w) => Records \subseteq Records' \cup {call[w].event}
<1>0. call \in [Workers -> Call] /\ signoffs \in Seq(SignOffEvent)
  BY DEF IInv, TypeOK
<1>1. ASSUME NEW c, c # Idle, call[w] = Idle, call' = [call EXCEPT ![w] = c], signoffs' = signoffs
      PROVE  Records \cup {c.event} \subseteq Records'
  BY <1>0, <1>1 DEF Records, SignedOff, Unrecorded
<1>2. ASSUME NEW item, Enters(w, item)
      PROVE  Records \cup {SubmissionSignOff(item)} \subseteq Records'
  <2> DEFINE e == SubmissionSignOff(item)
  <2> HIDE DEF e
  <2>1. Recording(e) # Idle /\ Recording(e).event = e
    BY DEF Recording, Idle
  <2>2. call[w] = Idle /\ call' = [call EXCEPT ![w] = Recording(e)] /\ signoffs' = signoffs
    BY <1>2 DEF Enters, e
  <2> QED
    BY <1>1, <2>1, <2>2 DEF e
<1>3. ASSUME NEW c, Attempts(w, c)
      PROVE  Records \subseteq Records'
  <2>1. c # Idle
    BY <1>3 DEF Attempts, Idle
  <2>2. Records \cup {c.event} \subseteq Records'
    BY <1>1, <1>3, <2>1 DEF Attempts
  <2> QED
    BY <2>2
<1>4. ASSUME PutOutcome(w)
      PROVE  Records \subseteq Records' /\ call[w].event \in Records'
  <2> DEFINE e == call[w].event
  <2>1. e = call[w].event
    OBVIOUS
  <2> HIDE DEF e
  <2>2. Recording(e) # Idle /\ Recording(e).event = e
    BY DEF Recording, Idle
  <2>3. call' = [call EXCEPT ![w] = Recording(e)] /\ signoffs' = signoffs
    BY <1>4, <2>1 DEF PutOutcome
  <2> QED
    BY <1>0, <2>1, <2>2, <2>3 DEF Records, SignedOff, Unrecorded
<1>5. ASSUME Record(w)
      PROVE  Records \subseteq Records'
  <2>1. call[w].event \in SignOffEvent
    BY <1>0, <1>5, CallTypes DEF Record
  <2>2. /\ \A i \in DOMAIN signoffs : i \in DOMAIN signoffs' /\ signoffs'[i] = signoffs[i]
        /\ Len(signoffs) + 1 \in DOMAIN signoffs'
        /\ signoffs'[Len(signoffs) + 1] = call[w].event
    BY <1>0, <1>5, <2>1 DEF Record
  <2>3. SignedOff \cup {call[w].event} \subseteq SignedOff'
    BY <2>2 DEF SignedOff, Range
  <2>4. Unrecorded \subseteq Unrecorded' \cup {call[w].event}
    BY <1>0, <1>5 DEF Record, Unrecorded
  <2> QED
    BY <2>3, <2>4 DEF Records
<1>6. ASSUME Fail(w)
      PROVE  Records \subseteq Records' \cup {call[w].event}
  BY <1>0, <1>6 DEF Fail, Records, SignedOff, Unrecorded
<1> QED
  BY <1>2, <1>3, <1>4, <1>5, <1>6

(* What a put is about to leave is told by its record.                     *)
DraftsAreTold == \A w \in Workers : call[w].step = "put" => Tells(call[w].event, call[w].item)

LEMMA DraftsStayTold == IInv /\ DraftsAreTold /\ [Next]_vars => DraftsAreTold'
<1> SUFFICES ASSUME IInv, DraftsAreTold, [Next]_vars PROVE DraftsAreTold'
  OBVIOUS
<1>0. call \in [Workers -> Call]
  BY DEF IInv, TypeOK
<1>1. CASE UNCHANGED call
  BY <1>1 DEF DraftsAreTold
<1>2. ASSUME NEW w \in Workers, NEW c, call' = [call EXCEPT ![w] = c],
             c.step = "put" => Tells(c.event, c.item)
      PROVE  DraftsAreTold'
  BY <1>0, <1>2 DEF DraftsAreTold
<1>3. ASSUME NEW w \in Workers, NEW item, Enters(w, item)
      PROVE  DraftsAreTold'
  BY <1>2, <1>3 DEF Enters, Recording
<1>4. ASSUME NEW w \in Workers, NEW c, Attempts(w, c)
      PROVE  DraftsAreTold'
  BY <1>2, <1>4 DEF Attempts
<1>5. ASSUME NEW w \in Workers, PutOutcome(w) \/ Record(w) \/ Fail(w)
      PROVE  DraftsAreTold'
  BY <1>2, <1>5 DEF PutOutcome, Record, Fail, Recording, Idle
<1> QED
  BY <1>1, <1>3, <1>4, <1>5, StepsOnRecords DEF vars

Untold    == {r \in store : IsTerminal(r) /\ ~IsTold(r)}
Unentered == {r \in store : ~ \E e \in Records : Submits(e, r)}

AtMostLost(S) == IsFiniteSet(S) /\ Cardinality(S) <= failures

LEMMA NoMoreLost ==
    ASSUME NEW S, NEW T, failures \in Nat, AtMostLost(S), T \subseteq S, failures' = failures
    PROVE  IsFiniteSet(T) /\ Cardinality(T) <= failures'
<1>1. IsFiniteSet(T) /\ Cardinality(T) <= Cardinality(S)
  BY FS_Subset DEF AtMostLost
<1>2. Cardinality(S) \in Nat /\ Cardinality(T) \in Nat
  BY <1>1, FS_CardinalityType DEF AtMostLost
<1> QED
  BY <1>1, <1>2 DEF AtMostLost

LEMMA OneMoreLost ==
    ASSUME NEW S, NEW T, NEW x, failures \in Nat, AtMostLost(S), T \subseteq S \cup {x},
           failures' = failures + 1
    PROVE  IsFiniteSet(T) /\ Cardinality(T) <= failures'
<1>1. IsFiniteSet(S \cup {x}) /\ Cardinality(S \cup {x}) <= Cardinality(S) + 1
  <2>1. IsFiniteSet(S)
    BY DEF AtMostLost
  <2>2. Cardinality(S) \in Nat
    BY <2>1, FS_CardinalityType
  <2>3. /\ IsFiniteSet(S \cup {x})
        /\ Cardinality(S \cup {x}) = IF x \in S THEN Cardinality(S) ELSE Cardinality(S) + 1
    BY <2>1, FS_AddElement
  <2> QED
    BY <2>2, <2>3
<1>2. IsFiniteSet(T) /\ Cardinality(T) <= Cardinality(S \cup {x})
  BY <1>1, FS_Subset
<1>3. Cardinality(S) \in Nat /\ Cardinality(T) \in Nat /\ Cardinality(S \cup {x}) \in Nat
  BY <1>1, <1>2, FS_CardinalityType DEF AtMostLost
<1> QED
  BY <1>1, <1>2, <1>3 DEF AtMostLost

(* A death loses the record of one row.                                    *)
LEMMA DeathLosesOne ==
    ASSUME IInv, NEW w \in Workers, Fail(w)
    PROVE  \E x : \A r \in store : \A e \in Records :
             e.review_id = r.review_id => e \in Records' \/ r = x
<1>1. Records \subseteq Records' \cup {call[w].event}
  BY RecordsStay
<1>2. CASE \E r \in store : r.review_id = call[w].event.review_id
  <2>1. PICK x \in store : x.review_id = call[w].event.review_id
    BY <1>2
  <2> QED
    BY <1>1, <2>1 DEF IInv, IdsUnique
<1>3. CASE ~ \E r \in store : r.review_id = call[w].event.review_id
  BY <1>1, <1>3
<1> QED
  BY <1>2, <1>3

LEMMA UntoldStaysLost ==
    ASSUME IInv, DraftsAreTold, AtMostLost(Untold), [Next]_vars
    PROVE  AtMostLost(Untold)'
<1>0. failures \in Nat
  BY DEF IInv, TypeOK
<1>1. (Untold' \subseteq Untold /\ failures' = failures) => AtMostLost(Untold)'
  BY <1>0, NoMoreLost DEF AtMostLost
<1>2. \A r : IsTold(r) <=> \E e \in Records : Tells(e, r)
  BY DEF IsTold, Records, Tells
<1>3. \A r : IsTold(r)' <=> \E e \in Records' : Tells(e, r)
  BY DEF IsTold, Records, Tells
<1>4. ASSUME Records \subseteq Records', failures' = failures,
             \A r \in store' : r \in store \/ ~IsTerminal(r) \/ IsTold(r)'
      PROVE  AtMostLost(Untold)'
  BY <1>1, <1>2, <1>3, <1>4 DEF Untold
<1>5. ASSUME NEW w \in Workers, NEW item, Enters(w, item)
      PROVE  AtMostLost(Untold)'
  BY <1>4, <1>5, RecordsStay DEF Enters
<1>6. ASSUME NEW w \in Workers, NEW c, Attempts(w, c)
      PROVE  AtMostLost(Untold)'
  BY <1>4, <1>6, RecordsStay DEF Attempts
<1>7. ASSUME NEW w \in Workers, Record(w)
      PROVE  AtMostLost(Untold)'
  BY <1>4, <1>7, RecordsStay DEF Record
<1>8. ASSUME NEW w \in Workers, PutOutcome(w)
      PROVE  AtMostLost(Untold)'
  <2>1. Records \subseteq Records' /\ call[w].event \in Records'
    BY <1>8, RecordsStay
  <2>2. PICK item : item = call[w].item
    OBVIOUS
  <2>3. Tells(call[w].event, item)
    BY <1>8, <2>2 DEF DraftsAreTold, PutOutcome
  <2>4. IsTold(item)'
    BY <1>3, <2>1, <2>3
  <2>5. \A r \in store' : r \in store \/ r = item
    BY <1>8, <2>2 DEF PutOutcome, Put
  <2> QED
    BY <1>4, <1>8, <2>1, <2>4, <2>5 DEF PutOutcome
<1>9. ASSUME NEW w \in Workers, Fail(w)
      PROVE  AtMostLost(Untold)'
  <2>1. PICK x : \A r \in store : \A e \in Records :
                   e.review_id = r.review_id => e \in Records' \/ r = x
    BY <1>9, DeathLosesOne
  <2>2. Untold' \subseteq Untold \cup {x}
    BY <1>2, <1>3, <1>9, <2>1 DEF Untold, Tells, Fail
  <2> QED
    BY <1>0, <1>9, <2>2, OneMoreLost DEF Fail, AtMostLost
<1>10. CASE UNCHANGED <<store, signoffs, call, failures>>
  BY <1>10 DEF AtMostLost, Untold, IsTold, SignedOff, Unrecorded
<1> QED
  BY <1>5, <1>6, <1>7, <1>8, <1>9, <1>10, StepsOnRecords DEF vars

(* However threads interleave and handlers die, the trail misses no more   *)
(* decided reviews than handlers died (dispose: put, then _record).        *)
THEOREM DispositionsAreTold == Spec => []DispositionsAreSignedOff
<1>1. Init => DraftsAreTold /\ AtMostLost(Untold)
  <2>1. Init => Untold = {} /\ failures = 0
    BY DEF Init, Untold
  <2>2. Init => DraftsAreTold
    BY DEF Init, DraftsAreTold, Idle
  <2> QED
    BY <2>1, <2>2, FS_EmptySet DEF AtMostLost
<1>2. IInv /\ DraftsAreTold /\ AtMostLost(Untold) /\ [Next]_vars => AtMostLost(Untold)'
  BY UntoldStaysLost
<1>3. AtMostLost(Untold) => DispositionsAreSignedOff
  BY DEF AtMostLost, Untold, DispositionsAreSignedOff
<1> QED
  BY <1>1, <1>2, <1>3, DraftsStayTold, Invariance, PTL DEF Spec

LEMMA UnenteredStaysLost ==
    ASSUME IInv, AtMostLost(Unentered), [Next]_vars
    PROVE  AtMostLost(Unentered)'
<1> DEFINE IsEntered(r) == \E e \in Records : Submits(e, r)
<1>0. failures \in Nat
  BY DEF IInv, TypeOK
<1>1. /\ Unentered = {r \in store : ~IsEntered(r)}
      /\ Unentered' = {r \in store' : ~ \E e \in Records' : Submits(e, r)}
  BY DEF Unentered, Submits
<1>2. ASSUME Records \subseteq Records', failures' = failures,
             \A r \in store' : r \in store \/ \E e \in Records' : Submits(e, r)
      PROVE  AtMostLost(Unentered)'
  <2>1. Unentered' \subseteq Unentered
    BY <1>1, <1>2
  <2> QED
    BY <1>0, <1>2, <2>1, NoMoreLost DEF AtMostLost
<1>3. ASSUME NEW w \in Workers, NEW item, Enters(w, item)
      PROVE  AtMostLost(Unentered)'
  <2>1. Submits(SubmissionSignOff(item), item)
    BY DEF Submits, SubmissionSignOff, SignOff
  <2> QED
    BY <1>2, <1>3, <2>1, RecordsStay DEF Enters
<1>4. ASSUME NEW w \in Workers, NEW c, Attempts(w, c)
      PROVE  AtMostLost(Unentered)'
  BY <1>2, <1>4, RecordsStay DEF Attempts
<1>5. ASSUME NEW w \in Workers, Record(w)
      PROVE  AtMostLost(Unentered)'
  BY <1>2, <1>5, RecordsStay DEF Record
<1>6. ASSUME NEW w \in Workers, PutOutcome(w)
      PROVE  AtMostLost(Unentered)'
  <2>1. PICK item : item = call[w].item
    OBVIOUS
  <2>2. PICK r \in store : store' = (store \ {r}) \cup {item} /\ Submitted(item) = Submitted(r)
    BY <1>6, <2>1, PutReplacesItsRow DEF PutOutcome, Drafts
  <2>3. \A e : Submits(e, item) <=> Submits(e, r)
    BY <2>2 DEF Submits, Submitted
  <2>4. Records \subseteq Records' /\ failures' = failures
    BY <1>6, RecordsStay DEF PutOutcome
  <2>5. CASE r \in Unentered
    <3>1. Unentered' \subseteq (Unentered \ {r}) \cup {item}
      BY <1>1, <2>2, <2>4
    <3>2. IsFiniteSet(Unentered) /\ Cardinality(Unentered) \in Nat /\ Cardinality(Unentered) <= failures
      BY FS_CardinalityType DEF AtMostLost
    <3>3. IsFiniteSet(Unentered \ {r}) /\ Cardinality(Unentered \ {r}) = Cardinality(Unentered) - 1
      BY <2>5, <3>2, FS_RemoveElement
    <3> DEFINE more == (Unentered \ {r}) \cup {item}
    <3>4. /\ IsFiniteSet(more)
          /\ Cardinality(more) = IF item \in Unentered \ {r} THEN Cardinality(Unentered \ {r})
                                                             ELSE Cardinality(Unentered \ {r}) + 1
      BY <3>3, FS_AddElement
    <3>5. Cardinality(more) <= failures
      BY <1>0, <3>2, <3>3, <3>4
    <3>6. AtMostLost(more)
      BY <3>4, <3>5 DEF AtMostLost
    <3> QED
      BY <1>0, <2>4, <3>1, <3>6, NoMoreLost DEF AtMostLost
  <2>6. CASE r \notin Unentered
    <3>1. Unentered' \subseteq Unentered
      BY <1>1, <2>2, <2>3, <2>4, <2>6
    <3> QED
      BY <1>0, <2>4, <3>1, NoMoreLost DEF AtMostLost
  <2> QED
    BY <2>5, <2>6
<1>7. ASSUME NEW w \in Workers, Fail(w)
      PROVE  AtMostLost(Unentered)'
  <2>1. PICK x : \A r \in store : \A e \in Records :
                   e.review_id = r.review_id => e \in Records' \/ r = x
    BY <1>7, DeathLosesOne
  <2>2. Unentered' \subseteq Unentered \cup {x}
    BY <1>1, <1>7, <2>1 DEF Submits, Fail
  <2> QED
    BY <1>0, <1>7, <2>2, OneMoreLost DEF Fail, AtMostLost
<1>8. CASE UNCHANGED <<store, signoffs, call, failures>>
  BY <1>8 DEF AtMostLost, Unentered, Records, SignedOff, Unrecorded, Submits
<1> QED
  BY <1>3, <1>4, <1>5, <1>6, <1>7, <1>8, StepsOnRecords DEF vars

(* Two records of a submission are about two reviews, whether they are     *)
(* written or still to be written.                                         *)
SameEntry(e, f) == e.action = "submit" /\ f.action = "submit" /\ e.review_id = f.review_id

EnteredOnce ==
    /\ \A i, j \in DOMAIN signoffs : SameEntry(signoffs[i], signoffs[j]) => i = j
    /\ \A w \in Workers : call[w] # Idle =>
         /\ \A i \in DOMAIN signoffs : ~SameEntry(signoffs[i], call[w].event)
         /\ \A v \in Workers \ {w} : call[v] # Idle => ~SameEntry(call[v].event, call[w].event)

LEMMA EnteredStaysOnce == IInv /\ RecordsNameRows /\ EnteredOnce /\ [Next]_vars => EnteredOnce'
<1> SUFFICES ASSUME IInv, RecordsNameRows, EnteredOnce, [Next]_vars PROVE EnteredOnce'
  OBVIOUS
<1>0. call \in [Workers -> Call] /\ signoffs \in Seq(SignOffEvent)
  BY DEF IInv, TypeOK
<1>1. ASSUME NEW w \in Workers, NEW c, call' = [call EXCEPT ![w] = c], signoffs' = signoffs,
             c # Idle => \/ call[w] # Idle /\ c.event = call[w].event
                        \/ c.event.action # "submit"
                        \/ \A e \in Records : ~SameEntry(e, c.event)
      PROVE  EnteredOnce'
  <2>1. \A e, f : SameEntry(e, f) <=> SameEntry(f, e)
    BY DEF SameEntry
  <2>2. /\ \A i \in DOMAIN signoffs : signoffs[i] \in Records
        /\ \A v \in Workers : call[v] # Idle => call[v].event \in Records
    BY DEF Records, SignedOff, Unrecorded, Range
  <2>3. \A v \in Workers : call'[v] = IF v = w THEN c ELSE call[v]
    BY <1>0, <1>1
  <2>4. ASSUME NEW v \in Workers, call'[v] # Idle, NEW i \in DOMAIN signoffs'
        PROVE  ~SameEntry(signoffs'[i], call'[v].event)
    BY <1>1, <2>2, <2>3, <2>4 DEF EnteredOnce, SameEntry
  <2>5. ASSUME NEW v \in Workers, call'[v] # Idle, NEW u \in Workers \ {v}, call'[u] # Idle
        PROVE  ~SameEntry(call'[u].event, call'[v].event)
    BY <1>1, <2>1, <2>2, <2>3, <2>5 DEF EnteredOnce, SameEntry
  <2> QED
    BY <1>1, <2>4, <2>5 DEF EnteredOnce
<1>2. ASSUME NEW w \in Workers, NEW item, Enters(w, item)
      PROVE  EnteredOnce'
  <2> DEFINE e == SubmissionSignOff(item)
  <2>1. \A f \in Records : f.review_id # item.review_id
    BY <1>2 DEF Enters, RecordsNameRows, Records, NamesRow
  <2>2. e.review_id = item.review_id
    BY DEF SubmissionSignOff, SignOff
  <2> HIDE DEF e
  <2>3. Recording(e).event = e
    BY DEF Recording
  <2>4. call' = [call EXCEPT ![w] = Recording(e)] /\ signoffs' = signoffs
    BY <1>2 DEF Enters, e
  <2>5. \A f \in Records : ~SameEntry(f, e)
    BY <2>1, <2>2 DEF SameEntry
  <2> QED
    BY <1>1, <2>3, <2>4, <2>5
<1>3. ASSUME NEW w \in Workers, NEW c, Attempts(w, c)
      PROVE  EnteredOnce'
  BY <1>1, <1>3 DEF Attempts
<1>4. ASSUME NEW w \in Workers, PutOutcome(w) \/ Fail(w)
      PROVE  EnteredOnce'
  BY <1>1, <1>4 DEF PutOutcome, Fail, Recording, Idle
<1>5. ASSUME NEW w \in Workers, Record(w)
      PROVE  EnteredOnce'
  <2> DEFINE n == Len(signoffs) + 1
  <2>1. call[w].event \in SignOffEvent /\ call[w] # Idle
    BY <1>0, <1>5, CallTypes DEF Record
  <2>2. /\ DOMAIN signoffs = 1..Len(signoffs) /\ DOMAIN signoffs' = 1..n /\ Len(signoffs) \in Nat
        /\ \A i \in DOMAIN signoffs : signoffs'[i] = signoffs[i]
        /\ signoffs'[n] = call[w].event
    BY <1>0, <1>5, <2>1 DEF Record
  <2>3. \A v \in Workers : call'[v] = IF v = w THEN Idle ELSE call[v]
    BY <1>0, <1>5 DEF Record
  <2>4. \A i \in DOMAIN signoffs' : i \in DOMAIN signoffs \/ i = n
    BY <2>2
  <2> HIDE DEF n
  <2>5. ASSUME NEW i \in DOMAIN signoffs', NEW j \in DOMAIN signoffs',
               SameEntry(signoffs'[i], signoffs'[j])
        PROVE  i = j
    BY <2>1, <2>2, <2>4, <2>5 DEF EnteredOnce, SameEntry
  <2>6. ASSUME NEW v \in Workers, call'[v] # Idle, NEW i \in DOMAIN signoffs'
        PROVE  ~SameEntry(signoffs'[i], call'[v].event)
    BY <2>1, <2>2, <2>3, <2>4, <2>6 DEF EnteredOnce
  <2>7. ASSUME NEW v \in Workers, call'[v] # Idle, NEW u \in Workers \ {v}, call'[u] # Idle
        PROVE  ~SameEntry(call'[u].event, call'[v].event)
    BY <2>3, <2>7 DEF EnteredOnce
  <2> QED
    BY <2>5, <2>6, <2>7 DEF EnteredOnce
<1>6. CASE UNCHANGED <<signoffs, call>>
  BY <1>6 DEF EnteredOnce
<1> QED
  BY <1>2, <1>3, <1>4, <1>5, <1>6, StepsOnRecords DEF vars

LEMMA AtMostOne ==
    ASSUME NEW S, \A x, y \in S : x = y
    PROVE  Cardinality(S) <= 1
<1>1. CASE S = {}
  BY <1>1, FS_EmptySet
<1>2. CASE S # {}
  <2>1. PICK x \in S : S = {x}
    BY <1>2
  <2>2. Cardinality(S) = 1
    BY <2>1, FS_Singleton
  <2> QED
    BY <2>2
<1> QED
  BY <1>1, <1>2

(* No review is recorded as submitted twice, however often it is delivered *)
(* and whatever threads do, and no more submissions are missing in the     *)
(* trail than handlers died (submit, submit_idempotent).                   *)
THEOREM SubmissionsAreTold == Spec => []SubmissionsAreSignedOff
<1>1. Init => RecordsNameRows /\ EnteredOnce /\ AtMostLost(Unentered)
  <2>1. Init => Unentered = {} /\ failures = 0
    BY DEF Init, Unentered
  <2>2. Init => RecordsNameRows /\ EnteredOnce
    BY DEF Init, RecordsNameRows, EnteredOnce, SignedOff, Unrecorded, Range
  <2> QED
    BY <2>1, <2>2, FS_EmptySet DEF AtMostLost
<1>2. IInv /\ AtMostLost(Unentered) /\ [Next]_vars => AtMostLost(Unentered)'
  BY UnenteredStaysLost
<1>3. EnteredOnce /\ AtMostLost(Unentered) => SubmissionsAreSignedOff
  <2>1. EnteredOnce => \A item \in store : Cardinality(SubmissionsOf(item)) <= 1
    <3> SUFFICES ASSUME EnteredOnce, NEW item \in store
                 PROVE  \A i, j \in SubmissionsOf(item) : i = j
      BY AtMostOne
    <3> QED
      BY DEF EnteredOnce, SubmissionsOf, Submits, SameEntry
  <2>2. AtMostLost(Unentered) =>
          Cardinality({r \in store : ~ \E e \in SignedOff \cup Unrecorded : Submits(e, r)}) <= failures
    BY DEF AtMostLost, Unentered, Records
  <2> QED
    BY <2>1, <2>2 DEF SubmissionsAreSignedOff
<1> QED
  BY <1>1, <1>2, <1>3, RecordsKeepNaming, EnteredStaysOnce, Invariance, PTL DEF Spec

-----------------------------------------------------------------------------
(* The ledger: with one handler, whatever the people, reviews, policies,   *)
(* failures and redeployments, every step that is not a death enters,      *)
(* signs or refuses one review together with the one record that tells it, *)
(* or is none of the auditors' business.                                   *)

(* What a handler is about to put and to write is one verdict of a checker *)
(* on a review that is still open.                                         *)
IsVerdictOn(r, item, event) ==
    \E checker \in Actors, d \in Dispositions :
      /\ r.state = "pending"
      /\ Ledger!Kept(item) = Ledger!Kept(r) /\ item.required >= r.required
      /\ Ledger!Verdict(r, item, checker, d)
      /\ event = SignOff(item, "dispose", checker, d, {})

DraftsAreVerdicts ==
    \A w \in Workers : call[w].step = "put" =>
      \E r \in store : IsVerdictOn(r, call[w].item, call[w].event)

(* The code's disposition is the ledger's verdict: the quorum that it      *)
(* compares with >= is met exactly when it is reached.                     *)
LEMMA LoadedOutcomeIsVerdict ==
    ASSUME NEW pol \in Policies, NEW r \in ReviewItem, SoundItem(r), ~IsTerminal(r),
           NEW checker \in Principals, NEW d \in Dispositions,
           CheckEligibility(pol, WithEffectiveRouting(pol, r), checker) = {}
    PROVE  LET out == Dispose(pol, WithEffectiveRouting(pol, r), checker, d)
           IN  IsVerdictOn(r, out, SignOff(out, "dispose", checker.actor, d, {}))
<1> DEFINE item == WithEffectiveRouting(pol, r)
           out  == Dispose(pol, item, checker, d)
<1>1. /\ item \in ReviewItem
      /\ item.required >= r.required
      /\ RequiredApprovals(pol, item.severity, item.required) = item.required
      /\ item.approvals = r.approvals
      /\ item.state = r.state
      /\ Submitted(item) = Submitted(r)
  BY EffectiveRoutingSound, ConsoleAssumption
<1>2. CheckEligibility(pol, item, checker) = {} /\ checker.actor \in Actors
  BY ConsoleAssumption DEF Principal
<1> HIDE DEF item
<1>3. /\ r.state = "pending" /\ r.approvals \in Seq(Actors)
      /\ item.required \in Nat /\ r.required \in Nat
  BY <1>1 DEF ReviewItem, IsTerminal
<1>4. checker.actor # r.maker /\ checker.actor \notin Approvers(r)
  BY <1>1, <1>2 DEF CheckEligibility, Findings, Approvers, Submitted
<1>5. Len(item.approvals) < item.required
  BY <1>1, <1>3 DEF SoundItem, QuorumReached
<1>6. /\ out.required = item.required
      /\ Submitted(out) = Submitted(item)
  BY <1>1 DEF Dispose, Dispositions, Approved, WithApproval, Resolved, ReviewItem, Submitted
<1>7. Ledger!Verdict(r, out, checker.actor, d)
  <2>0. Ledger!Approvers(r) = Approvers(r)
    BY DEF Ledger!Approvers, Approvers, Ledger!Range, Range
  <2>1. CASE d = "approve"
    <3>1. /\ out.approvals = Append(item.approvals, checker.actor)
          /\ out.state = IF Len(item.approvals) + 1 >= item.required THEN "approved" ELSE "pending"
      BY <1>1, <2>1 DEF Dispose, Approved, WithApproval, ReviewItem
    <3>2. Len(Append(item.approvals, checker.actor)) = Len(item.approvals) + 1
      BY <1>1, <1>3
    <3> HIDE DEF out
    <3>3. out.state = IF Len(out.approvals) = out.required THEN "approved" ELSE "pending"
      BY <1>1, <1>3, <1>5, <1>6, <3>1, <3>2
    <3> QED
      BY <1>1, <1>4, <2>0, <2>1, <3>1, <3>3 DEF Ledger!Verdict, Ledger!Approves
  <2>2. CASE d = "reject"
    BY <1>1, <1>4, <2>0, <2>2 DEF Dispose, Resolved, ReviewItem, Ledger!Verdict, Ledger!Closes
  <2>3. CASE d = "amend"
    BY <1>1, <1>4, <2>0, <2>3 DEF Dispose, Resolved, ReviewItem, Ledger!Verdict, Ledger!Closes
  <2> QED
    BY <2>1, <2>2, <2>3 DEF Dispositions
<1>8. Ledger!Kept(out) = Ledger!Kept(r)
  BY <1>1, <1>6 DEF Ledger!Kept, Submitted
<1> HIDE DEF out
<1> QED
  BY <1>1, <1>2, <1>3, <1>6, <1>7, <1>8 DEF IsVerdictOn, out, item

LEMMA DraftsStayVerdicts ==
    ASSUME OneAtATime, IInv, DraftsAreVerdicts, [Next]_vars
    PROVE  DraftsAreVerdicts'
<1>0. call \in [Workers -> Call] /\ policy \in [Workers -> Policies] /\ store \subseteq ReviewItem
  BY DEF IInv, TypeOK
<1>1. ASSUME NEW w \in Workers, call'[w].step # "put"
      PROVE  DraftsAreVerdicts'
  BY <1>1 DEF OneAtATime, DraftsAreVerdicts
<1>2. ASSUME NEW w \in Workers, Submit(w) \/ DisposeDenied(w) \/ PutOutcome(w) \/ Record(w) \/ Fail(w)
      PROVE  call'[w].step # "put"
  BY <1>0, <1>2 DEF Submit, DisposeDenied, PutOutcome, Record, Fail, Recording, Idle
<1>3. ASSUME NEW w \in Workers, SubmitIdempotent(w)
      PROVE  call'[w].step # "put"
  BY <1>0, <1>3 DEF SubmitIdempotent, Recording, Idle
<1>4. ASSUME NEW w \in Workers, Redeploy(w)
      PROVE  DraftsAreVerdicts'
  BY <1>4 DEF Redeploy, DraftsAreVerdicts
<1>5. ASSUME NEW w \in Workers, DisposeAllowed(w)
      PROVE  DraftsAreVerdicts'
  <2>1. PICK checker \in Principals, d \in Dispositions, r \in store :
          LET item    == WithEffectiveRouting(policy[w], r)
              outcome == Dispose(policy[w], item, checker, d)
          IN  /\ ~IsTerminal(r)
              /\ CheckEligibility(policy[w], item, checker) = {}
              /\ call' = [call EXCEPT ![w] =
                   Putting(outcome, SignOff(outcome, "dispose", checker.actor, d, {}))]
    BY <1>5 DEF DisposeAllowed, Loaded, Get
  <2> DEFINE item == WithEffectiveRouting(policy[w], r)
             out  == Dispose(policy[w], item, checker, d)
             e    == SignOff(out, "dispose", checker.actor, d, {})
  <2>2. IsVerdictOn(r, out, e)
    BY <1>0, <2>1, LoadedOutcomeIsVerdict DEF IInv, ItemsSound
  <2>3. call' = [call EXCEPT ![w] = Putting(out, e)] /\ store' = store
    BY <1>5, <2>1 DEF DisposeAllowed
  <2> HIDE DEF item, out, e
  <2>4. call'[w].item = out /\ call'[w].event = e
    BY <1>0, <2>3 DEF Putting
  <2> QED
    BY <2>2, <2>3, <2>4 DEF OneAtATime, DraftsAreVerdicts
<1>6. CASE UNCHANGED vars
  BY <1>6 DEF vars, DraftsAreVerdicts
<1> QED
  BY <1>1, <1>2, <1>3, <1>4, <1>5, <1>6 DEF Next, Accept, Serve

(* A new review and the record of its submission are one entry.            *)
LEMMA EntryIsEntered ==
    ASSUME IInv, Workers = {Worker}, call[Worker] = Idle, signoffs' = signoffs,
           NEW id \in FreshIds, NEW tenant \in Tenants, NEW maker \in Actors,
           NEW request \in Requests, NEW key \in SourceKeys \cup {NoKey},
           LET item == NewItem(policy[Worker], id, tenant, maker, request, key)
           IN  /\ store' = Put(store, item)
               /\ call' = [call EXCEPT ![Worker] = Recording(SubmissionSignOff(item))]
    PROVE  Ledger!Enter
<1> DEFINE pol  == policy[Worker]
           item == NewItem(pol, id, tenant, maker, request, key)
<1>1. /\ item.review_id = id
      /\ item.state = "pending" /\ item.approvals = << >>
  <2> DEFINE plain == [ review_id |-> id, tenant |-> tenant, maker |-> maker,
                        severity |-> request.severity, required |-> request.required,
                        sod_group |-> request.sod_group, source_key |-> key,
                        state |-> "pending", approvals |-> << >> ]
  <2>1. item = [plain EXCEPT !.required = RequiredApprovals(pol, plain.severity, plain.required)]
    BY DEF NewItem, WithEffectiveRouting
  <2> QED
    BY <2>1
<1>2. /\ store' = Put(store, item)
      /\ call' = [call EXCEPT ![Worker] = Recording(SubmissionSignOff(item))]
  OBVIOUS
<1>3. call \in [Workers -> Call] /\ Worker \in Workers
  BY DEF IInv, TypeOK
<1> HIDE DEF item
<1>4. \A s \in store : s.review_id # item.review_id
  BY <1>1 DEF FreshIds
<1>5. store' = store \cup {item} /\ item \in store' \ store
  BY <1>2, <1>4 DEF Put, SameRow
<1>6. call'[Worker] = Recording(SubmissionSignOff(item))
  BY <1>2, <1>3
<1>7. Entered = signoffs /\ Entered' = Append(signoffs, SubmissionSignOff(item))
  BY <1>6 DEF Entered, Idle, Recording
<1> QED
  BY <1>1, <1>4, <1>5, <1>7
   DEF Ledger!Enter, Ledger!SubmissionSignOff, SubmissionSignOff, Ledger!SignOff, SignOff

(* Every step but a death is one of the ledger's, or none.                 *)
LEMMA StepIsLedgers ==
    ASSUME IInv, DraftsAreVerdicts, Workers = {Worker}, Next, failures' = failures
    PROVE  Ledger!Next \/ UNCHANGED <<store, Entered>>
<1>0. /\ call \in [Workers -> Call] /\ policy \in [Workers -> Policies] /\ store \subseteq ReviewItem
      /\ Worker \in Workers
  BY DEF IInv, TypeOK
<1>1. CASE Submit(Worker)
  <2>1. Ledger!Enter
    BY <1>1, EntryIsEntered, ConsoleAssumption DEF Submit, Principal
  <2> QED
    BY <2>1 DEF Ledger!Next
<1>2. CASE SubmitIdempotent(Worker)
  <2>1. CASE UNCHANGED <<store, call>>
    BY <1>2, <2>1 DEF SubmitIdempotent, Entered
  <2>2. CASE ~UNCHANGED <<store, call>>
    <3>1. Ledger!Enter
      BY <1>2, <2>2, EntryIsEntered DEF SubmitIdempotent
    <3> QED
      BY <3>1 DEF Ledger!Next
  <2> QED
    BY <2>1, <2>2
<1>3. CASE DisposeAllowed(Worker)
  <2>1. call'[Worker].step = "put" /\ UNCHANGED <<store, signoffs>> /\ call[Worker] = Idle
    BY <1>0, <1>3 DEF DisposeAllowed, Putting
  <2> QED
    BY <2>1 DEF Entered, Idle
<1>4. CASE DisposeDenied(Worker)
  <2>1. PICK checker \in Principals, d \in Dispositions, r \in store :
          LET item     == WithEffectiveRouting(policy[Worker], r)
              findings == CheckEligibility(policy[Worker], item, checker)
          IN  /\ ~IsTerminal(r) /\ findings # {}
              /\ call' = [call EXCEPT ![Worker] =
                   Recording(SignOff(item, "dispose", checker.actor, d, findings))]
    BY <1>4 DEF DisposeDenied, Loaded, Get
  <2> DEFINE item     == WithEffectiveRouting(policy[Worker], r)
             findings == CheckEligibility(policy[Worker], item, checker)
             e        == SignOff(item, "dispose", checker.actor, d, findings)
  <2>2. item.state = r.state /\ Submitted(item) = Submitted(r)
    BY <1>0, EffectiveRoutingSound, ConsoleAssumption
  <2>3. call'[Worker] = Recording(e) /\ findings # {}
    BY <1>0, <2>1
  <2> HIDE DEF item
  <2>4. findings \in (SUBSET Findings) \ {{}}
    BY <2>3 DEF CheckEligibility
  <2> HIDE DEF findings
  <2>5. e = SignOff(r, "dispose", checker.actor, d, findings)
    BY <2>2 DEF SignOff, Submitted
  <2> HIDE DEF e
  <2>6. Entered = signoffs /\ Entered' = Append(signoffs, e) /\ store' = store
    BY <1>4, <2>3 DEF DisposeDenied, Entered, Idle, Recording
  <2>7. checker.actor \in Actors /\ r.state = "pending"
    BY <2>1, ConsoleAssumption DEF Principal, IsTerminal
  <2>8. Ledger!Refuse
    BY <2>4, <2>5, <2>6, <2>7
       DEF Ledger!Refuse, Ledger!SignOff, SignOff, Ledger!Dispositions, Dispositions, Ledger!Findings, Findings
  <2> QED
    BY <2>8 DEF Ledger!Next
<1>5. CASE PutOutcome(Worker)
  <2> DEFINE item == call[Worker].item
             e    == call[Worker].event
  <2>1. PICK r \in store : IsVerdictOn(r, item, e)
    BY <1>0, <1>5 DEF DraftsAreVerdicts, PutOutcome
  <2>2. PICK s \in store : Put(store, item) = (store \ {s}) \cup {item} /\ Submitted(item) = Submitted(s)
    BY <1>0, <1>5, PutReplacesItsRow DEF PutOutcome, Drafts
  <2>3. s = r
    BY <2>1, <2>2 DEF IsVerdictOn, Ledger!Kept, Submitted, IInv, IdsUnique
  <2>4. store' = (store \ {r}) \cup {item} /\ item \in store'
    BY <1>5, <2>2, <2>3 DEF PutOutcome
  <2>5. call'[Worker] = Recording(e) /\ signoffs' = signoffs /\ call[Worker].step = "put"
    BY <1>0, <1>5 DEF PutOutcome
  <2>6. Entered = signoffs /\ Entered' = Append(signoffs, e)
    BY <2>5 DEF Entered, Recording
  <2> HIDE DEF item, e
  <2>7. Ledger!SignOne
    BY <2>1, <2>4, <2>6
       DEF IsVerdictOn, Ledger!SignOne, Ledger!SignOff, SignOff, Ledger!Dispositions, Dispositions
  <2> QED
    BY <2>7 DEF Ledger!Next
<1>6. CASE Record(Worker)
  <2>1. call[Worker].step = "record" /\ call'[Worker] = Idle
    BY <1>0, <1>6 DEF Record
  <2> QED
    BY <1>6, <2>1 DEF Record, Entered, Idle
<1>7. CASE Fail(Worker)
  BY <1>7 DEF Fail, IInv, TypeOK
<1>8. CASE Redeploy(Worker)
  BY <1>8 DEF Redeploy, Entered
<1> QED
  BY <1>1, <1>2, <1>3, <1>4, <1>5, <1>6, <1>7, <1>8 DEF Next, Accept, Serve

(* The console with one handler implements what auditors are promised: the *)
(* submissions, dispositions and refusals of SignOffLedger, each with its  *)
(* record, between the deaths of handlers (submit, submit_idempotent,      *)
(* dispose and _record together).                                          *)
THEOREM LedgerKept ==
    ASSUME Workers = {Worker}
    PROVE  Spec => KeepsLedger
<1> DEFINE Step == failures' = failures => Ledger!Next \/ UNCHANGED <<store, Entered>>
<1>0. OneAtATime
  BY DEF OneAtATime
<1>1. Init => DraftsAreVerdicts
  BY CallTypes DEF Init, DraftsAreVerdicts
<1>2. IInv /\ DraftsAreVerdicts /\ [Next]_vars => DraftsAreVerdicts'
  BY <1>0, DraftsStayVerdicts
<1>3. IInv /\ DraftsAreVerdicts /\ [Next]_vars => [Step]_vars
  BY StepIsLedgers
<1>4. Init => Ledger!Init
  BY DEF Init, Ledger!Init, Entered, Idle
<1> QED
  BY <1>1, <1>2, <1>3, <1>4, Invariance, PTL DEF Spec, KeepsLedger
=============================================================================
