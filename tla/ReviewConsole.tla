---------------------------- MODULE ReviewConsole ----------------------------
(***************************************************************************)
(* The review console: ConsoleService over the review store and the        *)
(* write-once sign-off trail, served by several request threads at a time. *)
(*                                                                         *)
(* FastAPI runs the handlers on a thread pool and Cloud Run runs several   *)
(* instances, so a handler is not atomic: each access to the store or to   *)
(* the audit sink is one step, and other handlers run in between.  What a  *)
(* handler computes from its own locals belongs to the step before it.     *)
(*                                                                         *)
(*      idle --Submit----------------> record --Record--> idle             *)
(*      idle --DisposeAllowed--> put --PutOutcome--> record                *)
(*      idle --DisposeDenied---------> record                              *)
(*                                                                         *)
(* A handler dies between two steps when the store or the sink raises, or  *)
(* when its instance is killed (Fail).  A disposition of an unknown id     *)
(* (404) and of a terminal item (409) changes nothing and is no step here; *)
(* nor are the reads (get, list_queue, list_all, get_by_source_key).       *)
(***************************************************************************)
EXTENDS MakerChecker

CONSTANTS
    Workers,        \* request threads, of one or of several instances
    Principals,     \* the verified principals that call the console
    Policies,       \* routing policies that running revisions may have loaded
    Requests,       \* what a submitter asks for: severity, required, sod_group
    MaxSignOffs,    \* bound: dispositions stop when the trail is this long
    MaxFailures     \* bound: handlers that die half-way

ASSUME ConsoleAssumption ==
    /\ Principals \subseteq Principal
    /\ Policies \subseteq RoutingPolicy
    /\ Requests \subseteq [ severity  : Severities, required : Nat \ {0},
                            sod_group : Groups \cup {NoGroup} ]
    /\ MaxSignOffs \in Nat
    /\ MaxFailures \in Nat

VARIABLES
    store,      \* the rows of the review store
    signoffs,   \* the write-once trail, in the order of the writes
    call,       \* the locals of each worker between two accesses
    policy,     \* the routing policy each worker's process loaded at boot
    failures    \* handlers that died so far

vars == <<store, signoffs, call, policy, failures>>

-----------------------------------------------------------------------------
(* The store.  A row is addressed by (tenant, review_id). *)

SameRow(r, s) == r.tenant = s.tenant /\ r.review_id = s.review_id

(* Mutant: an upsert that replaces on any unique index, the empty key included. *)
Put_ReplaceByKey(rows, item) ==
    { r \in rows : r.tenant # item.tenant \/ r.source_key # item.source_key } \cup {item}

Put(rows, item) == {r \in rows : ~SameRow(r, item)} \cup {item}

Get(rows, tenant, id) == {r \in rows : r.tenant = tenant /\ r.review_id = id}

(* Mutant: the uniqueness is looked up per maker. *)
Conflicting_PerMaker(rows, item) ==
    { r \in rows : /\ item.source_key # NoKey
                   /\ r.tenant = item.tenant
                   /\ r.maker = item.maker
                   /\ r.source_key = item.source_key }

(* The rows that the unique index on (tenant, source_key) makes conflict. *)
Conflicting(rows, item) ==
    { r \in rows : /\ item.source_key # NoKey
                   /\ r.tenant = item.tenant
                   /\ r.source_key = item.source_key }

FreshIds == {id \in ReviewIds : \A r \in store : r.review_id # id}

-----------------------------------------------------------------------------
(* What a worker holds between two accesses. *)

Idle == [step |-> "idle"]
Putting(item, event) == [step |-> "put", item |-> item, event |-> event]
Recording(event)     == [step |-> "record", event |-> event]

Call == {Idle}
          \cup [step : {"put"}, item : ReviewItem, event : SignOffEvent]
          \cup [step : {"record"}, event : SignOffEvent]

Init ==
    /\ store = {}
    /\ signoffs = << >>
    /\ call = [w \in Workers |-> Idle]
    /\ policy \in [Workers -> Policies]
    /\ failures = 0

(* A pending item with no approvals, the active floor projected onto it. *)
NewItem(pol, id, tenant, maker, request, key) ==
    WithEffectiveRouting(pol,
        [ review_id |-> id, tenant |-> tenant, maker |-> maker,
          severity |-> request.severity, required |-> request.required,
          sod_group |-> request.sod_group, source_key |-> key,
          state |-> "pending", approvals |-> << >> ])

(* POST /v1/reviews: maker and tenant are the verified principal's. *)
Submit(w) ==
    /\ call[w] = Idle
    /\ \E id \in FreshIds, p \in Principals, request \in Requests :
         LET item == NewItem(policy[w], id, p.tenant, p.actor, request, NoKey)
         IN  /\ store' = Put(store, item)
             /\ call' = [call EXCEPT ![w] = Recording(SubmissionSignOff(item))]
    /\ UNCHANGED <<signoffs, policy, failures>>

(* Mutant: a repeated delivery is recorded as a submission once more. *)
SubmitIdempotent_RecordAgain(w) ==
    /\ call[w] = Idle
    /\ \E id \in FreshIds, tenant \in Tenants, maker \in Actors,
          request \in Requests, key \in SourceKeys \cup {NoKey} :
         LET item == NewItem(policy[w], id, tenant, maker, request, key)
             twins == Conflicting(store, item)
         IN  /\ store' = IF twins = {} THEN Put(store, item) ELSE store
             /\ \E r \in twins \cup {item} :
                  /\ twins # {} => r \in twins
                  /\ call' = [call EXCEPT ![w] = Recording(SubmissionSignOff(r))]
    /\ UNCHANGED <<signoffs, policy, failures>>

(* POST /v1/service/reviews: a trusted producer names maker, tenant and    *)
(* key.  The insert and the look-up of the row it conflicts with are one   *)
(* transaction; a conflict returns the first row and records nothing.      *)
SubmitIdempotent(w) ==
    /\ call[w] = Idle
    /\ \E id \in FreshIds, tenant \in Tenants, maker \in Actors,
          request \in Requests, key \in SourceKeys \cup {NoKey} :
         LET item == NewItem(policy[w], id, tenant, maker, request, key)
         IN  \/ /\ Conflicting(store, item) = {}
                /\ store' = Put(store, item)
                /\ call' = [call EXCEPT ![w] = Recording(SubmissionSignOff(item))]
             \/ /\ Conflicting(store, item) # {}
                /\ UNCHANGED <<store, call>>
    /\ UNCHANGED <<signoffs, policy, failures>>

(* Mutant: the load is not scoped to the checker's tenant. *)
Loaded_AnyTenant(w, id, checker) ==
    { WithEffectiveRouting(policy[w], r) :
        r \in {s \in store : s.review_id = id /\ ~IsTerminal(s)} }

(* Mutant: a terminal item is disposed of again. *)
Loaded_Terminal(w, id, checker) ==
    {WithEffectiveRouting(policy[w], r) : r \in Get(store, checker.tenant, id)}

(* The item that a disposition by `checker' works on: loaded within the    *)
(* checker's own tenant, not terminal, under the worker's active floor.    *)
Loaded(w, id, checker) ==
    { WithEffectiveRouting(policy[w], r) :
        r \in {s \in Get(store, checker.tenant, id) : ~IsTerminal(s)} }

(* Mutant: the outcome is recorded and never put. *)
DisposeAllowed_NotPut(w) ==
    /\ call[w] = Idle
    /\ Len(signoffs) < MaxSignOffs
    /\ \E checker \in Principals, disposition \in Dispositions, id \in ReviewIds :
         \E item \in Loaded(w, id, checker) :
           /\ CheckEligibility(policy[w], item, checker) = {}
           /\ LET outcome == Dispose(policy[w], item, checker, disposition)
              IN  call' = [call EXCEPT ![w] =
                    Recording(SignOff(outcome, "dispose", checker.actor,
                                      disposition, {}))]
    /\ UNCHANGED <<store, signoffs, policy, failures>>

(* Mutant: the sign-off is built from the item as it was loaded. *)
DisposeAllowed_OldState(w) ==
    /\ call[w] = Idle
    /\ Len(signoffs) < MaxSignOffs
    /\ \E checker \in Principals, disposition \in Dispositions, id \in ReviewIds :
         \E item \in Loaded(w, id, checker) :
           /\ CheckEligibility(policy[w], item, checker) = {}
           /\ call' = [call EXCEPT ![w] =
                Putting(Dispose(policy[w], item, checker, disposition),
                        SignOff(item, "dispose", checker.actor, disposition, {}))]
    /\ UNCHANGED <<store, signoffs, policy, failures>>

(* POST /v1/reviews/{id}/decision by an eligible checker, up to the put. *)
DisposeAllowed(w) ==
    /\ call[w] = Idle
    /\ Len(signoffs) < MaxSignOffs
    /\ \E checker \in Principals, disposition \in Dispositions, id \in ReviewIds :
         \E item \in Loaded(w, id, checker) :
           /\ CheckEligibility(policy[w], item, checker) = {}
           /\ LET outcome == Dispose(policy[w], item, checker, disposition)
              IN  call' = [call EXCEPT ![w] =
                    Putting(outcome, SignOff(outcome, "dispose", checker.actor,
                                             disposition, {}))]
    /\ UNCHANGED <<store, signoffs, policy, failures>>

(* The same by an ineligible checker: the item stays, the denial is recorded. *)
DisposeDenied(w) ==
    /\ call[w] = Idle
    /\ Len(signoffs) < MaxSignOffs
    /\ \E checker \in Principals, disposition \in Dispositions, id \in ReviewIds :
         \E item \in Loaded(w, id, checker) :
           LET findings == CheckEligibility(policy[w], item, checker)
           IN  /\ findings # {}
               /\ call' = [call EXCEPT ![w] =
                    Recording(SignOff(item, "dispose", checker.actor,
                                      disposition, findings))]
    /\ UNCHANGED <<store, signoffs, policy, failures>>

(* Mutant: the handler returns after the put, without a sign-off. *)
PutOutcome_Unrecorded(w) ==
    /\ call[w].step = "put"
    /\ store' = Put(store, call[w].item)
    /\ call' = [call EXCEPT ![w] = Idle]
    /\ UNCHANGED <<signoffs, policy, failures>>

(* The blind upsert of the outcome: whatever happened since the load. *)
PutOutcome(w) ==
    /\ call[w].step = "put"
    /\ store' = Put(store, call[w].item)
    /\ call' = [call EXCEPT ![w] = Recording(call[w].event)]
    /\ UNCHANGED <<signoffs, policy, failures>>

(* One already-redacted event is appended to the trail; the handler returns. *)
Record(w) ==
    /\ call[w].step = "record"
    /\ signoffs' = Append(signoffs, call[w].event)
    /\ call' = [call EXCEPT ![w] = Idle]
    /\ UNCHANGED <<store, policy, failures>>

(* The put or the record raises, or the instance is killed: nothing undoes *)
(* the steps already taken.                                                *)
Fail(w) ==
    /\ call[w] # Idle
    /\ failures < MaxFailures
    /\ failures' = failures + 1
    /\ call' = [call EXCEPT ![w] = Idle]
    /\ UNCHANGED <<store, signoffs, policy>>

(* A new revision, or a rollback, serves: the policy is read at boot only. *)
Redeploy(w) ==
    /\ call[w] = Idle
    /\ \E p \in Policies \ {policy[w]} : policy' = [policy EXCEPT ![w] = p]
    /\ UNCHANGED <<store, signoffs, call, failures>>

Serve(w)  == PutOutcome(w) \/ Record(w)
Accept(w) == Submit(w) \/ SubmitIdempotent(w) \/ DisposeAllowed(w) \/ DisposeDenied(w)

Next == \E w \in Workers : Accept(w) \/ Serve(w) \/ Fail(w) \/ Redeploy(w)

Spec == Init /\ [][Next]_vars

(* A handler that has started runs to its end; nobody has to call it. *)
FairSpec == Spec /\ \A w \in Workers : WF_vars(Serve(w))

-----------------------------------------------------------------------------
(* Invariants that hold whatever the interleaving, the failures and the    *)
(* mix of revisions in service.                                            *)

Drafts == {call[w].item : w \in {v \in Workers : call[v].step = "put"}}
Unrecorded == {call[w].event : w \in {v \in Workers : call[v] # Idle}}
SignedOff == Range(signoffs)

TypeOK ==
    /\ store \subseteq ReviewItem
    /\ signoffs \in Seq(SignOffEvent)
    /\ call \in [Workers -> Call]
    /\ policy \in [Workers -> Policies]
    /\ failures \in 0..MaxFailures

(* Four-eyes and N-eyes distinctness, per item: nobody has approved his    *)
(* own work and nobody counts twice.                                       *)
DistinctEyes(item) ==
    /\ item.maker \notin Approvers(item)
    /\ IsInjective(item.approvals)

(* An item is approved exactly when it has collected the approvals it says *)
(* it requires, and it stops collecting there.                             *)
QuorumReached(item) ==
    /\ Len(item.approvals) <= item.required
    /\ item.state = "approved" <=> Len(item.approvals) = item.required

(* Four-eyes: no stored item carries an approval by its maker or two by    *)
(* the same checker, although each eligibility check reads a row that may  *)
(* be stale when its outcome is put (check_eligibility, dispose).          *)
FourEyes == \A item \in store : DistinctEyes(item)

(* An item is approved if and only if as many approvals as it requires are *)
(* stored on it, although the floor that sets `required' may differ from   *)
(* one worker, and one disposition of the item, to the next (dispose,      *)
(* _with_effective_routing).                                               *)
Quorum == \A item \in store : QuorumReached(item)

(* Every stored approval is by a principal of the item's own tenant who    *)
(* held the approver entitlement of a policy in service and, unless some   *)
(* policy waives segregation of duties, was outside the maker's group.     *)
CouldApprove(item, p) ==
    /\ p.tenant = item.tenant
    /\ \E pol \in Policies : /\ pol.approver_group \in p.groups
                             /\ pol.enforce_sod => item.sod_group \notin p.groups

EntitledEyes(item) ==
    \A a \in Approvers(item) :
        \E p \in Principals : p.actor = a /\ CouldApprove(item, p)

ApproversEntitled == \A item \in store : EntitledEyes(item)

(* A retried or concurrent delivery by a producer does not open a second   *)
(* review: a (tenant, source_key) has at most one row, whatever is put     *)
(* over the rows afterwards (put_if_absent_by_source_key, put).            *)
OneReviewPerSourceKey ==
    \A r, s \in store : r.source_key = s.source_key /\ r.tenant = s.tenant
                          /\ r.source_key # NoKey => r = s

Submits(e, item) ==
    e.action = "submit" /\ e.review_id = item.review_id /\ e.tenant = item.tenant
SubmissionsOf(item) == {i \in DOMAIN signoffs : Submits(signoffs[i], item)}

(* The trail is evidence by itself: a sign-off is about a stored review of *)
(* its own tenant and maker; the checker it names, of an attempt that was  *)
(* refused too, is a principal of that tenant; and a disposition that it   *)
(* says was allowed was by somebody who is not the maker and could approve *)
(* the review, although by the time it is written the row may be another   *)
(* handler's (dispose: the load within the checker's tenant, the check,    *)
(* then put and _record).  An attempt from another tenant is a 404 here    *)
(* and leaves no sign-off, where dispose and decide_review announce a      *)
(* DENIED one with a 403.                                                  *)
CheckedBy(e, r, p) ==
    /\ p.actor = e.checker /\ p.tenant = r.tenant
    /\ e.decision = "allowed" => e.checker # r.maker /\ CouldApprove(r, p)

TrailIsEvidence ==
    \A e \in SignedOff : \E r \in store :
        /\ r.review_id = e.review_id /\ r.tenant = e.tenant /\ r.maker = e.maker
        /\ e.action = "dispose" => \E p \in Principals : CheckedBy(e, r, p)

(* Whatever is put over a row keeps what was submitted: its maker, tenant, *)
(* severity, group and key.  Only routing, state and approvals change      *)
(* (ReviewRequest is frozen; with_approval and resolved replace the rest). *)
Submitted(r) == <<r.review_id, r.tenant, r.maker, r.severity, r.sod_group, r.source_key>>
RequestsAreKept ==
    [][\A r \in store : \E s \in store' : Submitted(s) = Submitted(r)]_vars

(* Why these are inductive: a draft, however stale, is a sound item too,   *)
(* and it is a draft of a stored row.                                      *)
SoundItem(item) == DistinctEyes(item) /\ QuorumReached(item) /\ EntitledEyes(item)
ItemsSound   == \A item \in store \cup Drafts : SoundItem(item)
IdsUnique    == \A r, s \in store : r.review_id = s.review_id => r = s
DraftsOfRows == \A d \in Drafts : \E r \in store : Submitted(r) = Submitted(d)
IInv == TypeOK /\ ItemsSound /\ IdsUnique /\ DraftsOfRows /\ OneReviewPerSourceKey

-----------------------------------------------------------------------------
(* What one handler at a time guarantees besides, and several do not: the  *)
(* load and the put of a disposition are two accesses with no version      *)
(* check between them.                                                     *)

(* A terminal item is never touched again (AlreadyResolved, HTTP 409).     *)
TerminalIsFinal ==
    [][\A r \in store : IsTerminal(r) => r \in store']_vars

(* Routing only gets stricter and approvals only accumulate, in order,     *)
(* over the life of an item, across redeployments that lower the floor.    *)
RoutingRatchets ==
    [][\A r \in store : \E s \in store' :
         /\ SameRow(r, s)
         /\ r.required <= s.required
         /\ IsPrefix(r.approvals, s.approvals)]_vars

(* An ALLOWED sign-off of an approval is evidence: the approval is stored. *)
(* `the checker was eligible and the disposition was recorded'.            *)
AllowedApprovalsAreStored ==
    \A e \in SignedOff :
        e.action = "dispose" /\ e.decision = "allowed" /\ e.disposition = "approve"
          => \E r \in store : /\ r.review_id = e.review_id
                              /\ r.tenant = e.tenant
                              /\ e.checker \in Approvers(r)

(* Every state that a disposition has left an item in has its ALLOWED      *)
(* sign-off in the trail, or a handler is about to write it; a handler     *)
(* that dies between the two writes leaves at most one item without one,   *)
(* however many threads overwrite each other (dispose: put, then _record). *)
IsTold(r) ==
    \E e \in SignedOff \cup Unrecorded :
        /\ e.action = "dispose" /\ e.decision = "allowed"
        /\ e.review_id = r.review_id /\ e.tenant = r.tenant
        /\ e.state = r.state

DispositionsAreSignedOff ==
    Cardinality({r \in store : IsTerminal(r) /\ ~IsTold(r)}) <= failures

(* A review is recorded as submitted exactly once, or about to be, however *)
(* often it is delivered, but for one review per handler that died (submit,*)
(* submit_idempotent: put, then _record).                                  *)
SubmissionsAreSignedOff ==
    /\ Cardinality({ r \in store :
           ~ \E e \in SignedOff \cup Unrecorded : Submits(e, r) }) <= failures
    /\ \A item \in store : Cardinality(SubmissionsOf(item)) <= 1

-----------------------------------------------------------------------------
(* Liveness, under FairSpec. *)

(* Whenever an item has reached a terminal state, the sign-off that says   *)
(* so eventually stands in the trail, also when other handlers overwrite   *)
(* the row meanwhile; only a handler's death may lose it (dispose: put,    *)
(* then _record).                                                          *)
EventuallySignedOff ==
    \A id \in ReviewIds, s \in ReviewStates \ {"pending"} :
        (\E r \in store : r.review_id = id /\ r.state = s)
          ~> ( \/ failures > 0
               \/ \E e \in SignedOff : /\ e.review_id = id /\ e.state = s
                                       /\ e.decision = "allowed" )
=============================================================================
