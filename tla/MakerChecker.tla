---------------------------- MODULE MakerChecker ----------------------------
(***************************************************************************)
(* The pure maker-checker engine of the review console: the review item,   *)
(* the routing policy, the eligibility rules and the disposition of one    *)
(* item by one checker (domain/models.py, domain/kernel.py and             *)
(* domain/maker_checker_service.py).  The module has no state: the console *)
(* and the case engine call these operators from their actions.            *)
(*                                                                         *)
(* Free text (subject, summary, reasons, amendments, citations) and time   *)
(* stamps are left out: no rule reads them.                                *)
(***************************************************************************)
EXTENDS Integers, SequencesExt

CONSTANTS
    Actors,         \* identities: people and producing services
    Tenants,        \* the partitions of the queue
    Groups,         \* entitlements and segregation-of-duties groups
    ReviewIds,      \* the uuids a deployment may mint
    SourceKeys,     \* idempotency keys of trusted producers
    Severities,     \* low, medium, high, critical
    NoGroup,        \* the empty sod_group ""
    NoKey,          \* the empty source_key ""
    NoChecker       \* the empty checker "" of a submission's sign-off

ASSUME SentinelAssumption ==
    NoGroup \notin Groups /\ NoKey \notin SourceKeys /\ NoChecker \notin Actors

Dispositions  == {"approve", "reject", "amend"}
ReviewStates  == {"pending", "approved", "rejected", "amended"}
Decisions     == {"allowed", "denied"}
Findings      == {"wrong_tenant", "self_approval", "segregation_of_duties",
                  "insufficient_role", "duplicate_approver"}

(***************************************************************************)
(* A principal is what the identity provider vouches for; none of it comes *)
(* from the request body.                                                  *)
(***************************************************************************)
Principal == [actor : Actors, tenant : Tenants, groups : SUBSET Groups]

(***************************************************************************)
(* The queue aggregate.  The fields of ReviewRequest and of ReviewItem are *)
(* in one record; an approval is the checker who gave it.                  *)
(***************************************************************************)
ReviewItem ==
    [ review_id : ReviewIds, tenant : Tenants, maker : Actors,
      severity  : Severities, required : Nat \ {0},
      sod_group : Groups \cup {NoGroup}, source_key : SourceKeys \cup {NoKey},
      state     : ReviewStates, approvals : Seq(Actors) ]

IsTerminal(item) == item.state # "pending"
Approvers(item)  == Range(item.approvals)

WithApproval(item, checker, state) ==
    [item EXCEPT !.approvals = Append(@, checker), !.state = state]

Resolved(item, state) == [item EXCEPT !.state = state]

(***************************************************************************)
(* The routing policy of one running process.  from_mapping refuses to     *)
(* start with a floor below one, or with a severity it does not know; a    *)
(* severity that the policy does not name has the floor 1.                 *)
(***************************************************************************)
RoutingPolicy ==
    [ floors         : [Severities -> Nat \ {0}],
      enforce_sod    : BOOLEAN,
      approver_group : Groups ]

(* Mutant: the active floor replaces what was asked for. *)
RequiredApprovals_FloorOnly(policy, severity, requested) == policy.floors[severity]

RequiredApprovals(policy, severity, requested) ==
    Max({1, requested, policy.floors[severity]})

(* Mutant: the maker may check. *)
CheckEligibility_NoFourEyes(policy, item, checker) ==
    { f \in Findings :
        \/ f = "wrong_tenant" /\ checker.tenant # item.tenant
        \/ /\ f = "segregation_of_duties"
           /\ policy.enforce_sod
           /\ item.sod_group # NoGroup
           /\ item.sod_group \in checker.groups
        \/ f = "insufficient_role"  /\ policy.approver_group \notin checker.groups
        \/ f = "duplicate_approver" /\ checker.actor \in Approvers(item) }

(* Mutant: segregation of duties compares with the approver entitlement. *)
CheckEligibility_WrongGroup(policy, item, checker) ==
    { f \in Findings :
        \/ f = "wrong_tenant"  /\ checker.tenant # item.tenant
        \/ f = "self_approval" /\ checker.actor = item.maker
        \/ /\ f = "segregation_of_duties"
           /\ policy.enforce_sod
           /\ item.sod_group = policy.approver_group
        \/ f = "insufficient_role"  /\ policy.approver_group \notin checker.groups
        \/ f = "duplicate_approver" /\ checker.actor \in Approvers(item) }

(***************************************************************************)
(* Every reason why this checker may not act on this item.                 *)
(***************************************************************************)
CheckEligibility(policy, item, checker) ==
    { f \in Findings :
        \/ f = "wrong_tenant"  /\ checker.tenant # item.tenant
        \/ f = "self_approval" /\ checker.actor = item.maker
        \/ /\ f = "segregation_of_duties"
           /\ policy.enforce_sod
           /\ item.sod_group # NoGroup
           /\ item.sod_group \in checker.groups
        \/ f = "insufficient_role"  /\ policy.approver_group \notin checker.groups
        \/ f = "duplicate_approver" /\ checker.actor \in Approvers(item) }

(* Mutant: the stored evidence keeps what was asked for. *)
WithEffectiveRouting_AsAsked(policy, item) == item

(***************************************************************************)
(* The console projects the active floor onto every item it loads or       *)
(* creates (console_service._with_effective_routing).                      *)
(***************************************************************************)
WithEffectiveRouting(policy, item) ==
    [item EXCEPT !.required = RequiredApprovals(policy, item.severity, @)]

(***************************************************************************)
(* The item after an eligible checker's disposition.  The caller has       *)
(* refused terminal items and ineligible checkers.                         *)
(***************************************************************************)
Approved(policy, item, checker) ==
    LET quorum == Len(item.approvals) + 1
                     >= RequiredApprovals(policy, item.severity, item.required)
    IN  WithApproval(item, checker.actor, IF quorum THEN "approved" ELSE "pending")

Dispose(policy, item, checker, disposition) ==
    CASE disposition = "approve" -> Approved(policy, item, checker)
      [] disposition = "reject"  -> Resolved(item, "rejected")
      [] disposition = "amend"   -> Resolved(item, "amended")

(***************************************************************************)
(* The write-once sign-off record of one attempt or one submission.        *)
(***************************************************************************)
SignOffEvent ==
    [ action : {"submit", "dispose"}, review_id : ReviewIds, tenant : Tenants,
      maker  : Actors, checker : Actors \cup {NoChecker},
      disposition : Dispositions, decision : Decisions,
      state : ReviewStates, findings : SUBSET Findings ]

SignOff(item, action, checker, disposition, findings) ==
    [ action |-> action, review_id |-> item.review_id, tenant |-> item.tenant,
      maker  |-> item.maker, checker |-> checker, disposition |-> disposition,
      decision |-> IF findings = {} THEN "allowed" ELSE "denied",
      state |-> item.state, findings |-> findings ]

(* Mutant: a submission is recorded as a disposition of its own kind. *)
SubmissionSignOff_OwnKind(item) == SignOff(item, "submit", NoChecker, "submit", {})

(* A submission is recorded with the disposition AMEND and no checker. *)
SubmissionSignOff(item) == SignOff(item, "submit", NoChecker, "amend", {})
=============================================================================
