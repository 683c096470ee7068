--------------------------- MODULE SignOffLedger ---------------------------
(***************************************************************************)
(* What the review console promises its auditors, with nothing of how it   *)
(* is done: a review is entered, disposed of or refused in one step, and   *)
(* every step adds the one sign-off that tells it.  There are no threads,  *)
(* no policy and no store here; a policy only shows as a requirement that  *)
(* may rise.                                                               *)
(***************************************************************************)
EXTENDS MakerChecker

VARIABLES reviews, ledger

Init == reviews = {} /\ ledger = << >>

(* The part of a review that no disposition may change. *)
Kept(r) == <<r.review_id, r.tenant, r.maker, r.severity, r.sod_group, r.source_key>>

Enter ==
    \E r \in reviews' \ reviews :
        /\ r.state = "pending" /\ r.approvals = << >>
        /\ \A s \in reviews : s.review_id # r.review_id
        /\ reviews' = reviews \cup {r}
        /\ ledger' = Append(ledger, SubmissionSignOff(r))

(* One more distinct pair of eyes; the last one required approves. *)
Approves(old, new, checker) ==
    /\ checker # old.maker
    /\ checker \notin Approvers(old)
    /\ new.approvals = Append(old.approvals, checker)
    /\ new.state = IF Len(new.approvals) = new.required THEN "approved" ELSE "pending"

Closes(old, new, checker, state) ==
    /\ checker # old.maker
    /\ checker \notin Approvers(old)
    /\ new.approvals = old.approvals
    /\ new.state = state

Verdict(old, new, checker, disposition) ==
    \/ disposition = "approve" /\ Approves(old, new, checker)
    \/ disposition = "reject"  /\ Closes(old, new, checker, "rejected")
    \/ disposition = "amend"   /\ Closes(old, new, checker, "amended")

SignOne ==
    \E old \in reviews, new \in reviews', checker \in Actors, d \in Dispositions :
        /\ old.state = "pending"
        /\ Kept(new) = Kept(old) /\ new.required >= old.required
        /\ Verdict(old, new, checker, d)
        /\ reviews' = (reviews \ {old}) \cup {new}
        /\ ledger' = Append(ledger, SignOff(new, "dispose", checker, d, {}))

Refuse ==
    /\ \E r \in reviews, checker \in Actors, d \in Dispositions,
          why \in (SUBSET Findings) \ {{}} :
         /\ r.state = "pending"
         /\ ledger' = Append(ledger, SignOff(r, "dispose", checker, d, why))
    /\ UNCHANGED reviews

Next == Enter \/ SignOne \/ Refuse

Spec == Init /\ [][Next]_<<reviews, ledger>>
=============================================================================
