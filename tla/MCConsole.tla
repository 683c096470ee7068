----------------------------- MODULE MCConsole -----------------------------
(***************************************************************************)
(* Instances of ReviewConsole for TLC: one tenant's maker, two approvers,  *)
(* a colleague without the entitlement and an approver of a second tenant. *)
(***************************************************************************)
EXTENDS ConsoleLedger

CONSTANTS ana, ben, eve, t1, t2, approver, desk, high, low

Person(a, t, g) == [actor |-> a, tenant |-> t, groups |-> g]

(* ana submits and may approve as well; ben and eve approve; eve sits at   *)
(* the desk that some requests are segregated from.                        *)
MCTeam == { Person(ana, t1, {approver}), Person(ben, t1, {approver}),
            Person(eve, t1, {approver, desk}) }

(* The same people, but eve works for the second tenant only. *)
MCTwoTenants == { Person(ana, t1, {approver}), Person(ben, t1, {approver}),
                  Person(eve, t2, {approver}) }

Routing(f, sod) == [floors |-> f, enforce_sod |-> sod, approver_group |-> approver]

(* The shipped routing (dual control for high), and an institution's own.  *)
Shipped == Routing(high :> 2 @@ low :> 1, TRUE)
Relaxed == Routing(high :> 1 @@ low :> 1, TRUE)
Strict  == Routing(high :> 3 @@ low :> 2, TRUE)

MCShipped == {Shipped}
MCMixed   == {Shipped, Relaxed}
MCThree   == {Relaxed, Shipped, Strict}

Ask(s, n, g) == [severity |-> s, required |-> n, sod_group |-> g]

MCHigh     == {Ask(high, 1, desk)}
MCLow      == {Ask(low, 1, NoGroup)}
MCVaried   == {Ask(high, 1, desk), Ask(low, 2, NoGroup)}

WorkerSymmetry == Permutations(Workers)
=============================================================================
