------------------------------ MODULE MCQueueUI ------------------------------
(***************************************************************************)
(* Instances of QueueUI for TLC: two personas of one tenant and one of a   *)
(* second, a colleague elsewhere, a waiting review in each tenant.         *)
(***************************************************************************)
EXTENDS QueueUI, TLC

CONSTANTS ana, ben, eve, kim, dan, t1, t2, approver, desk, high

Person(a, t) == [actor |-> a, tenant |-> t, groups |-> {approver}]

MCPersonas == {Person(ana, t1), Person(ben, t1), Person(eve, t2)}
MCFirst    == Person(ana, t1)
MCOthers   == {[actor |-> kim, tenant |-> t1, groups |-> {approver, desk}]}
MCPolicy   == [floors |-> high :> 2, enforce_sod |-> TRUE, approver_group |-> approver]

Review(id, t, maker) ==
    [ review_id |-> id, tenant |-> t, maker |-> maker, severity |-> high, required |-> 2,
      sod_group |-> NoGroup, source_key |-> NoKey, state |-> "pending", approvals |-> << >> ]

MCWaiting == {Review(1, t1, dan), Review(2, t2, dan)}
=============================================================================
