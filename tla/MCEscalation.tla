---------------------------- MODULE MCEscalation ----------------------------
(***************************************************************************)
(* Instances of Escalation for TLC: an analyst who moves cases and may     *)
(* approve too, a checker, and a workflow with two clocks from the opening *)
(* and one that starts with the review, in a state entered again.          *)
(***************************************************************************)
EXTENDS Escalation

CONSTANTS ana, ben, timer, t1, approver, high

MCStates     == {"received", "review", "resolved"}
MCClockNames == {"acknowledge", "resolve", "reply"}
MCTaskName   == [c \in MCClockNames |-> c]

Clock(name, kind, days, start) ==
    [ name |-> name, kind |-> kind, duration_days |-> days, start_state |-> start,
      warn_percent |-> 50 ]

MCWhole == "complaint" :>
    [ initial |-> "received", terminal |-> {"resolved"},
      transitions |-> { <<"received", "review">>, <<"review", "review">>,
                        <<"review", "resolved">> },
      clocks |-> << Clock("acknowledge", "business", 0, "received"),
                    Clock("resolve", "calendar", 1, "received"),
                    Clock("reply", "calendar", 0, "review") >>,
      escalate_on |-> {"sla_breach", "stuck_in_state"},
      stuck_after_days |-> "review" :> 1 ]

MCAnalyst  == {[actor |-> ana, tenant |-> t1]}
MCCallback == [actor |-> timer, tenant |-> t1]
MCCheckers == {[actor |-> a, tenant |-> t1, groups |-> {approver}] : a \in {ana, ben}}
MCPolicy   == [floors |-> high :> 2, enforce_sod |-> TRUE, approver_group |-> approver]

(* The runs of this module are of those that the theorems on the trail and *)
(* the timers are about.                                                   *)
ASSUME OrderlySerial == OrderlyWorkflows /\ Serial
=============================================================================
