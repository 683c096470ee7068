------------------------------ MODULE MCCases ------------------------------
(***************************************************************************)
(* Instances of CaseWorkflow for TLC: an analyst and a manager of one      *)
(* tenant, an analyst of a second, the service account of the timers, and  *)
(* small workflows with every feature of a definition.  One tick a day.    *)
(***************************************************************************)
EXTENDS CaseWorkflow

CONSTANTS ana, mia, eve, timer, t1, t2

Person(a, t) == [actor |-> a, tenant |-> t]

MCOne      == {Person(ana, t1)}
MCTenants  == {Person(ana, t1), Person(eve, t2)}
MCCallback == Person(timer, t1)

MCStates == {"received", "review", "waiting", "resolved"}
MCClockNames == {"acknowledge", "resolve", "reply"}
MCTaskName == [c \in MCClockNames |-> c]

Clock(name, kind, days, start) ==
    [ name |-> name, kind |-> kind, duration_days |-> days, start_state |-> start,
      warn_percent |-> 50 ]

Workflow(clocks, stuck) ==
    [ initial |-> "received", terminal |-> {"resolved"},
      transitions |-> { <<"received", "review">>, <<"review", "waiting">>,
                        <<"waiting", "review">>, <<"review", "resolved">> },
      clocks |-> clocks, escalate_on |-> {"sla_breach", "stuck_in_state"},
      stuck_after_days |-> stuck ]

(* A clock that starts with the review, and one that starts the case.      *)
MCReply == "complaint" :> Workflow(<< Clock("reply", "calendar", 1, "review") >>, "waiting" :> 9)
MCBrief == "complaint" :> Workflow(<< Clock("resolve", "business", 1, "received") >>, "waiting" :> 1)

WorkerSymmetry == Permutations(Workers)
=============================================================================
