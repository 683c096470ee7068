----------------------------- MODULE CaseEngine -----------------------------
(***************************************************************************)
(* The pure part of the case engine: the consumer's workflow definitions,  *)
(* the case and its history, the legal-transition state machine and the    *)
(* assessment of a case at an instant (domain/cases: models,               *)
(* state_machine, assessment).                                             *)
(*                                                                         *)
(* Summaries, attributes and citations ride along without effect and are   *)
(* left out.                                                               *)
(***************************************************************************)
EXTENDS BusinessClock, SequencesExt

CONSTANTS
    CaseIds, Tenants, Actors, Severities,
    States,         \* the states of all the workflows
    ClockNames,
    Definitions,    \* the registry: case types to their definitions
    Holidays,       \* the days that the service was told are not worked
    CaseEngineId    \* "case-engine@system", the maker when nobody moved a case

(* The last is in the vocabulary and is recorded by no rule: a refused     *)
(* transition carries no finding.                                          *)
CaseFindings == {"sla_breach", "approaching_deadline", "stuck_in_state", "illegal_transition"}

(* d is a consumer's definition; stuck_after_days caps the dwell in some   *)
(* of its states.                                                          *)
IsWorkflowDefinition(d) ==
    /\ d.initial \in States /\ d.terminal \subseteq States
    /\ d.transitions \subseteq States \X States
    /\ d.clocks \in Seq(ClockSpec(ClockNames, States))
    /\ d.escalate_on \subseteq CaseFindings
    /\ DOMAIN d.stuck_after_days \subseteq States
    /\ \A s \in DOMAIN d.stuck_after_days : d.stuck_after_days[s] \in Nat

ASSUME EngineAssumption ==
    /\ \A t \in DOMAIN Definitions : IsWorkflowDefinition(Definitions[t])
    /\ Holidays \subseteq Nat /\ IsFiniteSet(Holidays)
    /\ CaseEngineId \notin Actors

-----------------------------------------------------------------------------
(* The case.  seq of a history entry is its position. *)

Transition ==
    [ seq : Nat \ {0}, from_state : States, to_state : States,
      actor : Actors, at : Nat ]

Case ==
    [ case_id : CaseIds, tenant : Tenants, case_type : DOMAIN Definitions,
      state : States, severity : Severities, opened_at : Nat, history : Seq(Transition) ]

Definition(c)  == Definitions[c.case_type]
IsTerminal(c)  == c.state \in Definition(c).terminal
IsLegal(c, to) == <<c.state, to>> \in Definition(c).transitions

NextSeq(c) == Len(c.history) + 1

EnteredCurrentAt(c) ==
    IF c.history = << >> THEN c.opened_at ELSE Last(c.history).at

(* Mutant: the latest entry of the state counts. *)
FirstEntered_Last(c, state) ==
    LET last == SelectLastInSeq(c.history, LAMBDA t : t.to_state = state)
    IN  IF state = Definition(c).initial THEN c.opened_at
        ELSE IF last = 0 THEN NotStarted ELSE c.history[last].at

(* When a case first entered a state, or NotStarted. *)
FirstEntered(c, state) ==
    LET first == SelectInSeq(c.history, LAMBDA t : t.to_state = state)
    IN  IF state = Definition(c).initial THEN c.opened_at
        ELSE IF first = 0 THEN NotStarted ELSE c.history[first].at

NewCase(id, tenant, type, severity, as_of) ==
    [ case_id |-> id, tenant |-> tenant, case_type |-> type,
      state |-> Definitions[type].initial, severity |-> severity,
      opened_at |-> as_of, history |-> << >> ]

(* A legal edge taken: the new state and one more entry of history. *)
Moved(c, to, actor, as_of) ==
    [c EXCEPT !.state = to,
              !.history = Append(@, [ seq |-> NextSeq(c), from_state |-> c.state,
                                      to_state |-> to, actor |-> actor, at |-> as_of ])]

-----------------------------------------------------------------------------
(* The assessment of a case at an instant. *)

Deadline(c, spec, as_of) ==
    DeadlineFor(spec, FirstEntered(c, spec.start_state), as_of, Holidays)

Deadlines(c, as_of) ==
    {Deadline(c, spec, as_of) : spec \in ToSet(Definition(c).clocks)}

IsStuck(c, as_of) ==
    LET limits == Definition(c).stuck_after_days
    IN  /\ ~IsTerminal(c)
        /\ c.state \in DOMAIN limits
        /\ CalendarDaysBetween(EnteredCurrentAt(c), as_of) >= limits[c.state]

Findings(c, as_of) ==
    {f \in CaseFindings :
       \/ f = "sla_breach" /\ \E d \in Deadlines(c, as_of) : d.breached
       \/ f = "approaching_deadline"
            /\ \E d \in Deadlines(c, as_of) : ~d.breached /\ d.approaching
       \/ f = "stuck_in_state" /\ IsStuck(c, as_of)}

RequiresHumanReview(c, findings) == findings \cap Definition(c).escalate_on # {}
=============================================================================
