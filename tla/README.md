# Human-review console: a verification project

TLA+ models of the maker-checker review console and the case, clock and
workflow engine of this repository (`src/src/review_console`), TLC instances
that check them, and TLAPS proofs about the core. Paths below are relative to
`src/src/review_console` unless they start with `src/`.

## 1. Inventory

| Component | State it keeps | Operations | Modelled in |
|---|---|---|---|
| Maker-checker engine (`domain/maker_checker_service.py`, `models.py`, `kernel.py`) | none (pure) | `required_approvals`, `check_eligibility`, `dispose` | `MakerChecker` |
| Review console service (`domain/console_service.py`) | none of its own; locals of a running handler | `submit`, `submit_idempotent`, `dispose`, `get`, `list_queue`, `list_all` | `ReviewConsole` |
| Review store (`adapters/local/review_store.py`, `gcp/review_store.py`) | rows by (tenant, review id), unique index on (tenant, source key) | `put`, `put_if_absent_by_source_key`, `get`, lists | `ReviewConsole` |
| Audit sink (`adapters/*/audit.py`) | append-only, hash-chained trail | `record` | a sequence in `ReviewConsole` and `CaseWorkflow` |
| Clock arithmetic (`domain/cases/clock.py`) | none | `add_business_days`, `business_days_between`, `deadline_for` | `BusinessClock`, `ClockWatch` |
| Case engine (`domain/cases/workflow_service.py`, `assessment.py`, `state_machine.py`, `models.py`) | locals of a running handler | `open_case`, `transition_case`, `evaluate_case` | `CaseEngine`, `CaseWorkflow` |
| Case store, timers, lifecycle events (`adapters/*/case_store.py`, `timers.py`, `events.py`) | rows; one task per (tenant, case, clock); published events | `put`, `get`; `schedule`, `cancel`; `publish` | `CaseWorkflow` |
| Review router (`adapters/review_router.py`) | none | `route`: submit a review of an escalated case | `Escalation` |
| Identity, profiles, exposure guard, service authentication (`api/app.py`, `config.py`, `ports/identity.py`, `adapters/*/identity.py`) | what was decided at boot | boot, resolve a principal, admit a service, bind an interface, turn a peer away | `Posture` |
| Dependency container (`config.py`, `api/app.py:106`) | lazy singletons | first use builds a port | `Container` |
| Review UI (`src/ui/app/page.tsx`, `src/ui/lib/api.ts`) | queue, selection, persona, requests in flight | refresh, select, decide, submit, switch persona | `QueueUI` |
| CLI, on-premises placeholders, terraform, evaluation, scripts | none | | not modelled (no logic of their own) |

How they interact: FastAPI runs each request's handler on a thread of a pool
(`def` routes), Cloud Run runs up to four instances with up to forty requests
each, and all share one review store, one case store and one trail. A handler
calls its service, the service the pure engine and then the ports, one call
after another, with no lock, transaction or version check around them. The
case engine calls the console, in the same process, to hand a case to a human.
Timers call the service back over HTTP.

What is hard here, hence what the models are about:

* **Interleaving.** `dispose` and `transition_case` load a row, decide, and put
  the whole row back; what another thread stored in between is overwritten.
* **Partial failure.** A store write and its record are two calls; the second
  may never happen, and a retry of the first is refused or answered silently.
* **Mixed revisions.** The routing policy is read at boot, so during a rollout
  threads project different floors onto the same items.
* **Retried deliveries** by producers, which must open one review each.
* **First use and restart.** Ports are built lazily by whichever threads come
  first; a default local process loses everything but its review database.
* **Posture.** What is decided when `app.py` is imported, when the settings are
  first loaded, and per request, has to agree on who is served.
* **Asynchronous answers** at the page, under a persona that has changed meanwhile.
* **Time.** Deadlines over weekends and holidays; a breach compared by instant
  and reported by day; clocks that start with a state entered several times;
  callbacks that come late, for closed cases, or are not admitted.

## 2. Plan

Done: `MakerChecker` → `ReviewConsole` → `SignOffLedger` / `ConsoleLedger` →
`ReviewConsoleProofs`; `BusinessClock` → `BusinessClockProofs`, `ClockWatch` →
`ClockWatchProofs`; `CaseEngine` → `CaseWorkflow` → `CaseWorkflowProofs`; `Escalation`
(which composes `CaseWorkflow` with `ReviewConsole`) → `EscalationProofs`; `Posture` →
`PostureProofs`; `Container` → `ContainerProofs`; `QueueUI` → `QueueUIProofs`.

Every safety and action property of the passing runs is proved. What would be worth
stating next:

1. An abstract case, an append-only walk with its trail, that `CaseWorkflow` implements
   with one handler at a time, as `SignOffLedger` is for the console.
2. What the case engine still keeps with several handlers: `SerialInvariance` fails
   there, but a bound on the moves that are overwritten should hold.
3. A model of the queue in front of the timers, of which deliveries and retries are one
   step here, with the delete-then-create of `schedule` cut in two.

## 3. Modules and their correspondence with the code

**`MakerChecker`** is the pure engine. `RequiredApprovals` is the larger of the
severity's floor and what was asked; `CheckEligibility` collects the findings
`self_approval`, `wrong_tenant`, `insufficient_role`, `segregation_of_duties`,
`duplicate_approver` independently of each other, as the code does;
`WithEffectiveRouting` is the projection of the active floor onto an item;
`Dispose` is one disposition; `SignOff` builds the record. Subjects, summaries,
reasons, citations and timestamps are left out: nothing branches on them.

**`ReviewConsole`** is the service. `store` is the set of rows, `signoffs` the
trail, `call[w]` what worker `w` holds between two accesses (nothing, an item to
put and a record to write, or a record to write), `policy[w]` the policy its
process booted with. One action per access:

| Action | Code |
|---|---|
| `Submit`, `SubmitIdempotent` | `console_service.py:62-132`: the insert; the insert-if-absent is one transaction in both stores |
| `DisposeAllowed`, `DisposeDenied` | `console_service.py:205-241`: load, project, decide. The load and the decision are one step, since nothing shared is read after the load |
| `PutOutcome` | line 241, the blind upsert |
| `Record` | line 243 or 83/130, the append |
| `Fail` | a raising store or sink, or a killed instance |
| `Redeploy` | a new revision boots with another policy (`config.py:474-486`) |

Dispositions of unknown ids (404) and terminal items (409) change nothing.

**`SignOffLedger`** is what the console promises an auditor: reviews entered,
signed or refused in one step each, every step with its record. **`ConsoleLedger`**
maps the console onto it: a record counts from the step that makes it inevitable.

**`BusinessClock`** has instants in ticks since a Monday midnight. The two walks
of `clock.py` are recursive functions, one over the pair of what is left and the day,
one over days. The ceiling of the float
product `(1.0 - warn_ratio) * duration_days` is exact except for the pairs in
`RoundedUp`, where the product exceeds a whole number. **`ClockWatch`** watches one
clock from day 0 to the horizon, for every anchor, duration, ratio and holidays
of the bounds, and compares with a reference definition that has no walk.

**`CaseEngine`** holds definitions, cases, the state machine and the assessment.
**`CaseWorkflow`** is the service: `asked[w]` is a request that has taken its
stamp (`workflow_service.py:122, 162`) and not yet loaded its case, `todo[w]` the
port calls its handler has still to make, in the code's order. `TransitionCase`,
`RefuseTransition`, `EvaluateCase` and `CaseNotFound` decide; `PutCase`,
`ScheduleTimer`, `CancelTimer`, `Publish`, `Record` and `RouteToReview` are the
calls; `Fail` drops what is left. `TimerFires` is the queue's delivery: the
callback is an evaluation by `CallbackPrincipal`, or a 401 when that is `Nobody`,
which is what the shipped adapters give it.
`TaskName` is what becomes of a clock's name in the id of its timer's task, which the
Cloud Tasks adapter sanitises and truncates (`adapters/gcp/timers.py:35-38`): two clocks
of one case may share a task, and then scheduling the second drops the first's. The
theorems are about any such function; in the instances, as in the local register, it is
the identity. Case ids are uuids, which survive it and keep the cases apart.
`OrderlyWorkflows` is what a consumer may be expected to mean by a definition and the
code does not check: no case opens at its end or leaves an end for a state that is
none, and the tasks of its clocks have ids of their own.

The hand-off is abstract here: a record of who is asked to review what.

**`Escalation`** extends `CaseWorkflow` and instantiates `ReviewConsole` with the
router between them. `HandOver` is `adapters/review_router.py:31-48`: the review
gets a fresh id, the maker that `evaluate_case` found in the history it loaded, one
approval asked for and no segregated group, and is submitted by the same handler,
which then owes the console's record (`call[w]`) besides the rest of its plan.
`Engine` and `Desk` are the steps of a thread that serves a case or a reviewer;
`about` relates reviews to cases and is the models' own.

**`Posture`** is one process and its environment, a record with one field per
variable in three states (`Unset`, `Emptied`, a value). `Boot` evaluates what
`api/app.py` evaluates when imported (`Decided`), `RefuseToBoot` is each way it
raises; `Answer` is one request, through the exposure guard (`Exposed`) and the
route's dependencies (`GetPrincipal`, `RequireServiceCaller`, `FromConsole`).
`SettingsFail` is `Settings.load` raising, which happens on a request, not at boot.
An assertion is its e-mail, audience, hosted domain, and whether Google signed it
(`GenuineAssertions` assumes that what it signed names the sender).

**`Container`** is `_container` (an `lru_cache`) and the cached properties of
`Container` under the local profile. A thread evaluates `console`,
`review_router` and their parts on a stack; `LookContainer`/`LookPort` is a miss or a
hit, `FillContainer`/`FillPort` the end of building, which keeps the first container
and the last port. `HandleReview` and `HandleCase` write what a handler writes, to
the instances it looked up. `Restart` keeps the review database only. Only ports
that hold records are there; the others are looked up in the same way.

**`QueueUI`** is `page.tsx` under the local profile. Each handler is cut at its
`await`: `OnPersonaChange`, `Select`, `Decide` and `SeedDemoItem` are clicks, which send
requests with the header of the persona of that moment (`api.ts:28-40`);
`ShowQueue`, `Submitted` and `Decided` are what follows the answer; `Throws` is each
catch. The service is the pure engine over a set of rows, and as in `ReviewConsole` a
decision is two accesses: `ServeDecide` loads the row, projects the floor and decides,
`PutDecision` puts what was decided over whatever the row has become. Reviewers at other
browsers (`OtherDecides`, `OtherPuts`) do the same in between, and may die between the
two. A submission and a reading of the queue are one step. `pressed`, `closed`,
`reopened` (the resolved reviews that such a put made pending again) and the numbers of
the requests are the model's own.

## 4. Runs

Passing:

| Run | Instance | Shows |
|---|---|---|
| `console_mixed` | 2 threads, 3 people, 1 review, 2 policies, 1 failure | four-eyes, quorum and entitlement survive every interleaving; a terminal review is signed off, but for one per failure |
| `console_producers` | 2 threads, 2 tenants, 1 key, 2 reviews, 1 failure, fair | one review and one submission record per delivery key; every sign-off is of a stored review, with its tenant and maker, by a checker of that tenant who, if allowed, could approve it and is not its maker; what was submitted is kept; sign-offs do come |
| `console_serial` | 1 thread, 3 policies, 1 failure | terminal is final, routing only tightens, allowed approvals are stored, the console implements the ledger |
| `clock_watch` | 18 anchors, 5 durations, 4 ratios, 5 holiday sets, 26 days of 2 ticks | the deadline is the defined one; count, breach and warning agree |
| `cases_threads` | 2 threads, 2 tenants, 4 requests, timers, 1 failure | histories are legal walks; tenants stay apart in what is stored, recorded, announced, scheduled and handed over; hand-offs are told first |
| `escalation` | 1 thread, 1 case, 3 requests, timers, callback admitted, 2 sign-offs, 1 failure, fair | the trail replays the history; timers are those of open cases; breaches stay and are not missed; each escalation becomes one review; the maker of its review is the last mover that the trail tells, and is not among its approvers; the router is a producer like any other |
| `posture` | every combination of profile, region, audience, entitlements, callers, token, demo switch, host and launch, each other variable varied by itself, 3 senders, every route | consent, identity, tenancy and residency bound every answer |
| `container` | 2 threads, 3 requests, 1 restart, 1 key | acknowledged reviews stay in the queue; end-user handlers share a container; records of a warm process are not lost to it |
| `queue` | 3 personas in 2 tenants, a colleague elsewhere, 2 waiting reviews, 3 clicks | every approval and verdict in the store was pressed by whom it names, or given elsewhere; the queue settles on who acts, and shows a review that the page was told is resolved only if an overlapping put has reopened it |

Expected violations, each of what a document or comment says (the quotes are in
`PROJECT.json`):

| Run | What TLC finds |
|---|---|
| `console_lost_reject` | two dispositions at once: a terminal item is overwritten |
| `cases_missed` | the timer's callback is refused: a breach nobody polls for is missed |
| `cases_untimed` | a clock that starts in a later state never gets a timer |

Properties checked with one thread are so because the code does not keep them
otherwise: with two a second put overwrites the first, in `dispose`
(`TerminalIsFinal`, `AllowedApprovalsAreStored`) as in `transition_case`
(`TrailReplaysHistory`, `TimersFollowCases`). `console_lost_reject` stands for them.
Properties about two writes in a row count the failures: one handler's death costs
at most one record, and never one of somebody else's. `MCEscalation` assumes
`OrderlyWorkflows` and `Serial` of its instance, so that TLC confirms that the
hypotheses of the theorems about cases are met where their properties are checked.

**What the models show of the code without a run of its own**

* `config.py:52-53` and `198` say that a process in a region outside the allowlist
  refuses to boot. The region is validated when the settings load, on the first
  request that needs them: the process boots and answers `/v1/workflows` (and
  `/v1/audit/ping`) on loopback, and nothing with data (`DataNeedsSoundSettings`).
* `api/app.py:113` and `config.py:490-496` speak of the SAME console. After two
  simultaneous first requests the router may keep a console other than
  `container.console`, and that an audit log other than `container.audit`. Under the
  local profile the review database is common, so that the queue is not affected
  (`AcknowledgedIsQueued`); an in-memory trail may be split, and what a handler of
  that moment wrote may be in a log that nobody reads. `WarmRecordsStay` says that
  it ends there.
* After a restart of a default local process the reviews are there and their
  sign-offs are not, nor is any case (`config.py:410`).
* A queue answer that is overtaken by a later one replaces it on the page: there is
  no sequence check (`page.tsx:25-31`). The old rows may be clicked; the service
  looks the review up in the tenant of whoever acts, and files the decision under who
  pressed it (`DecisionsArePressed`).
* `api/app.py:573-574` and `domain/console_service.py:219-221` say that an attempt on a
  review of another tenant is a 403 and a sign-off that records it as DENIED. The row is
  looked up in the caller's own tenant (line 224): the attempt is a 404 and leaves no
  record, so that nobody who reads the trail learns of it, and `check_eligibility`'s
  `wrong_tenant` never comes into play. `DisposeDenied` therefore never writes that finding; no property
  asks for it, nor for its absence.
* The page may be told that a review is resolved, and shown it in the queue again, when
  a colleague's disposition was loaded before and is put after (`reopened`); it is the
  race of `console_lost_reject` as a reviewer sees it.
* When nobody has moved a case its escalation's maker is the engine, and whoever
  moves the case later may check that review. Every evaluation of a breached case
  opens a further review.

**Bounds.** `MaxSignOffs` stops new dispositions (not submissions) when the trail
is that long; three or four records are a submission and the longest life of an
item that needs two or three approvals, with a refusal; two, in `escalation`, a
hand-off and one disposition of it, or two hand-offs. `MaxFailures` is one: a
handler's failure has no memory, so a second one adds repetitions only.
`MaxRequests` bounds requests; three on top of the timers' callbacks are an opening,
a move (and back, or into a terminal state) and an evaluation, in any order. `Horizon` ends
time after the due instants of a case opened at its start. Two threads are what
the read-decide-write races and the races of first use need; one review or case,
since rows do not interact except through the source key, for which
`console_producers` has two. `MaxRestarts` is one: nothing of a boot but the
database reaches the next. Three clicks at the page are the shortest way to each
of its hazards (select, decide, and switch or decide again; switch, switch back);
answers, losses and the colleague are not bounded by them. One tick is a day for cases and half a
day for clocks, so that both orders within a day occur. The environments of
`posture` are exhaustive over the variables that interact; one person is entitled,
one not, and a service account is written in two cases. Every run but
`clock_watch` stops when its bounds are reached, hence no deadlock check;
`clock_watch` stops at its horizon.

**Fairness.** `WF(Serve(w))`, `WF(SystemServes(w))`: a handler that started runs to its
end, as threads of a server do, in the engine, the router and the console. No
request is ever obliged to come, and none is repeated by fairness. `WF(Tick)` and
`WF(TimerFires(w))`: time passes and the queue delivers, which is Cloud Tasks'
contract. Failures are allowed and unfair; each liveness property says what one
may cost. The page has no liveness property: an answer may be lost for good.

## 5. Proofs

`ReviewConsoleProofs` proves, for any number of threads, people, tenants,
policies, reviews and failures, that `Spec` implies:

* `TypeCorrect`: `[]TypeOK`
* `FourEyesHolds`, `QuorumHolds`, `EntitlementHolds`: `[]FourEyes`, `[]Quorum`,
  `[]ApproversEntitled`
* `IdempotenceHolds`: `[]OneReviewPerSourceKey`
* `RequestsKept`: `RequestsAreKept`, from the same invariant

They rest on `SentinelAssumption` and `ConsoleAssumption` only (sentinels are not
real values; principals, policies and requests have their types).

None of the properties is inductive alone, because `PutOutcome` stores an item
that was computed from a row several steps ago. `IInv` therefore says of every
item a handler *holds* what it says of stored rows: it is sound (`ItemsSound`),
and it is a draft of a row that is still there (`DraftsOfRows`) with the same
request; ids are unique (`IdsUnique`), so that the put replaces exactly that row.
`DisposeSound` carries the algorithmic content: an eligible disposition of a sound
item, under a floor already projected, is sound. The proof has one lemma per
action; the theorems read off the parts of `IInv`.

The same module is about how rows and the trail develop. For any number of threads,
from the same assumptions and `FiniteSetTheorems`:

* `TrailIsOfReviews`: `[]TrailIsEvidence`. The sign-offs that handlers have still to
  write are of stored rows and by who may have made them as well (`RecordsNameRows`):
  who is found eligible could approve the row as it was loaded (`EligibleCouldApprove`),
  what makes one able to is never rewritten (`SameEntitlement`), and no step drops a row.
* `DispositionsAreTold`: `[]DispositionsAreSignedOff`; `SubmissionsAreTold`:
  `[]SubmissionsAreSignedOff`. Both count rows that nothing tells. A put tells its
  own row, by the record that its handler then owes, and a row, once told, stays told
  unless another put takes its place, which is told in turn or a death takes the
  record with it: one row for one death (`StepsOnRecords`, `AtMostLost`). That a
  submission is not recorded twice is because a handler enters a row only when none
  has its id, and owes one record for it (`EnteredOnce`).

And under `OneAtATime` (`Workers` has at most one member; people, reviews, requests,
failures and redeployments are still unbounded), which the runs with two threads
show to be needed:

* `TerminalStays`: `TerminalIsFinal`; `RoutingOnlyTightens`: `RoutingRatchets`. What
  a handler is about to put continues a row that is still open
  (`DraftsAreCurrent`), the very thing that a second handler's put would spoil.
* `ApprovalsStayStored`: `[]AllowedApprovalsAreStored`. An approval that is on the
  trail, or is to be written, is on the row or, before the put, on the draft
  (`ApprovalsAreBacked`).

Its last section proves `LedgerKept` (`KeepsLedger`), under `Workers = {Worker}`
(the ledger's mapping names that one thread): every step of the console is, through
the mapping of `ConsoleLedger`, a step of `SignOffLedger` or a stutter, until a
handler dies. What it adds is that the item and the record
that a handler holds between its load and its put are one verdict, in the ledger's
terms, on a row that is still open (`DraftsAreVerdicts`).

`CaseWorkflowProofs` proves, for any number of threads, cases and people, any
workflow definitions and any failures, that `Spec` implies

* `HistoriesAreWalks`: `[]HistoryIsWalk`
* `TenantsApart`: `[]TenantsStayApart`
* `HandOffsTold`: `[]HandOffsAreTold`

from `EngineAssumption` and `WorkflowAssumption`. `WInv` extends both properties
to the effects that handlers have still to perform: a plan is a sequence of effects that
are all in the name of one tenant and about one case, by a caller of that tenant
(`Plan`), and that case is stored already or the plan begins by storing it (`Founded`),
so that a death after any effect leaves none without its case; no put drops a row
(`PutKeepsRows`). It is also what makes overwritten rows harmless here: a put replaces a legal
walk by a legal walk, even when it drops an entry. `MovedSound` says that a legal
move extends a walk by one edge.

For the hand-offs the shape of a plan tells what was done of it: one that begins
with an announcement has recorded its escalation, one that begins with a hand-off
has announced it too, and nothing else that is left escalates (`Shaped`). With the
handlers that stand at either place the three counts balance, up to the handlers
that died (`Balanced`). The counts are cardinalities of sets of positions, so that a
step adds one element to one of them; `WorkflowAssumption` makes `Workers` finite.

* `WellTyped`: `[]TypeOK`, for any number of threads too, now that `BusinessClockProofs`
  says that a due instant is a number; what is scheduled is a clock that has started.

Under `Serial` (one handler at a time, whose requests, failures and callbacks are
unbounded) it proves what a second handler's put would spoil:

* `SerialInvariance`: `[]SInv`. A plan under way is what is left, after some number of
  effects, of one of four decisions (`Opening`, `Moving`, `Evaluating`, `Refusing`), and
  that decision is about the row as it is stored: before the put the row is the one that
  was loaded, after it the one that was put. The rest of this part is read off it.
* `HistoriesAreReplayed`: `[]TrailReplaysHistory`. The moves that the trail tells of a case
  are those of its history in their order, but for the one whose record the handler still
  owes (`Owing`) and one for each handler that died (`Replayed`, `ReplayInvariance`).
* `BreachesLast`: `BreachesStay`. A clock is anchored at the first entry into its start
  state, and a move only appends, so no move shifts a due instant.
* `TimersAreKept`: `[]TimersFollowCases`. Apart from cases of dead handlers and the one
  whose timers the plan is setting or cancelling (`Excused`), timers are those of open
  cases (`TInv`). This one needs `OrderlyWorkflows` as well, which the attempt at the
  proof found: a case that may leave its end has had its timers cancelled, one that opens
  at its end is given timers, and of two clocks whose names make one task id the second's
  timer replaces the first's. `validate_transition` and the registry check none of these.

`WInv` also carries `SoundReview`: a hand-off that a handler has planned names a
principal or the engine as maker, a severity and a tenant of the types that the
console accepts. `EscalationProofs` uses it to prove, of the composition and again
for any number of threads, cases, reviews and failures,

* `KeepsEngine`: `System => Spec`; with the hand-off worked out, no case, trail,
  timer or event goes another way than in `CaseWorkflow`
* `ConsoleIsKept`: `System => KeepsConsole`, that is `Console!Spec`; every step is a
  step of `ReviewConsole` or none. `HandOver` is its `Submit` by the thread, with the
  planned request (`HandOverSubmits`); the theorems of `ReviewConsoleProofs` are about
  any behaviour of that specification, hence about escalated reviews too.
* `EscalationsAreReviewed`: `System => []EachEscalationIsReviewed`. A hand-off adds a
  row under an id that no review has had and nothing else adds or drops one: a
  disposition's outcome takes the place of the row that it was loaded from
  (`DeskInv`). So the reviews of a case are as many as its hand-offs (`OneForEach`),
  and those balance with its escalations.

* `MoversAreMakers`: under `Serial`, `System => []MoversDoNotCheck`. While no handler has
  died, every move is on the trail by the time an evaluation records its escalation,
  because the plan of the move is over (`RInv` above); so the last mover of the history,
  whom `evaluate_case` makes the maker, is the last that the trail tells before that entry
  (`MInv`). The console changes no maker, and lets none approve (`EyesInv`).

`BusinessClockProofs` is about the arithmetic, for every day, length, division of the day
and finite set of holidays:

* `AddBusinessDaysReaches`: the walk ends on the first day, from its start on, up to which
  `n` business days have passed.
* `BusinessDaysBetweenCounts`: the signed count is the number of business days between.
* `RemainingFromAnchor`: at the anchor as many days remain as the clock lasts, so the two
  walks are each other's inverse.

A recursive function is a choice of one that satisfies its equation. So each is first
shown to exist (`WalkIsThere`, `CountIsThere`) and then every one that satisfies the
equation to be that one (`WalkEnds`, `CountCounts`), by the least number that is an
exception (`LeastOfNaturals`): the library's induction theorems take an operator. The walk ends because a
finite set of holidays has a last one, after which a week has five business days:
`EngineAssumption` and `WatchAssumption` say finite, as a `frozenset` is.

`ClockWatchProofs` proves from that, `TicksAssumption` and `WatchAssumption`, for all
anchors, durations, warn ratios, finite holidays and any horizon, each property of
`clock_watch`: `DueIsDefined` (`DueAsDefined`), `CountAgrees` (`CountMatchesBreach`),
`OnlyWorsens` (`StatusOnlyWorsens`) and `BreachesAreAnnounced` (`BreachIsAnnounced`). The
pairs in `RoundedUp` are arbitrary, so the last two do not depend on where floats round.

`PostureProofs` proves of every set of environments and requests, from
`PostureAssumption`, `EnvironmentAssumption`, `RequestAssumption` and
`GenuineAssertions`, each property of the `posture` run: `ExposureNeedsConsent`,
`NobodyIsImpersonated`, `DataIsSound`, `BoundsAlwaysAgree`, `TokenIsForServices`. The
invariant (`PostureInvariance`) says that a serving process decided from an
environment it did not refuse, and that an answer is the one due to the pending
request. The rest is about pure operators: only `gcp` and `platform` are verified
(`VerifyingProfiles`), a verified assertion names its sender (`VerifiedNamesSender`),
an admitted caller is in the reviewed list, whose entries are service accounts
(`CallersAreAccounts`), and no decision at boot reads the token (`TokenDecidesNothing`).

`ContainerProofs` proves, from `ContainerAssumption` (ids of instances are not the
database's name, keys are not sentinels), for any number of threads, requests and
restarts, each property of the `container` run:

* `HandlersMeet`: `[]EndUserHandlersMeet`. The invariant (`StagesKept`) is about what a
  handler has still to look up: first the container for its principal, then the
  container for itself, then only ports. After the first a container is cached, and
  nothing but a restart takes it away, so the second meets that one.
* `AcknowledgedStays`: `[]AcknowledgedIsQueued`. A thread stands at a place of its
  route with the instances of that place on its evaluation stack (`PlacesKept`), so
  what it ends with is a console of some store, and every store's contents are those
  of the database, which has one row for a key (`QueueKept`).
* `WarmRecordsAreKept`: `[]WarmRecordsStay`. Once every port of the cached container is
  there and nobody is about to replace one (`Settled`), handlers that start hold
  cached instances only (`WarmthKept`), and a restart is the end of it.

`QueueUIProofs` proves, from `PageAssumption`, for any personas, colleagues, waiting
reviews and number of clicks, both properties of the `queue` run:

* `DecisionsWerePressed`: `[]DecisionsArePressed`. A request that is under way carries a
  persona and a decision that were pressed together (`CallsArePressed`); what the page
  has become when it is served or answered does not enter.
* `QueueIsOfActor`: `[]QueueFollowsActor`. Of the requests for the queue the last carries
  the persona of right now (`LastIsOfActor`), since each change of the page sends a
  later one. What the page was told is resolved is stored as resolved, or has been reopened
  by the put of a decision that was loaded before (`ToldIsOver`, `OverStays`); so it is
  in a queue that is served afterwards only in the second case.

Only model-checked: liveness (`EventuallySignedOff`, `EscalationsReachAHuman`,
`BreachesAreNotMissed`), which the prover does not do. Of the theorems under `Serial` or
`OneAtATime` nothing is claimed with several handlers; where the runs with two threads
refute them, section 4 says so.

## 6. Not modelled

The CLI, on-premises placeholders, terraform, evaluation and scripts have no state
machine: the CLI runs one command of the same services per process, the
placeholders raise. Redaction and the hash chain are shared libraries. Request
validation, the views of the reads and serialisation do not change state; in
particular reads project the active floor onto terminal items too
(`console_service.py:203`), which no property is about. The queue's
retries count as one delivery and its delete-then-create as one step, and what
Pub/Sub does with events is outside. The page's first load and its headers are
left out. Identity is resolved in `Posture` and given as principals elsewhere, and
the threads of every module but `Container` share one instance of each port, as
they do once a process is warm.
