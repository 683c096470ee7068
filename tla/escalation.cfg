\* One handler at a time, one of which may die; the callback is resolved to a principal of the tenant.
SPECIFICATION FairSystem
CONSTANTS
    ana = ana  ben = ben  timer = timer  t1 = t1  approver = approver  high = high
    TicksPerDay = 1  RoundedUp = {}
    NotStarted = NotStarted  NoState = NoState  Nobody = Nobody  CaseEngineId = CaseEngineId
    NoGroup = NoGroup  NoKey = NoKey  NoChecker = NoChecker
    Actors = {ana, ben, timer}
    Tenants = {t1}
    Severities = {high}
    CaseIds = {c1}
    States <- MCStates
    ClockNames <- MCClockNames
    TaskName <- MCTaskName
    Definitions <- MCWhole
    Holidays = {}
    Workers = {w1}
    Principals <- MCAnalyst
    CallbackPrincipal <- MCCallback
    Horizon = 2
    MaxRequests = 3
    MaxFailures = 1
    Groups = {approver}
    SourceKeys = {}
    ReviewIds = {1, 2, 3, 4}
    Checkers <- MCCheckers
    Policy <- MCPolicy
    MaxSignOffs = 2
INVARIANTS MoversDoNotCheck EachEscalationIsReviewed TrailReplaysHistory TimersFollowCases
PROPERTIES BreachesStay KeepsConsole EscalationsReachAHuman BreachesAreNotMissed
\* The horizon and the bounds end the run.
CHECK_DEADLOCK FALSE
