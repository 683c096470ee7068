\* Two threads, two tenants, timers, a failure.
SPECIFICATION Spec
CONSTANTS
    ana = ana  mia = mia  eve = eve  timer = timer  t1 = t1  t2 = t2
    TicksPerDay = 1  RoundedUp = {}
    NotStarted = NotStarted  NoState = NoState  Nobody = Nobody  CaseEngineId = CaseEngineId
    Actors = {ana, mia, eve, timer}
    Tenants = {t1, t2}
    Severities = {high}
    CaseIds = {c1}
    States <- MCStates
    ClockNames <- MCClockNames
    TaskName <- MCTaskName
    Definitions <- MCBrief
    Holidays = {}
    Workers = {w1, w2}
    Principals <- MCTenants
    CallbackPrincipal <- MCCallback
    Horizon = 2
    MaxRequests = 4
    MaxFailures = 1
SYMMETRY WorkerSymmetry
INVARIANTS TypeOK HistoryIsWalk TenantsStayApart HandOffsAreTold
\* The horizon and the bound on requests end the run.
CHECK_DEADLOCK FALSE
