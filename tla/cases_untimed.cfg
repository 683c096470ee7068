\* A clock that starts after the case was opened.
SPECIFICATION Spec
CONSTANTS
    ana = ana  mia = mia  eve = eve  timer = timer  t1 = t1  t2 = t2
    TicksPerDay = 1  RoundedUp = {}
    NotStarted = NotStarted  NoState = NoState  Nobody = Nobody  CaseEngineId = CaseEngineId
    Actors = {ana, mia, eve, timer}
    Tenants = {t1, t2}
    Severities = {high}
    CaseIds = {c1}
    States <- MCStates
    ClockNames <- MCClockNames
    TaskName <- MCTaskName
    Definitions <- MCReply
    Holidays = {}
    Workers = {w1}
    Principals <- MCOne
    CallbackPrincipal = Nobody
    Horizon = 2
    MaxRequests = 3
    MaxFailures = 0
INVARIANTS RunningClocksAreTimed
\* The horizon and the bound on requests end the run.
CHECK_DEADLOCK FALSE
