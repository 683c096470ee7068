\* The callback as the service answers it: a 401.
SPECIFICATION FairSpec
CONSTANTS
    ana = ana  mia = mia  eve = eve  timer = timer  t1 = t1  t2 = t2
    TicksPerDay = 1  RoundedUp = {}
    NotStarted = NotStarted  NoState = NoState  Nobody = Nobody  CaseEngineId = CaseEngineId
    Actors = {ana, mia, eve, timer}
    Tenants = {t1, t2}
    Severities = {high}
    CaseIds = {c1}
    States <- MCStates
    ClockNames <- MCClockNames
    TaskName <- MCTaskName
    Definitions <- MCBrief
    Holidays = {}
    Workers = {w1}
    Principals <- MCOne
    CallbackPrincipal = Nobody
    Horizon = 3
    MaxRequests = 2
    MaxFailures = 0
PROPERTIES BreachesAreNotMissed
\* The horizon and the bound on requests end the run.
CHECK_DEADLOCK FALSE
