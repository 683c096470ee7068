\* Three personas, two tenants, a colleague elsewhere, three clicks.
SPECIFICATION Spec
CONSTANTS
    ana = ana  ben = ben  eve = eve  kim = kim  dan = dan  t1 = t1  t2 = t2
    approver = approver  desk = desk  high = high
    NoGroup = NoGroup  NoKey = NoKey  NoChecker = NoChecker  Nothing = Nothing
    Actors = {ana, ben, eve, kim, dan}
    Tenants = {t1, t2}
    Groups = {approver, desk}
    ReviewIds = {1, 2, 3, 4, 5}
    SourceKeys = {}
    Severities = {high}
    Personas <- MCPersonas
    FirstPersona <- MCFirst
    Others <- MCOthers
    Policy <- MCPolicy
    Waiting <- MCWaiting
    DemoGroup = desk
    DemoSeverity = high
    MaxClicks = 3
INVARIANTS DecisionsArePressed QueueFollowsActor
\* The bound on clicks ends the run.
CHECK_DEADLOCK FALSE
