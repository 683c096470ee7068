\* One handler at a time, redeployments, a failure.
SPECIFICATION Spec
CONSTANTS
    ana = ana  ben = ben  eve = eve  t1 = t1  t2 = t2
    approver = approver  desk = desk  high = high  low = low
    NoGroup = NoGroup  NoKey = NoKey  NoChecker = NoChecker
    Actors = {ana, ben, eve}
    Tenants = {t1}
    Groups = {approver, desk}
    ReviewIds = {r1}
    SourceKeys = {k1}
    Severities = {high, low}
    Workers = {w1}
    Principals <- MCTeam
    Policies <- MCThree
    Requests <- MCVaried
    MaxSignOffs = 4
    MaxFailures = 1
INVARIANTS AllowedApprovalsAreStored
PROPERTIES TerminalIsFinal RoutingRatchets KeepsLedger
\* Every review may have been disposed of, and the bounds reached.
CHECK_DEADLOCK FALSE
