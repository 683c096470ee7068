\* Producers deliver again, two tenants, two threads, a failure.
SPECIFICATION FairSpec
CONSTANTS
    ana = ana  ben = ben  eve = eve  t1 = t1  t2 = t2
    approver = approver  desk = desk  high = high  low = low
    NoGroup = NoGroup  NoKey = NoKey  NoChecker = NoChecker
    Actors = {ana, ben, eve}
    Tenants = {t1, t2}
    Groups = {approver, desk}
    ReviewIds = {r1, r2}
    SourceKeys = {k1}
    Severities = {high, low}
    Workers = {w1, w2}
    Principals <- MCTwoTenants
    Policies <- MCShipped
    Requests <- MCLow
    MaxSignOffs = 2
    MaxFailures = 1
INVARIANTS OneReviewPerSourceKey SubmissionsAreSignedOff 
PROPERTIES RequestsAreKept EventuallySignedOff
\* Every review may have been disposed of, and the bounds reached.
CHECK_DEADLOCK FALSE
