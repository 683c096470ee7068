\* Two threads, a failure, two revisions with different floors.
SPECIFICATION Spec
CONSTANTS
    ana = ana  ben = ben  eve = eve  t1 = t1  t2 = t2
    approver = approver  desk = desk  high = high  low = low
    NoGroup = NoGroup  NoKey = NoKey  NoChecker = NoChecker
    Actors = {ana, ben, eve}
    Tenants = {t1}
    Groups = {approver, desk}
    ReviewIds = {r1}
    SourceKeys = {}
    Severities = {high, low}
    Workers = {w1, w2}
    Principals <- MCTeam
    Policies <- MCMixed
    Requests <- MCHigh
    MaxSignOffs = 3
    MaxFailures = 1
SYMMETRY WorkerSymmetry
INVARIANTS TypeOK FourEyes Quorum ApproversEntitled DispositionsAreSignedOff
\* Every review may have been disposed of, and the bounds reached.
CHECK_DEADLOCK FALSE
