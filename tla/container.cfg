\* Two threads at a process's first use, a third request, a restart.
SPECIFICATION Spec
CONSTANTS
    None = None
    Disk = Disk
    Threads = {h1, h2}
    SourceKeys = {k1}
    MaxRequests = 3
    MaxRestarts = 1
SYMMETRY ThreadSymmetry
INVARIANTS AcknowledgedIsQueued EndUserHandlersMeet WarmRecordsStay
\* The bounds on requests and restarts end the run.
CHECK_DEADLOCK FALSE
