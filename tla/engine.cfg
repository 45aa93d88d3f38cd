CONSTANTS
    Caller = {c1, c2, c3}
    Fds = {f1, f2}
    NoFd = NoFd
    LockWait = 3000
    StopWait = 2500
    MaxCalls = 4
SPECIFICATION FairSpec
PROPERTIES ImplementsContract StopMeansStopped WaitsEnd
\* Every call was made and has returned, or hangs in Go.
CHECK_DEADLOCK FALSE
