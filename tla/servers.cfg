CONSTANTS
    Concurrency = 2
    TimeoutMs = 2
    Backstop = 3
    Null = Null
    Payloads <- Documents
    Editions <- Later
    UserInfo <- Quota
    Options <- Configured
    Load = {l1, l2}
    MaxLoads = 2
    MaxPings = 1
SPECIFICATION FairSpec
INVARIANTS ProbedOnce LatencyIsOwn TestInTime NothingLost ReferencesResolve DialsAsMeant
PROPERTIES ShownSorted PingEnds
\* The bounds run out.
CHECK_DEADLOCK FALSE
