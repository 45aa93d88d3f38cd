CONSTANTS
    olcA = olcA
    olcB = olcB
    olcBad = olcBad
    Config = {olcA, olcB, olcBad}
    NoConfig = NoConfig
    Unparsable = {olcBad}
    Port <- PortOf
    Stopper = {s1, s2}
    NoThread = NoThread
    Retries = 2
    MaxCalls = 4
    MaxTaps = 2
SPECIFICATION FairSpec
INVARIANTS MirrorsTruthful NoStaleRunning
PROPERTIES DialsLivePort TeardownEnds
\* The bounds run out.
CHECK_DEADLOCK FALSE
