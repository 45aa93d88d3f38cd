CONSTANTS
    tagA = tagA
    tagB = tagB
    dirA = dirA
    dirB = dirB
    chainA = chainA
    chainB = chainB
    only = only
    Direct = {dirA, dirB}
    Chained = {chainA, chainB}
    Only = {only}
    Raw = {}
    Olcrtc = {olcA}
    None = None
    Poll = {}
    Chunk = {}
    Races = {}
    Tags = {tagA, tagB}
    TagOf <- Tag_
    DirectOf <- Direct_
    ChainedOf <- Chained_
    OverHold = TRUE
    MaxCalls = 2
    MaxPolls = 0
    MaxWorld = 1
    MaxBytes = 0
    MaxTaps = 2
    MaxReloads = 1
SPECIFICATION AppSpec
INVARIANT HoldNeverConnected
\* The bounds run out.
CHECK_DEADLOCK FALSE
