CONSTANTS
    Direct = {dirA}
    Chained = {chainB}
    Only = {only}
    Raw = {rawC}
    Olcrtc = {olcA}
    None = None
    Poll = {p1}
    Chunk <- Downlink
    Races = {}
    MaxCalls = 2
    MaxPolls = 3
    MaxWorld = 1
    MaxBytes = 2
SPECIFICATION FairSpec
INVARIANTS NeverOverCounts InfoTruthful WaitsOwed
PROPERTIES TotalsNeverShrink CallsSettle SessionThaws
\* The bounds run out.
CHECK_DEADLOCK FALSE
