CONSTANTS
    DnsServers = {dnsA, dnsB}
    DefaultDns = dnsA
    NoDns = NoDns
    MaxObjects = 2
    MaxStarts = 1
    MaxStops = 0
    MaxTaps = 1
    MaxRevokes = 1
    MaxKills = 1
    TogglesKillSwitch = FALSE
    QuickConnect = FALSE
    CanWedge = TRUE
SPECIFICATION Spec
INVARIANTS NoClosedFdInUse NoDescriptorLeak DestroyedLeavesNoTunnel
PROPERTIES CaptureNeverLapses ImplementsBus
\* The bounds run out, and a service nobody calls stays as it is.
CHECK_DEADLOCK FALSE
