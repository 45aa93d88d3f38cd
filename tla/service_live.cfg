CONSTANTS
    DnsServers = {dnsA}
    DefaultDns = dnsA
    NoDns = NoDns
    MaxObjects = 1
    MaxStarts = 1
    MaxStops = 1
    MaxTaps = 1
    MaxRevokes = 0
    MaxKills = 0
    TogglesKillSwitch = FALSE
    QuickConnect = TRUE
    CanWedge = TRUE
SPECIFICATION FairSpec
INVARIANTS PromisesOwed
PROPERTIES ConnectSettles DisconnectSettles StopReleasesTunnel
\* The bounds run out, and a service nobody calls stays as it is.
CHECK_DEADLOCK FALSE
