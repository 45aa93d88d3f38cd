CONSTANTS
    DnsServers = {dnsA}
    DefaultDns = dnsA
    NoDns = NoDns
    MaxObjects = 1
    MaxStarts = 2
    MaxStops = 1
    MaxTaps = 0
    MaxRevokes = 0
    MaxKills = 0
    TogglesKillSwitch = TRUE
    QuickConnect = TRUE
    CanWedge = TRUE
SPECIFICATION Spec
INVARIANTS StreamTruthful FlagsTruthful
PROPERTIES ConnectHonest DisconnectHonest
\* The bounds run out, and a service nobody calls stays as it is.
CHECK_DEADLOCK FALSE
