CONSTANTS
    DnsServers = {dnsA}
    DefaultDns = dnsA
    NoDns = NoDns
    MaxObjects = 2
    MaxStarts = 2
    MaxStops = 1
    MaxTaps = 0
    MaxRevokes = 0
    MaxKills = 0
    TogglesKillSwitch = FALSE
    QuickConnect = FALSE
    CanWedge = FALSE
SPECIFICATION Spec
PROPERTIES ConnectHonest
\* The bounds run out, and a service nobody calls stays as it is.
CHECK_DEADLOCK FALSE
