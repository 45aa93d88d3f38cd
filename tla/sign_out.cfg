CONSTANTS
    DnsServers = {dnsA}
    DefaultDns = dnsA
    NoDns = NoDns
    MaxObjects = 1
    MaxStarts = 0
    MaxStops = 1
    MaxTaps = 1
    MaxRevokes = 0
    MaxKills = 0
    TogglesKillSwitch = FALSE
    QuickConnect = TRUE
    CanWedge = FALSE
SPECIFICATION Spec
PROPERTIES SignOutDisarms
\* The bounds run out, and a service nobody calls stays as it is.
CHECK_DEADLOCK FALSE
