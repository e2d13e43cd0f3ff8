SPECIFICATION ReadinessFairSpec
CONSTANTS
    Probe = {p1, p2}
    Public = {p1}
    Key = {"github", "workload"}
    Ttl = 4
    Timeout = 2
    Patience = 1
    NoOne = NoOne
PROPERTIES ReadyIsRecent RecoversInTime EveryProbeEnds
