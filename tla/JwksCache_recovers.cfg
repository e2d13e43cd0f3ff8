SPECIFICATION FairSpec
CONSTANTS
    Request = {r1}
    Kid = {k1, k2}
    SoftRefresh = 3
    Retry = 2
    MaxStaleness = 7
    FetchTimeout = 1
    Disconnects = TRUE
    KeyMemory = 0
    HealthMemory = 6
INVARIANTS ReadyWhileHealthy
PROPERTIES ForcedFetchesAreSpaced SettlesOnPublishedKeys
