SPECIFICATION Spec
CONSTANTS
    Provider = {p1}
    Request = {r1, r2}
    Kid = {k1, k2}
    SoftRefresh = 2
    Retry = 3
    MaxStaleness = 2
    FetchTimeout = 1
    Disconnects = TRUE
    Troubles = {"down", "misconfigured"}
    KeyMemory = 4
    HealthMemory = 0
SYMMETRY RequestsAndKids
INVARIANTS IndInv CachesMirrorIssuers
PROPERTIES WithdrawnKeysExpire ForcedFetchesAreSpaced RefusalsAreInformed
