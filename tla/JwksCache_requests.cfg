SPECIFICATION Spec
CONSTANTS
    Request = {r1, r2}
    Kid = {k1, k2}
    SoftRefresh = 1
    Retry = 2
    MaxStaleness = 5
    FetchTimeout = 1
    Disconnects = FALSE
    KeyMemory = 7
    HealthMemory = 0
SYMMETRY Requests
INVARIANTS CacheMirrorsIssuer
PROPERTIES WithdrawnKeysExpire RefusalsAreInformed
