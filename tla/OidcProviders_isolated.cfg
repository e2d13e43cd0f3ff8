SPECIFICATION Spec
CONSTANTS
    Provider = {p1, p2}
    Request = {r1}
    Kid = {k1}
    SoftRefresh = 1
    Retry = 3
    MaxStaleness = 12
    FetchTimeout = 1
    Disconnects = FALSE
    Troubles = {}
    KeyMemory = 0
    HealthMemory = 12
SYMMETRY Providers
INVARIANTS ProvidersAreIsolated
