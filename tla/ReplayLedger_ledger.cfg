SPECIFICATION Spec
CONSTANTS
    Replica = {h1, h2}
    Handler = {h1, h2}
    ReplicaOf <- OwnReplica
    Name = {1, 2}
    Assertion <- Contenders
    LeaseName <- ContenderName
    IssuedAt <- ContenderIssue
    ExpiresAt <- ContenderExpiry
    Second = 2
    Leeway = 0
    Retention = 8
    MaxDuration = 14
    CallTimeout = 1
    Stall = 0
    Skew = 0
    PageSize = 1
    MaxPages = 2
    MaxTime = 13
    MaxOrphans = 1
SYMMETRY Processes
INVARIANTS AcceptedAtMostOnce IndInv
PROPERTIES RecordsKeptUntilExpiry KeepsPromise
\* The horizon MaxTime ends every behaviour.
CHECK_DEADLOCK FALSE
