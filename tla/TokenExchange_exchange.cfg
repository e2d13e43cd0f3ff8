SPECIFICATION Spec
CONSTANTS
    Replica = {h1, h2}
    Handler = {h1, h2}
    ReplicaOf <- OwnReplica
    Assertion <- Sources
    ProfileOf <- SourceProfile
    IssuerOf <- SourceIssuer
    SourceId <- SourceIds
    Genuine = {"gha", "foreign", "ci1", "ci2", "nojti", "task", "plain", "session"}
    Admitted = {"gha", "ci1", "ci2", "nojti", "task", "plain", "session"}
    Bound = {"task"}
    Identified = {"gha", "ci1", "ci2", "task", "session"}
    MaxAttempts = 3
SYMMETRY Processes
INVARIANTS OneTokenPerAssertion ReplaysAreRepeats EveryRequestIsCounted
PROPERTIES TokensKeepPromise
