SPECIFICATION Spec
CONSTANTS
    CallTimeout = 5
    TokenTtl = 120
    Retention = 300
    MaxDuration = 960
    SourceExp <- Sources
INVARIANTS TokensAreYoung
CHECK_DEADLOCK FALSE
