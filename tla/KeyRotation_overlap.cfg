SPECIFICATION Spec
CONSTANTS
    Kid = {k1, k2}
    Replica = {r1, r2}
    Tool = {t1, t2}
    Validity = {5}
    Backdate = 1
    TokenTtl = 3
    Threshold = 3
    ProbeLag = 1
    Work = 1
    MaxTime = 8
    MaxSeeds = 3
    None = None
SYMMETRY Processes
INVARIANTS OutstandingTokensVerify TokensBarelyOutliveTheirKey
\* The horizon MaxTime ends every behaviour.
CHECK_DEADLOCK FALSE
