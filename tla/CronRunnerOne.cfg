SPECIFICATION Spec
CONSTANTS
    Runner = {p1}
    NoRunner = none
    SpecId = {s1}
    N = 2
    SpecOf <- SingleSpecOf
    MaxParallel <- OneAtATime
    Capacity = 1
    Lease = 1
    MaxClaims = 2
    MaxCrashes = 1
INVARIANTS
    TypeOK
    NoSecondExecution
    StopCancels
    LimitsApply
