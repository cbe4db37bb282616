SPECIFICATION Spec
CONSTANTS
    Runner = {p1, p2}
    NoRunner = none
    SpecId = {s1}
    N = 1
    SpecOf <- SingleSpecOf
    MaxParallel <- OneAtATime
    Capacity = 1
    Lease = 1
    MaxClaims = 2
    MaxCrashes = 1
INVARIANTS
    NoOrphanRow
    SessionOfLastClaim
    SessionReleased
PROPERTIES
    OutcomeByHolder
    ImplementsLedger
