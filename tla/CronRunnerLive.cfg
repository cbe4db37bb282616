SPECIFICATION FairSpec
CONSTANTS
    Runner = {p1}
    NoRunner = none
    SpecId = {s1}
    N = 1
    SpecOf <- SingleSpecOf
    MaxParallel <- OneAtATime
    Capacity = 1
    Lease = 1
    MaxClaims = 2
    MaxCrashes = 1
PROPERTIES
    StopReturns
    QueuedRunEnds
    SessionEventuallyReleased
