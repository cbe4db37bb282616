SPECIFICATION Spec
CONSTANTS
    MaxRuns = 2
    MaxRevision = 1
    MaxCrashes = 0
INVARIANTS
    RefusedOnlyIfActive
CHECK_DEADLOCK FALSE
