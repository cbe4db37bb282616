SPECIFICATION FairSpec
CONSTANTS
    MaxRuns = 2
    MaxRevision = 2
    MaxCrashes = 1
INVARIANTS
    TypeOK
    InProgressIsServed
    CancelledIsTold
PROPERTIES
    StartsWhatWasApproved
    ImplementsLedger
    DisposeReturns
    InProgressEnds
