SPECIFICATION FairSpec
CONSTANTS
    s1 = s1
    s2 = s2
    SessionId = {s1}
    N = 4
    SessionOf <- OneSession
    MaxPending = 3
    MaxCrashes = 1
    Client = client
    Unawaited = unawaited
    Nobody = nobody
INVARIANTS
    TypeOK
    InOrder
    NoGhost
    NoneForgotten
    IdleOverlooks
PROPERTIES
    ExecutedOnce
    ImplementsLedger
    AdmittedEnds
CHECK_DEADLOCK FALSE
