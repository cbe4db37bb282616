SPECIFICATION Spec
CONSTANTS
    s1 = s1
    s2 = s2
    SessionId = {s1}
    N = 2
    SessionOf <- OneSession
    MaxPending = 2
    MaxCrashes = 1
    Client = client
    Unawaited = unawaited
    Nobody = nobody
INVARIANTS
    IdleIsSafe
CHECK_DEADLOCK FALSE
