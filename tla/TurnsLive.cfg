SPECIFICATION FairSpec
CONSTANTS
    Clients = {c1, c2}
    Openers = {c1}
    Drainer = drainer
    Stoppers = {s1}
    Prompts = {}
    MaxPending = 0
    Nobody = nobody
PROPERTIES
    StopRemoves
    TurnsEnd
    AbortSettles
CHECK_DEADLOCK FALSE
