SPECIFICATION Spec
CONSTANTS
    Clients = {c1}
    Openers = {}
    Drainer = drainer
    Stoppers = {}
    Prompts = {a}
    MaxPending = 1
    Nobody = nobody
INVARIANTS
    AbortReaches
CHECK_DEADLOCK FALSE
