SPECIFICATION Spec
CONSTANTS
    Clients = {c1}
    Openers = {}
    Drainer = drainer
    Stoppers = {s1}
    Prompts = {a, b}
    MaxPending = 2
    Nobody = nobody
SYMMETRY Symmetry
INVARIANTS
    TypeOK
    OneRun
    AbortForwarded
    QueueWaitsForReason
PROPERTIES
    OneDrainAtATime
    QueueInOrder
CHECK_DEADLOCK FALSE
