SPECIFICATION FairSpec
CONSTANTS
    Session = {s1}
    Client = {c1, c2}
    Owner <- OneOwner
    Parallel = TRUE
    N = 2
INVARIANTS
    TypeOK
    ToldTheTruth
    EveryoneAsked
PROPERTIES
    ParkedTurnsEnd
