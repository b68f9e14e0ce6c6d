SPECIFICATION FairSpec
CONSTANTS
    NTests = 3
    Processes = 2
    StopOnFirstError = FALSE
    Fixtures <- NoFixtures
    MaxChunks <- Quiet
    Fates = {"stop"}
    Faults = {"fork", "pipe", "interrupt"}
INVARIANTS
    NoTestForgotten
    NoFalseTimeout
    AliveIsWatched
PROPERTIES
    ImplementsRunner
    RunEnds
    LimitIsEnforced
