SPECIFICATION Spec
CONSTANTS
    NTests = 3
    Processes = 2
    StopOnFirstError = FALSE
    Fixtures <- NoFixtures
    MaxChunks <- Quiet
    Fates = {}
    Faults = {}
    Habits = {}
INVARIANTS
    ReportedAtMostOnce
