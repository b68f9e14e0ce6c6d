SPECIFICATION Spec
CONSTANTS
    NTests = 2
    Processes = 2
    StopOnFirstError = TRUE
    Fixtures <- NoFixtures
    MaxChunks <- Quiet
    Fates = {"exit"}
    Faults = {}
INVARIANTS
    NothingLeftRunning
