SPECIFICATION FairSpec
CONSTANTS
    NTests = 3
    Processes = 1
    StopOnFirstError = FALSE
    Fixtures <- NoFixtures
    MaxChunks <- Quiet
    Fates = {}
    Faults = {"client", "open"}
    Habits = {}
PROPERTIES
    Returns
    LimitKept
