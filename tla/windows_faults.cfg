SPECIFICATION Spec
CONSTANTS
    NTests = 2
    Processes = 1
    StopOnFirstError = FALSE
    Fixtures <- NoFixtures
    MaxChunks <- OneLine
    Fates = {"exit"}
    Faults = {"init", "command", "connect", "client", "process", "memory", "open"}
    Habits = {"chatter", "spawn"}
INVARIANTS
    TypeOK
    VerdictMatchesEnd
    OutputIsComplete
    LogsBelongToSlot
