SPECIFICATION Spec
CONSTANTS
    NTests = 2
    Processes = 1
    StopOnFirstError = FALSE
    Fixtures <- MixedFixtures
    MaxChunks <- OneLine
    Fates = {"exit", "signal", "stop", "loadError"}
    Faults = {"read", "poll"}
INVARIANTS
    TypeOK
    VerdictMatchesEnd
    StepIsWhereItEnded
    OutputIsComplete
    LogsBelongToSlot
    ReportedAtMostOnce
