SPECIFICATION Spec
CONSTANTS
    NTests = 3
    Processes = 2
    StopOnFirstError = TRUE
    Fixtures <- NoFixtures
    MaxChunks <- Quiet
    Fates = {"exit"}
    Faults = {"pipe", "fork", "memory", "read", "interrupt", "init"}
INVARIANTS
    NeverAborts
    NoStrayKill
    AccountsBalance
PROPERTIES
    NoStartAfterFailure
