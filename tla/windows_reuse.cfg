SPECIFICATION Spec
CONSTANTS
    NTests = 3
    Processes = 2
    StopOnFirstError = FALSE
    Fixtures <- NoFixtures
    MaxChunks <- Quiet
    Fates = {}
    Faults = {"client", "open"}
    Habits = {}
CONSTRAINTS
    OneHangs
INVARIANTS
    OnePacketPerPipe
    NoAbort
    NobodyLost
    OneResultEach
    CountersAgree
PROPERTIES
    ActsAsRunner
