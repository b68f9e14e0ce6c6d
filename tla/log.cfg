SPECIFICATION Spec
CONSTANTS
    Align = 2
    ArenaHeader = 1
    NodeHeader = 3
    SizeMax = 127
    MallocMax = 32
    Logs = {"out", "err"}
    ChunkSizes = {1, 3}
    Tables <- SomeTables
    StepParts <- SomeParts
    InitialCapacity = 8
    Parsed = {3, 9}
    MaxLength = 4
INVARIANTS
    TypeOK
    NeverAborts
    BlocksApart
    StepIsAssembled
PROPERTIES
    ImplementsTexts
CHECK_DEADLOCK FALSE
