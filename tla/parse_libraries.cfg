SPECIFICATION Spec
CONSTANTS
    Align = 16
    ArenaHeader = 24
    NodeHeader = 24
    SizeMax = 65535
    MallocMax = 32767
    Lines <- FiveLibraries
    MaxLines = 5
    Loadable = {"a", "b", "d"}
    FirstCapacity = 4
    FileSize = 24
    TestSize = 48
    FixtureSize = 32
    InitialCapacity = 1024
INVARIANTS
    SymbolsAreLoaded
CHECK_DEADLOCK FALSE
