SPECIFICATION Spec
CONSTANTS
    ArgumentVectors <- CommandLines
    Dashed <- AllDashed
    Attached <- AttachedJobs
    Jobs <- SomeJobs
    Limits <- SomeLimits
    Faults = {"arena", "strings", "status", "input", "output", "parse", "run"}
    MaxTests = 2
    OldFiles = {0, 5}
INVARIANTS
    ArgumentsAsGiven
    AllReleased
    FailureIsTold
PROPERTIES
    OldFileIsKept
CHECK_DEADLOCK FALSE
