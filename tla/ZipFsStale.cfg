SPECIFICATION Spec
CONSTANTS
    Names = {"a", "b"}
    Tokens = {"b"}
    Callers = {"c1"}
    InitZip <- MCInitZip
    LinkTargets <- MCLinkTargets
    CallPaths <- MCCallPaths
    MaxMembers = 3
    MaxLen = 1
INVARIANT ReadAfterWrite
CHECK_DEADLOCK FALSE
