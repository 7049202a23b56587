SPECIFICATION Spec
CONSTANTS
    Names = {"a", "b"}
    Tokens = {"b"}
    Callers = {"c1"}
    InitZip <- MCInitZip
    LinkTargets <- MCLinkTargets
    CallPaths <- MCCallPaths
    MaxMembers = 3
    MaxLen = 1
INVARIANTS ArchiveInStep QueriesAgree
PROPERTY StaleOnlyWhenOvertaken
CHECK_DEADLOCK FALSE
