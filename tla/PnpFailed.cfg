SPECIFICATION McSpec
CONSTANTS
    Disk <- MCDisk
    Main <- MCMain
    Link <- MCLink
    Native <- MCNative
    Depths <- MCDepths
    Raw <- MCRaw
    Places <- MCPlaces
    Asks <- MCAsks
    Requests <- MCRequests
    Hashes = {"b-0a"}
    Extensions <- MCExtensions
    Apis = {"p", "q"}
    Queries <- MCQueries
    Garbled = "{"
    MaxLines = 3
    Initial = "p"
    MaxLoads = 2
    MaxDepth = 2
    MaxWrites = 2
INVARIANT FailedIsForgotten
CHECK_DEADLOCK FALSE
