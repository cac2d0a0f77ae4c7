SPECIFICATION RunFairSpec
CONSTANTS
    N <- FiveServices
    Uses <- DiskUses
    Asks <- OneInput
INVARIANTS Foundation StageHasAll CleanEnd StoreLeftLast
PROPERTIES RunEnds
CHECK_DEADLOCK TRUE
