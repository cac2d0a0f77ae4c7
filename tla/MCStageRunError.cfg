SPECIFICATION RunSpec
CONSTANTS
    N <- NoServices
    Uses <- NoUses
    Asks = {}
INVARIANTS ErrorRecorded
CHECK_DEADLOCK TRUE
