SPECIFICATION Spec
CONSTANTS
    p1 = p1  p2 = p2
    Proc = {p1, p2}
    OldCaches <- Old
    Updates <- Assigned
    MaxDeaths = 1
INVARIANTS InsideIsRight
PROPERTIES OthersUndisturbed
CHECK_DEADLOCK TRUE
