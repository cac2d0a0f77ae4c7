SPECIFICATION Spec
CONSTANTS
    p1 = p1  p2 = p2  p3 = p3
    Proc = {p1, p2}
    NoProc = NoProc
    e1 = e1  e2 = e2  e3 = e3  e4 = e4
    Entry = {e1, e2, e3}
    NoEntry = NoEntry
    n1 = n1  n2 = n2  n3 = n3  n4 = n4
    Name = {n1, n2}
    EntrySize <- Sizes1
    Overhead = 0
    MaxClock = 1
    MaxSize = 2
    Absent = Absent
    MayCrash = TRUE
    Compatible = {p1, p2}
SYMMETRY Symm
INVARIANTS LoadsWhole
CHECK_DEADLOCK TRUE
