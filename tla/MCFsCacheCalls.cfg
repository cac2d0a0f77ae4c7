SPECIFICATION CallsSpec
CONSTANTS
    p1 = p1  p2 = p2  p3 = p3
    Proc = {p1, p2}
    NoProc = NoProc
    e1 = e1  e2 = e2  e3 = e3  e4 = e4
    Entry = {e1, e2, e3}
    NoEntry = NoEntry
    n1 = n1  n2 = n2  n3 = n3  n4 = n4
    Name = {n1, n2}
    EntrySize <- Sizes12
    Overhead = 1
    MaxClock = 0
    MaxSize = 2
    Absent = Absent
    MayCrash = FALSE
    Compatible = {p1, p2}
INVARIANTS LoadsWhole
PROPERTIES CallsEnd
CHECK_DEADLOCK TRUE
