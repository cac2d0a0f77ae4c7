SPECIFICATION FairSpec
CONSTANTS
    p1 = p1  p2 = p2
    Proc = {p1, p2}
    NoProc = NoProc
    i1 = i1  i2 = i2  i3 = i3
    Inode = {i1, i2, i3}
    NoInode = NoInode
    MaxSize = 2
    Absent = Absent
    Value <- Infos
    Arg <- Updates
    NoArg = NoArg
    InitValue <- Start
    Accept <- InfoAccept
    Apply <- InfoApply
    MayCrash = TRUE
INVARIANTS ProtectedRegion
PROPERTIES Linearizable NeverInPlace FieldsKept SomeCallReturns
CHECK_DEADLOCK TRUE
