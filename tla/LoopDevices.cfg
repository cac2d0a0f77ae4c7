SPECIFICATION FairSpec
CONSTANTS
    Minors = {m0, m1}
    Services = {s1, s2}
    Requests = {r1}
    Locking = {s1, r1}
    Legacy = {FALSE, TRUE}
    MaxMeddling = 1
INVARIANTS DeviceIsMine LeftClean
PROPERTIES UsersEnd
CHECK_DEADLOCK TRUE
