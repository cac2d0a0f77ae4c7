SPECIFICATION Spec
CONSTANTS
    p1 = p1  p2 = p2
    s1 = s1  s2 = s2
    Proc = {p1, p2}
    Store = {s1, s2}
    Items = 2
    NR_RETRYS = 2
    Calls <- SomeCalls
INVARIANTS CacheVerified ToldRight
PROPERTIES CallsEnd
CHECK_DEADLOCK TRUE
