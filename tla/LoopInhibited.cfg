SPECIFICATION Spec
CONSTANTS
    Minors = {m0, m1}
    Services = {s1, s2}
    Requests = {r1}
    Locking = {s1, r1}
    Legacy = {FALSE}
    MaxMeddling = 1
INVARIANTS InhibitedWhileUsed
CHECK_DEADLOCK TRUE
