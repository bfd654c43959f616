SPECIFICATION Spec
CONSTANTS
    Threads = {t1, t2}
    Workers = {w1, w2}
    Services = {s1}
    Props = {Empty, p}
    Empty = Empty
    NONE = NONE
    MaxCalls = 5
    MaxThrows = 1
INVARIANTS
    LatestIsTold
    UsesLiveAdmin
PROPERTY
    UninstallKeepsChanges
SYMMETRY Symmetry
CHECK_DEADLOCK FALSE
