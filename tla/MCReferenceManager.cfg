SPECIFICATION Spec
CONSTANTS
    t1 = t1
    t2 = t2
    Threads = {t1, t2}
    Services = {1, 2, 3}
    Own = 2
    None = None
    MaxCalls = 6
SYMMETRY Symmetry
INVARIANTS BindsBest ComponentKnows
CHECK_DEADLOCK FALSE
