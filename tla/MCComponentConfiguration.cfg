SPECIFICATION Spec
CONSTANTS
    Threads = {t1, t2}
    Refs = {r1, r2}
    MaxCalls = 4
    MaxFailures = 1
INVARIANTS
    LatchExcludes
    SettledWhenQuiet
PROPERTY
    CallsEnd
CHECK_DEADLOCK FALSE
