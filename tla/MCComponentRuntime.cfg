SPECIFICATION Spec
CONSTANTS
    t1 = t1
    t2 = t2
    w1 = w1
    w2 = w2
    Threads = {t1, t2}
    Workers = {w1, w2}
    Components = 2
    None = None
    MaxCalls = 4
    MaxFailures = 1
INVARIANTS ActiveBundleIsLoaded StoppedBundleIsUnloaded
PROPERTY CallsEnd
CHECK_DEADLOCK FALSE
