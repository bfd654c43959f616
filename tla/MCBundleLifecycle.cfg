CONSTANTS
  b1 = b1  b2 = b2  t1 = t1  t2 = t2
  Bundles = {b1, b2}
  Threads = {t1, t2}
  MaxDepth = 2
  MaxCalls = 3
  MaxThrows = 1
  MaxServices = 1
SPECIFICATION Spec
INVARIANTS
  SettledBetweenCalls
  StoppedOwnsNothing
  ActivatorsStopped
PROPERTIES
  CallsEnd
CHECK_DEADLOCK FALSE
