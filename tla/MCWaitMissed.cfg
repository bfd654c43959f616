CONSTANTS
  t1 = t1  t2 = t2
  Threads = {t1, t2}
  MaxItems = 1
  MaxOpens = 1
  MaxCalls = 2
  MaxObjects = 1
SPECIFICATION Spec
PROPERTIES
  CloseWakesWaiter
CHECK_DEADLOCK FALSE
