CONSTANTS
  t1 = t1  t2 = t2
  Threads = {t1, t2}
  MaxItems = 2
  MaxOpens = 2
  MaxCalls = 3
  MaxObjects = 2
SYMMETRY Symmetric
SPECIFICATION Spec
INVARIANTS
  NoServiceLost
  NoStaleService
  CloseWaitsForCustomizers
  ClosedIsEmpty
PROPERTIES
  KeepsContract
CHECK_DEADLOCK FALSE
