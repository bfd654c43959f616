CONSTANTS
  b1 = b1  t1 = t1  t2 = t2
  Bundles = {b1}
  Threads = {t1, t2}
  Frames <- TwoThreadsOneNested
  MaxObjects = 3
SPECIFICATION Spec
INVARIANTS
  CachedIsCounted
  HolderKeepsService
  ReleasedOnceWhileAvailable
  UnregisterReturnsObjects
