CONSTANTS
  t1 = t1  t2 = t2  t3 = t3
  Threads = {t1, t2, t3}
  Names = {"a", "b"}
  MaxArchives = 6
  MaxRemovals = 2
  MaxThrows = 1
SPECIFICATION Spec
INVARIANTS
  EntryIsCounted
  InstalledOnce
  ArchivesOfBundles
PROPERTY
  WaiterReturns
