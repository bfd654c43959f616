CONSTANTS
  t1 = t1  t2 = t2
  Threads = {t1, t2}
  Classes = {"c"}
  ClassSets = {{"c"}}
  Ranks = {0, 1}
  MaxServices = 3
  MaxSets = 2
SYMMETRY ThreadSymmetry
SPECIFICATION Spec
INVARIANTS
  BestFirstWhenSettled
  ListedIsAvailable
  ClassListsComplete
  UnregisteringOnce
