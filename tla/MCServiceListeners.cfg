CONSTANTS
  l1 = l1  l2 = l2  c1 = c1  c2 = c2  A = A  B = B  t1 = t1  t2 = t2
  NoFilter = NoFilter  WILDCARD = WILDCARD  NoContext = NoContext
  Threads = {t1, t2}
  Listeners = {l1, l2}
  Contexts <- TwoContexts
  Services = {1}
  Classes = {A, B}
  Exprs <- SomeExprs
  Filters <- SomeFilters
  Attr = "p"
  Values = {0, 1}
  MaxCalls = 4
SYMMETRY Symmetric
SPECIFICATION Spec
INVARIANTS
  LookupFindsMatching
  ListenersKnowServices
  HookKnowsListeners
CHECK_DEADLOCK FALSE
