CONSTANTS
  N = 4
  s = s
  t = t
  STATIC = s
  STACK = t
  KindOf <- MCKindOf
  MayPoint <- MCMayPoint
  ATOMIC_UNCOLLECTABLE = FALSE
  InitialSize = 1
  MaxSize = 2
  Discards = 1
  AtLimit = {0, 3}
SPECIFICATION FairSpec
INVARIANTS TypeOK InvariantI LiveMarked OnlyLiveMarked RootsFit
PROPERTIES HeapSpec Terminates
