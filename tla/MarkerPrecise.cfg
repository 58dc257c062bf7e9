CONSTANTS
  N = 4
  s = s
  t = t
  STATIC = s
  STACK = t
  KindOf <- MCKindOf
  MayPoint <- MCMayPoint
  ATOMIC_UNCOLLECTABLE = TRUE
  InitialSize = 1
  MaxSize = 2
  Discards = 1
  AtLimit = {0}
SPECIFICATION Spec
INVARIANT InvariantI
