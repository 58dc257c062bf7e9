CONSTANTS
  N = 4
  s = s
  t = t
  STATIC = s
  STACK = t
  KindOf <- MCKindOf
  MayPoint <- MCMayPoint
  PerBlock = 2
  NearlyFull = 1
  GC_n_kinds = 3
  FreeKinds = {1}
  Thread = {t1, t2}
  t1 = t1
  t2 = t2
  none = none
SPECIFICATION FairSpec
INVARIANTS OneOwner SweepSafe UncollectableMarked
PROPERTIES HeapSpec FreeStaysFree Returns
