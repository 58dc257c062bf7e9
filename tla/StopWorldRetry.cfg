SPECIFICATION FairSpec
CONSTANTS
  Main = m
  Id = {m, a, b}
  NoThread = none
  MaxDisabled = 1
  MaxRecord = 3
  RetrySignals = {TRUE}
  MaxStops <- MCTwoStops
  MaxLost = 0
  a = a
  b = b
  Ops <- MCOps
INVARIANTS StacksCovered
CHECK_DEADLOCK FALSE
