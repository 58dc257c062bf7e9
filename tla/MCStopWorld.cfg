SPECIFICATION FairSpec
CONSTANTS
  Main = m
  Id = {m, a, b}
  NoThread = none
  MaxDisabled = 1
  MaxRecord = 3
  RetrySignals = {TRUE, FALSE}
  MaxStops <- MCMaxStops
  MaxLost = 1
  a = a
  b = b
  Ops <- MCOps
INVARIANTS StacksCovered NoStaleAck
PROPERTIES StopsTheWorld Stops Resumes
CHECK_DEADLOCK FALSE
