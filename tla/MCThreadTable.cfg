SPECIFICATION TableSpec
CONSTANTS
  Main = m
  Id = {m, a, b}
  NoThread = none
  MaxDisabled = 1
  MaxRecord = 4
  a = a
  b = b
  Ops <- MCOps
INVARIANTS FirstIsLive OwnRecord NoRecordLeak DisabledUntilExit
CHECK_DEADLOCK FALSE
