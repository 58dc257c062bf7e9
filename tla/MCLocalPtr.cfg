CONSTANTS
  StackTop = 9
  StackLimit = 2
  MaxDepth = 3
  FrameSizes = {2}
  Header = 1
  HeapAddr = {1}
  LVar = {v}
  PVar = {p}
SPECIFICATION Spec
INVARIANTS TypeOK BoundSeparates Contained
PROPERTY CheckedAssign
CHECK_DEADLOCK FALSE
