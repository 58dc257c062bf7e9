SPECIFICATION Spec
CONSTANTS
  StackTop = 13
  StackLimit = 3
  MaxDepth = 2
  FrameSizes = {3}
  Header = 1
  HeapBase = 1
  HeapLen = 2
  LVar = {v}
  AVar = {p}
  MaxIndex = 1
INVARIANTS Contained AccessSafe
CHECK_DEADLOCK FALSE
