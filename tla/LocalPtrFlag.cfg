CONSTANTS
  StackTop = 9
  StackLimit = 2
  MaxDepth = 2
  FrameSizes = {2}
  Header = 1
  HeapAddr = {1}
  LVar = {v}
  PVar = {p}
SPECIFICATION Spec
INVARIANT FlagMeansNotStack
CHECK_DEADLOCK FALSE
