CONSTANTS
  Files = {f1, f2}
  Decls <- MCDecls
  MaxGroups = 2
  MaxDecls = 4
  MaxNodes = 1
  MaxInit = 1
SPECIFICATION Spec
SYMMETRY FileSymmetry
INVARIANT GroupText
PROPERTIES WrittenLast
CHECK_DEADLOCK FALSE
