CONSTANTS
  Half = 4
  Bases = {10, 20}
  MaxLen = 3
  c = c
  w = w
  AVar = {c, w}
  EltOf <- MCEltOf
  PVar = {p}
  Ints <- MCInts
SPECIFICATION Spec
INVARIANTS TypeOK Described AccessSafe SingletonSafe SpatialSound
CHECK_DEADLOCK FALSE
