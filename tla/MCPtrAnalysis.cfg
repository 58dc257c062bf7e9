CONSTANTS
  Vars = {1, 3}
  Funs = {2}
  ParamOf <- MCParamOf
  MaxVisits = 6
SPECIFICATION FairSpec
INVARIANTS Exact DepthBounded AssignSound
PROPERTIES SameInTranslator Terminates
CHECK_DEADLOCK FALSE
