SPECIFICATION Spec
CONSTANTS
  Nodes = 4
  Degree = 1
  MAX_DEPTH = 3
INVARIANTS ChainsBounded
CHECK_DEADLOCK FALSE
