CONSTANTS
  Modules <- NestedModules
  LEB_BASE = 4
  MaxInstrs = 5
SPECIFICATION Spec
INVARIANTS
  StillValid
CHECK_DEADLOCK FALSE
