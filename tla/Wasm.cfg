CONSTANTS
  Modules <- Small
  LEB_BASE = 4
  MaxInstrs = 5
SPECIFICATION Spec
INVARIANTS
  TypeOK
  StillValid
  SameExecution
PROPERTIES
  Termination
CHECK_DEADLOCK FALSE
