CONSTANTS
  Classes <- Small
SPECIFICATION Spec
INVARIANTS
  TypeOK
  SameExecution
  Verifies
CHECK_DEADLOCK FALSE
