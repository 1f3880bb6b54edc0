CONSTANTS
  Classes <- HandlerClasses
SPECIFICATION Spec
INVARIANTS
  SameExecution
CHECK_DEADLOCK FALSE
