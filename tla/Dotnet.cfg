CONSTANTS
  PAGE_SIZE = 4
  Assemblies <- Small
SPECIFICATION Spec
INVARIANTS
  TypeOK
  SameExecution
  RvasFollow
CHECK_DEADLOCK FALSE
