SPECIFICATION Spec
CONSTANTS
  NoFunc = NoFunc
  MinDeadSize = 1
  TextStart = 1
  TextEnd = 8
  MAX_TABLE_ENTRIES = 3
  InitCode = {20}
  Names <- MCNames
  RUNTIME_KEEP <- MCRuntimeKeep
  Images <- MCImages
INVARIANTS
  BoundariesExact
  ReachedKept
CHECK_DEADLOCK TRUE
