SPECIFICATION FairSpec
CONSTANTS
  None = None
  Torn = Torn
  MaxEdits = 1
  Paths <- MCPaths
  At <- MCAt
  Link <- MCLink
  Disks <- MCDisks
  ArgLists <- MCArgLists
INVARIANTS
  TypeOK
  SuccessMeansWhole
  ErrorsIsolated
  Delivered
PROPERTIES
  DryRunReadOnly
  Termination
