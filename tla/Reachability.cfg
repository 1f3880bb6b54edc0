SPECIFICATION FairSpec
CONSTANTS
  main = main
  f = f
  g = g
  h = h
  start = start
  NoFunc = NoFunc
  MinDeadSize = 2
  Names <- MCNames
  RUNTIME_KEEP <- MCRuntimeKeep
  FuncMaps <- FlatMaps
  RefSets <- MCRefSets
  WordSets <- MCWordSets
  ManagedSets <- MCManagedSets
INVARIANTS
  TypeOK
  LiveClosed
  LiveLeast
  NoReachedCodeRemoved
PROPERTIES
  Termination
