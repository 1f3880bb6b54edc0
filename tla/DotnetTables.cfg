CONSTANTS
  NARROW = 65536
  RowCounts <- Typical
  Heaps = {{}, {"strings"}, {"strings", "guids", "blobs"}}
SPECIFICATION Spec
INVARIANTS
  MethodDefFound
CHECK_DEADLOCK FALSE
