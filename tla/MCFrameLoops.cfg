SPECIFICATION Spec
CONSTANTS
  MAX_PAGES = 4
  PAGE_SIZE = 2
  U64 = 16
  None = None
  MemoryMaps <- mcMemoryMaps
  Starts <- mcStarts
  Counts <- mcCounts
INVARIANT ClosedFormsAgree
CHECK_DEADLOCK FALSE
