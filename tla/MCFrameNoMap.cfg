SPECIFICATION Spec
CONSTANTS
  MAX_PAGES = 5
  PAGE_SIZE = 2
  U64 = 16
  None = None
  MemoryMaps <- mcMemoryMaps
  Addresses <- mcAddresses
  Counts <- mcCounts
INVARIANT NoMapMeansAllAvailable
