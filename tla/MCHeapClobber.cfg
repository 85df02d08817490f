SPECIFICATION Spec
CONSTANTS
  MAX_PAGES = 18
  PAGE_SIZE = 3
  U64 = 64
  None = None
  E = 3
  G = 2
  KPML4 = 1
  KPDPT = 2
  KPD <- mcKPD
  HEAP_START = 18
  INITIAL_HEAP_SIZE = 9
  EXTEND_CHUNK_SIZE = 9
  MAX_HEAP_SIZE = 24
  MaxLive = 3
  MaxIrqs = 2
  MemoryMaps <- mcMemoryMaps
  Layouts <- mcBigLayouts
  IrqLayouts <- mcIrqLayouts
PROPERTY LiveDataIntact
