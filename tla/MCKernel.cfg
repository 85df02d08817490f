SPECIFICATION Spec
CONSTANTS
  MAX_PAGES = 10
  PAGE_SIZE = 2
  U64 = 64
  None = None
  Infos <- mcInfos
  CAP = 2
  FALLBACK = 8
  TextMode <- mcTextMode
  WORD = 2
  WORDS = 3
  HEAP_START = 4
  INITIAL_HEAP_SIZE = 4
  EXTEND_CHUNK_SIZE = 4
  MAX_HEAP_SIZE = 16
  PROCESS_SIZE = 1
  ROUND_SIZE = 2
  ProcessCounts <- mcProcessCounts
  DataLens <- mcDataLens
INVARIANT MapIsLastTag
INVARIANT StatsCoverFrames
INVARIANT PidsAccounted
INVARIANT SyncCoversScreen
PROPERTY BootOutcome
