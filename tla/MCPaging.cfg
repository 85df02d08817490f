SPECIFICATION Spec
CONSTANTS
  MAX_PAGES = 9
  PAGE_SIZE = 3
  U64 = 64
  None = None
  E = 3
  G = 1
  KPML4 = 6
  KPDPT = 7
  KPD <- mcKPD
  MemoryMap <- mcMemoryMap
  Virts <- mcVirts
  Targets <- mcTargets
  Touched <- mcTouched
  MaxHeld = 2
  Junk <- mcJunk
INVARIANT FramesAccounted
INVARIANT MapPageMaps
PROPERTY SpaceSpec
INVARIANT TlbCoherent
