SPECIFICATION PortSpec
CONSTANTS
  FIFO_LEN = 2
  Early <- mcEarly
  Late <- mcLate
  Handler <- mcHandler
  Level = 4
  Input <- mcInput
  Byte <- mcByte
  MaxIrqs = 2
INVARIANT LinesIntact
INVARIANT InitLosesTwoBytes
INVARIANT InputIsTheirs
PROPERTY LinesEnd
