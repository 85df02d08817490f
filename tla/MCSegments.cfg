SPECIFICATION SegmentsSpec
CONSTANTS
  RADIX = 4
  KERNEL_STACK_LEN = 1024
  IST_STACK0_LEN = 1024
  BOOT_STACK_LEN = 1024
  Layouts <- mcLayouts
  Exceptions <- mcExceptions
  Irqs <- mcIrqs
  Ints <- mcInts
  MaxEvents = 3
CHECK_DEADLOCK FALSE
INVARIANT HandledAfterSetup
INVARIANT FramesInStacks
INVARIANT ReportIsTrue
PROPERTY Resumes
