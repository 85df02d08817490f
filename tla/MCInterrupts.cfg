SPECIFICATION Spec
CONSTANTS
  Irqs <- mcIrqs
  LOG_EVERY = 2
  SelfTestFails <- mcPasses
  Faults = 1
  Syscalls = 1
  MaxIrqs = 2
INVARIANT NoSelfDeadlock
INVARIANT PicDrained
PROPERTY HandlerReturns
PROPERTY KernelRuns
