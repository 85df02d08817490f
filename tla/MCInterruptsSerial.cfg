SPECIFICATION Spec
CONSTANTS
  Irqs <- mcNoIrqs
  LOG_EVERY = 2
  SelfTestFails <- mcFails
  Faults = 0
  Syscalls = 0
  MaxIrqs = 0
PROPERTY SelfTestPanics
