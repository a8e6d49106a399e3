CONSTANTS
  Meters = {"sym", "rtu", "logo", "box"}
  TcpMeters = {"sym", "logo", "box"}
  CloseAfterQuery = {"logo"}
  SunspecMeters = {"sym"}
  HostOf <- McHostOf
  Offset <- McOffset
  InitWrites <- McInitWrites
  Blocks <- McBlocks
  Regs <- McRegs

SPECIFICATION FairSpec

INVARIANTS
  NoUseAfterClose
  ReadComplete
  ErrorsCounted
  ValuesScaled
PROPERTY
  ReadAgain

CHECK_DEADLOCK FALSE
