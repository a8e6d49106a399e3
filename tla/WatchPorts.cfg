CONSTANTS
  ExitErrorCount = 2
  Ports = {0, 1}
  SerialMeters = {"a", "b", "c"}
  PortOf <- MCPortOf
  TcpMeters = {"t"}
  SunspecMeters = {"b"}

SPECIFICATION FairSpec

INVARIANTS
  AnsweringPortKept

PROPERTY DeadPortGivenUp

CHECK_DEADLOCK FALSE
