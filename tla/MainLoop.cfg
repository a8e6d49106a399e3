SPECIFICATION PSpec
CONSTANTS
  a = a
  d = d
  f = f
  MeterList <- MCMeterList
  FormulaOnly <- MCFormulaOnly
  MqttMeters <- MCMqttMeters
  StatPrefix = TRUE
  Enabled <- MCEnabled
  Queried <- MCQueried
  Fields <- MCFields
  NameLen = 6
  InitialSize = 8
  MaxDryrun = 2
INVARIANTS
  ConnectionConsistent
  LinesComplete
  GrafanaDelivered
  BrokerCurrent
  DryrunSendsNothing
PROPERTIES
  Recovers
CHECK_DEADLOCK FALSE
