SPECIFICATION DSpec
CONSTANTS
  alpha = alpha
  beta = beta
  Names <- MCNames
  Schedules = {}
  MaxTypes = 1
  MaxMeters = 1
  MaxLines = 4
INVARIANT MqttformatInherited
CHECK_DEADLOCK FALSE
