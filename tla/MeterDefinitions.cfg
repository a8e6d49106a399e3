SPECIFICATION DSpec
CONSTANTS
  alpha = alpha
  beta = beta
  Names <- MCNames
  Schedules = {"s"}
  MaxTypes = 1
  MaxMeters = 2
  MaxLines = 6
SYMMETRY Symmetry
INVARIANTS
  OptionsInherited
  CountsExact
  HandlesKnown
  NamesFindOne
CHECK_DEADLOCK FALSE
