CONSTANTS
  NumWorkers = 2
  NumMeters = 5
  LockTries = 2
  TcpMeters <- MCTcpMeters
  FormulaMeters <- MCFormulaMeters
  PortOf <- MCPortOf
  PromptWakeup = TRUE
  SpuriousWakeups = FALSE

SPECIFICATION Spec

INVARIANTS
  MainAlone
  PolledOnce
  WorkersGone

PROPERTIES
  ImplementsPollRound
