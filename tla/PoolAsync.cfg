CONSTANTS
  NumWorkers = 2
  NumMeters = 2
  LockTries = 2
  TcpMeters <- SmallTcpMeters
  FormulaMeters <- SmallFormulaMeters
  PortOf <- SmallPortOf
  PromptWakeup = FALSE
  SpuriousWakeups = TRUE

SPECIFICATION FairSpec

INVARIANT NoPollAfterFree

PROPERTY RoundEnds
