CONSTANTS
  Mult = 3
  Values <- MCValues

SPECIFICATION WSpec

INVARIANTS
  WriteEveryMult
  NoWriteMissed
  ValuesOfWindow
