CONSTANTS
  r1 = r1
  r2 = r2
  r3 = r3
  r4 = r4
  r5 = r5
  NoRecord = NoRecord
  Records <- MCRecords
  BadRecords <- MCBad
  MaxQueue = 3
  DequeueAtOnce = 2

SPECIFICATION FairSpec

INVARIANTS
  QueueConsistent
  OwnedOnce
  NotStoredTwice

PROPERTIES
  NoSilentLoss
  BacklogDrains
