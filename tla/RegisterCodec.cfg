CONSTANTS
  ByteBase = 2
  LastAddr = 5
  Fields <- MCFields

SPECIFICATION Spec

INVARIANTS
  ReadsDeviceValue
  ReadBack
  IntegersAreWhole
