CONSTANTS
  w1 = w1
  w2 = w2
  w3 = w3
  h = h
  s1 = s1
  s2 = s2
  Serial = Serial
  Default = Default
  Global = Global
  NoWrite = NoWrite
  Writes <- MCWrites
  Hosts <- MCHosts
  Def <- MCDef
  Named <- MCNamed
  CronTab <- MCCronTab
  Polled <- MCPolled
  MaxPeriod = 2
  MaxLines = 2

SPECIFICATION SSpec

PROPERTY WritesOnSchedule
