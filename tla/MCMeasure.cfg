SPECIFICATION FairSpec
CONSTANTS
  w1 = w1
  w2 = w2
  Writers = {w1, w2}
  Ttl = 5
  WarmEvery = 2
  MinGap = 2
  SeriesMax = 2
  RoundTime = 1
  MaxClock = 5
  MaxFaults = 1
  None = None
INVARIANTS
  TypeOK
  NoReaderWaits
  SeriesInOrder
PROPERTIES
  NeverBack
  WarmerGoesOn
CHECK_DEADLOCK FALSE
