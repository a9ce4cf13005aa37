SPECIFICATION LimitFairSpec
CONSTANTS
  c1 = c1
  c2 = c2
  c3 = c3
  c4 = c4
  c5 = c5
  Callers = {c1, c2, c3, c4, c5}
  AtOnce = 2
  MaxWaiting = 2
PROPERTIES
  IsALine
  TurnedAwayWhenFull
  EveryoneBegins
