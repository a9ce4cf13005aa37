CONSTANTS
  h1 = h1
  h2 = h2
  p1 = p1
  w1 = w1
  w2 = w2
  Chats = {1, 2}
  Pools = {w1, w2}
  Handlers = {h1}
  Passes = {p1}
  MaxWatches = 2
  MaxWatchers = 2
  Budget = 2
  RetellAfter = 1
  MaxClock = 1
  MaxRequests = 3
  MaxFaults = 1
  None = None
SPECIFICATION FairSpec
INVARIANT TypeOK
INVARIANT InOrderIsKept
INVARIANT InOrderOnceADay
PROPERTY StaleLeave
PROPERTY TurnComes
CHECK_DEADLOCK FALSE
