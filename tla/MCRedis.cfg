CONSTANTS
  c1 = c1
  c2 = c2
  c3 = c3
  Commands = {c1, c2, c3}
  MaxConns = 3
  Greetings = 2
  Garbled = Garbled
  None = None
SPECIFICATION FairSpec
INVARIANT TypeOK
INVARIANT OwnReplyWhileOne
INVARIANT OpeningIsLive
PROPERTY EveryCommandEnds
CHECK_DEADLOCK FALSE
