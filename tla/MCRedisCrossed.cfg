CONSTANTS
  c1 = c1
  c2 = c2
  c3 = c3
  Commands = {c1, c2, c3}
  MaxConns = 3
  Greetings = 0
  Garbled = Garbled
  None = None
SPECIFICATION Spec
INVARIANT OwnReply
CHECK_DEADLOCK FALSE
