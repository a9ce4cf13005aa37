CONSTANTS
  c1 = c1
  c2 = c2
  c3 = c3
  Commands = {c1, c2}
  MaxConns = 2
  Greetings = 2
  Garbled = Garbled
  None = None
SPECIFICATION Spec
INVARIANT HandshakeFirst
CHECK_DEADLOCK FALSE
