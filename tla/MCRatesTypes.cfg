SPECIFICATION Spec
SYMMETRY Symmetric
CONSTANTS
  p1 = p1
  c1 = c1
  c2 = c2
  r1 = r1
  r2 = r2
  p2 = p2
  c3 = c3
  Processes = {p1}
  Clients = {c1, c2, c3}
  Requests = {r1, r2}
  Limit = 2
  MaxTracked = 2
  LocalWindow = 2
  PerClient = 1
  Global = 1
  Window = 2
  Patience = 1
  MaxClock = 3
  MaxAsked = 4
  MaxFaults = 1
INVARIANT
  TypeOK
CHECK_DEADLOCK FALSE
