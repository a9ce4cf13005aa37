SPECIFICATION Spec
CONSTANTS
  k1 = k1
  k2 = k2
  k3 = k3
  r1 = r1
  r2 = r2
  s1 = s1
  s2 = s2
  Panels = {r1, r2}
  Keys = {k1, k2, k3}
  FrontPage <- TwoOnFront
  Sections = {s1, s2}
  Ttl = 2
  MaxEntries = 2
  PerHour = 1
  Hour = 2
  Every = 1
  Patience = 1
  MaxClock = 6
  MaxAsked = 2
  MaxFaults = 1
INVARIANT
  TypeOK
CHECK_DEADLOCK FALSE
