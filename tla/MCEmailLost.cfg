SPECIFICATION Spec
CONSTANTS
  Ids = {i1}
  Choices = {a, b}
  Handlers = {h1, h2}
  Passes = {p1}
  MaxClock = 3
  MaxFaults = 0
  MaxCrashes = 1
  MaxRequests = 2
  NoId = NoId
  NoChoice = NoChoice
SYMMETRY Interchangeable
INVARIANT
  ConfirmedIsWalked
CHECK_DEADLOCK FALSE
