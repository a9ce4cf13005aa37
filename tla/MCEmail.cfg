SPECIFICATION Spec
CONSTANTS
  Ids = {i1}
  Choices = {a, b}
  Handlers = {h1, h2}
  Passes = {p1}
  MaxClock = 3
  MaxFaults = 2
  MaxCrashes = 1
  MaxRequests = 2
  NoId = NoId
  NoChoice = NoChoice
SYMMETRY Interchangeable
INVARIANTS
  TypeOK
  OnlyAgreedMailed
  GoneIsNotWalked
  DuplicatesAccountedFor
CHECK_DEADLOCK FALSE
