SPECIFICATION Spec
CONSTANTS
  Tokens = {1, 2}
  Legacy = {}
  Chats = {c1, c2}
  Browsers = {b1}
  Handlers = {h1, h2}
  Passes = {p1}
  MaxLinked = 1
  Budget = 2
  MaxRequests = 5
  MaxFaults = 0
  MaxCrashes = 0
  NoToken = 0
  NoBrowser = NoBrowser
  NoChat = NoChat
  NoLink = NoLink
SYMMETRY Interchangeable
INVARIANTS
  GoneIsNotWalked
  InOrderStaysFollowed
CHECK_DEADLOCK FALSE
