SPECIFICATION Spec
CONSTANTS
  Tokens = {1, 2}
  Legacy = {}
  Chats = {c1}
  Browsers = {b1}
  Handlers = {h1}
  Passes = {p1}
  MaxLinked = 2
  Budget = 2
  MaxRequests = 5
  MaxFaults = 0
  MaxCrashes = 0
  NoToken = 0
  NoBrowser = NoBrowser
  NoChat = NoChat
  NoLink = NoLink
INVARIANT
  StoppedIsNotWalked
CHECK_DEADLOCK FALSE
