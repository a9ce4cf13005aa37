SPECIFICATION FairSpec
CONSTANTS
  Tokens = {1, 2, 3}
  Legacy = {1, 2}
  Chats = {c1}
  Browsers = {b1}
  Handlers = {h1}
  Passes = {p1}
  MaxLinked = 2
  Budget = 2
  MaxRequests = 2
  MaxFaults = 1
  MaxCrashes = 1
  NoToken = 0
  NoBrowser = NoBrowser
  NoChat = NoChat
  NoLink = NoLink
INVARIANT
  TypeOK
PROPERTY
  EventuallySettled
CHECK_DEADLOCK FALSE
