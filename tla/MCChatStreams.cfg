SPECIFICATION FairSpec
CONSTANTS
  c1 = c1
  None = None
  Turns = {1, 2}
  Chats = {c1}
  ChatOf <- OneChat
  Tabs = {k1}
  Parts = {p1}
  MaxEvents = 2
  Ceiling = 3
  MaxSent <- SentMax
  MaxBreaks = 1
INVARIANTS
  TypeOK Accounting Delivered OwnReachable
PROPERTIES
  ReadersEnd
CHECK_DEADLOCK FALSE
