SPECIFICATION FairSpec
CONSTANTS
  User = {u1}
  ClientId = {c1, c2}
  Slot = {s1}
  Tap = {t1, t2}
  Request = {r1}
  NoUser = NoUser
  NoClient = NoClient
  NoRequest = NoRequest
PROPERTIES
  QueueDrains
CHECK_DEADLOCK FALSE
