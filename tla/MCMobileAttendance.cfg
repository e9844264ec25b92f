SPECIFICATION Spec
CONSTANTS
  User = {u1}
  ClientId = {c1}
  Slot = {s1}
  Tap = {t1, t2, t3}
  Request = {r1, r2}
  NoUser = NoUser
  NoClient = NoClient
  NoRequest = NoRequest
SYMMETRY Symmetry
INVARIANTS
  TypeOK
  NothingForgotten
  ReplayFaithful
CHECK_DEADLOCK FALSE
