SPECIFICATION SeedSpec
CONSTANTS
  Employee = {e1}
  User = {u1}
  Shift = {s1, s2}
  ClientId = {c1, k1}
  SeedClient = {k1}
  Request = {r1}
  Seed = {g1, g2}
  NoEmployee = NoEmployee
  NoUser = NoUser
  NoShift = NoShift
  NoClient = NoClient
SYMMETRY Symmetry
CONSTRAINT Unended
INVARIANTS
  SeededAnswerTrue
PROPERTIES
  SeedReplacesOwnData
CHECK_DEADLOCK FALSE
