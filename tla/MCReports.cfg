SPECIFICATION ReportsSpec
CONSTANTS
  Employee = {e1, e2}
  User = {u1, u2}
  Shift = {s1}
  ClientId = {c1}
  Request = {r1, r2}
  Report = {p1}
  NoEmployee = NoEmployee
  NoUser = NoUser
  NoShift = NoShift
  NoClient = NoClient
SYMMETRY Symmetry
CONSTRAINT Unanswered
INVARIANTS
  ViewExact
  StatsOfOneEmployee
CHECK_DEADLOCK FALSE
