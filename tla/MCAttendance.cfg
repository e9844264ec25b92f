SPECIFICATION Spec
CONSTANTS
  Employee = {e1, e2}
  User = {u1, u2}
  Shift = {s1}
  ClientId = {c1}
  Request = {r1, r2, r3}
  NoEmployee = NoEmployee
  NoUser = NoUser
  NoShift = NoShift
  NoClient = NoClient
SYMMETRY Symmetry
INVARIANTS
  TypeOK
  StampsMatchStatus
  AttendanceOnOwnShift
  HistoryKeepsEmployee
  RepliesDescribeOneRow
  ConflictMeansRecorded
PROPERTIES
  CheckedOutForGood
  AttributionFixed
  ImplementsLedger
CHECK_DEADLOCK FALSE
