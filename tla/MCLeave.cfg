SPECIFICATION Spec
CONSTANTS
  Employee = {e1}
  User = {u1, u2}
  LeaveId = {l1}
  Call = {k1, k2, k3}
  YearLength = 2
  LastYear = 1
  Allowance = {5}
  NoEmployee = NoEmployee
  NoUser = NoUser
SYMMETRY Symmetry
INVARIANTS
  TypeOK
  LeaveAttributed
  EachDayChargedOnce
PROPERTIES
  LateReviewChangesNothing
CHECK_DEADLOCK FALSE
