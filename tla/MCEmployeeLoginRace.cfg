SPECIFICATION Spec
CONSTANTS
  Employee = {e1, e2}
  User = {u1, u2, u3}
  Email = {m1, m2}
  Call = {k1, k2, k3}
  NoEmployee = NoEmployee
  NoUser = NoUser
SYMMETRY Symmetry
INVARIANTS
  OneLoginPerEmployee
CHECK_DEADLOCK FALSE
