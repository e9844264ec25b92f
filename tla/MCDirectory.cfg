SPECIFICATION Spec
CONSTANTS
  Department = {d1, d2}
  Role = {x1, x2}
  Employee = {e1, e2}
  Location = {l1}
  Tour = {t1}
  Shift = {s1}
  None = None
  Name = {"guide", "GUIDE", "driver"}
  Folded <- MCFolded
  Instant = {1, 2}
  Amount <- MCAmount
  MaxInt32 = 7
  RowBound = 3
SYMMETRY Symmetry
CONSTRAINT FewRows
INVARIANTS
  RowsConsistent
  RefusalsMapped
PROPERTIES
  ReferencesLostWithTarget
CHECK_DEADLOCK FALSE
