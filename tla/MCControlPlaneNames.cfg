SPECIFICATION Spec
CONSTANTS
  Signup = {t1, t2}
  Slug = {s1, s2, s3}
  Database = {d1, d2}
  s3 = s3
  d1 = d1
  d2 = d2
  NoSlug = NoSlug
  PhysicalName <- Kept
  Staff = {a1}
  NoTenant = NoTenant
  LastRelease = 1
INVARIANTS
  IsolatedDatabase
CHECK_DEADLOCK FALSE
