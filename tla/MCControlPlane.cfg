SPECIFICATION FairSpec
CONSTANTS
  Signup = {t1, t2}
  Slug = {s1}
  Database = {d1, d2}
  s3 = s3
  d1 = d1
  d2 = d2
  NoSlug = NoSlug
  PhysicalName <- Kept
  Staff = {a1}
  NoTenant = NoTenant
  LastRelease = 2
INVARIANTS
  TypeOK
  AnsweredSignupUsable
  SuspensionsAudited
  MigratedAll
PROPERTIES
  SignupAnswered
  FailedSignupLeavesNothing
CHECK_DEADLOCK FALSE
