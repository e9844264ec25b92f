SPECIFICATION Spec
CONSTANTS
  t1 = t1
  t2 = t2
  a1 = a1
  a2 = a2
  s = s
  m = m
  r1 = r1
  r2 = r2
  Tenant = {t1, t2}
  NoTenant = NoTenant
  Account = {a1, a2, s}
  Home <- HomeOf
  RoleOf <- Roles
  EmailOf <- Emails
  Request = {r1, r2}
  NoRequest = NoRequest
  Offered <- Anything
  Suspect = {a1}
INVARIANTS
  TypeOK
  NoPoolLeaks
  StaysInTenant
  Authorised
  TokenIssuedRightly
PROPERTIES
  CallsEnd
CHECK_DEADLOCK FALSE
