SPECIFICATION GolfsSpec
CONSTANTS
  t1 = t1
  p1 = p1
  a = a
  b = b
  i1 = i1
  i2 = i2
  None = None
  Request = {q1, q2}
  Token = {t1}
  Path = {p1}
  Repo = {a, b}
  Installation = {i1, i2}
  Allowed = {i1}
  Initial <- InitialDef
  Capacity = 1
  TTL = 2
  MaxPages = 2
  HttpTimeout = 1
  WriteTimeout = 1
  PresignTTL = 1
  MaxTime = 6
  MaxChanges = 1
INVARIANT PermissionRecent
INVARIANT InstallationRecent
INVARIANT RepositoryAdmitted
INVARIANT GolfsTypeOK
INVARIANT RevocationBound
SYMMETRY RequestSymmetry
