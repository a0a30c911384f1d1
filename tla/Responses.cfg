SPECIFICATION Spec
CONSTANTS
  o1 = o1
  o2 = o2
  bad = bad
  None = None
  Oid = {o1, o2, bad}
  WellFormed = {o1, o2}
  MaxObjectSize = 1
  MaxObjects = 3
  MaxPages = 2
  Inputs <- InputsDef
  BucketCodes = {0, 200, 403, 404, 503}
CHECK_DEADLOCK FALSE
INVARIANT TypeOK
INVARIANT TransientIsRetryable
INVARIANT Explained
INVARIANT ServedIsAuthorized
INVARIANT RecordedIsSent
INVARIANT ValidatedExactly
