SPECIFICATION Spec
CONSTANTS
  Client = {c1, c2}
  r1 = r1
  r2 = r2
  o1 = o1
  o2 = o2
  o3 = o3
  Nobody = Nobody
  NoBytes = NoBytes
  Repo <- MCRepo
  Oid <- MCOid
  Length <- MCLength
  MaxObjectSize = 2
  Slot = {s1, s2}
  Jobs <- MCJobs
CHECK_DEADLOCK FALSE
INVARIANT Integrity
INVARIANT CreatedByWriter
INVARIANT CompleteIsStored
INVARIANT DownloadIntact
PROPERTY CreatedOnce
PROPERTY ImplementsRegistry
