SPECIFICATION Spec
CONSTANTS
  Key = {k1, k2, k3}
  Value = {read, write}
  Capacity = 2
  TTL = 2
  MaxTime = 4
INVARIANT ListMatchesMap
INVARIANT RecencyOrder
PROPERTY ImplementsContract
