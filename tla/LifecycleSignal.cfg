SPECIFICATION Spec
CONSTANTS
  Unset = Unset
  Blank = Blank
  Word = Word
  DefaultPresignTTL = 4
  MaxPresignTTL = 6
  MaximumMaxObjectSize = 3
  Environments <- BaseOnly
  Installation = {1, 2}
  MaxId = 3
  Facts <- FactsDef
  HttpTimeout = 2
  Deadline = 4
  MaxChanges = 0
  Public = Public
  Operations = Operations
  MaxRequests = 2
  Drain = 3
CHECK_DEADLOCK FALSE
INVARIANT SignalMakesUnready
