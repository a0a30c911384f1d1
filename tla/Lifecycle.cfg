SPECIFICATION LiveSpec
CONSTANTS
  Unset = Unset
  Blank = Blank
  Word = Word
  DefaultPresignTTL = 4
  MaxPresignTTL = 6
  MaximumMaxObjectSize = 3
  Environments <- EnvironmentsDef
  Installation = {1, 2}
  MaxId = 3
  Facts <- FactsDef
  HttpTimeout = 2
  Deadline = 4
  MaxChanges = 1
  Public = Public
  Operations = Operations
  MaxRequests = 2
  Drain = 3
CHECK_DEADLOCK FALSE
INVARIANT TypeOK
 
INVARIANT ReadyIsValidated
INVARIANT SuccessIsClean
INVARIANT NothingCutEarly
INVARIANT UnreadyFirst
PROPERTY StartupEnds
PROPERTY StopsWhenTold
PROPERTY ReadyComesTrue
