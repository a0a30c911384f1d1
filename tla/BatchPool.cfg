SPECIFICATION LiveSpec
CONSTANTS
  MaxObjects = 4
  Concurrency = 3
  Unset = Unset
CHECK_DEADLOCK FALSE
INVARIANT TypeOK
INVARIANT OwnVerdict
INVARIANT OneWorkerPerObject
PROPERTY ImplementsBatchContract
