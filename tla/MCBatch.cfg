SPECIFICATION FairSpec
CONSTANTS
  Message = {1, 2}
  Plans <- SomePlans
  Nobody = Nobody
  Capacities = {1, 2}
  MaxRetries = 1
  RetryStatuses = {200, 503}
INVARIANTS
  TypeOK
  FirstFail
  OwnResult
  HeardOnce
  ExecutionsBounded
  FailedAsInjected
PROPERTIES
  Finishes
  EachIsACall
CHECK_DEADLOCK FALSE
