SPECIFICATION ReadSpec
CONSTANTS
  Thread = {t1, t2}
  Key = {k1, k2}
  TTL = 1
  MaxSize = 1
  MaxCalls = 3
  MaxClears = 1
  Horizon = 1
  None = None
  Batches <- SmallBatches
  Persists <- BothPersists
  MaxBatches = 1
INVARIANT BatchIsAnswered
PROPERTY AllEnd
CHECK_DEADLOCK FALSE
