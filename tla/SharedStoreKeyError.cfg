SPECIFICATION Spec
CONSTANTS
  Thread = {t1, t2}
  Key = {k1}
  TTL = 1
  MaxSize = None
  MaxCalls = 4
  MaxClears = 0
  Horizon = 2
  None = None
INVARIANT StoreNeverRaises
CHECK_DEADLOCK FALSE
