SPECIFICATION Spec
CONSTANTS
  Thread = {t1, t2, t3}
  Key = {k1, k2}
  TTL = 1
  MaxSize = 1
  MaxCalls = 3
  MaxClears = 1
  Horizon = 1
  None = None
SYMMETRY Interchangeable
INVARIANTS StoresStaySound ServedFresh EntriesAreGenuine
CHECK_DEADLOCK FALSE
