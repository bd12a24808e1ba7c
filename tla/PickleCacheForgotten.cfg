INIT PartsInit
NEXT PartsNext
CONSTANTS
  Parts = {"pickle"}
  f1 = f1
  f2 = f2
  Process = {p1}
  Key = {k1, k2}
  Item = {f1, f2}
  Setups <- SoundSetups
  MaxCalls = 3
  MaxRestarts = 1
  FilesEnd = 2
  Lifetime = {2, 3, None}
  Minute = 2
  MaxReads = 2
  ReadsEnd = 4
  Kind = {"polars", "objects"}
  Limit = {None, 0}
  MaxPuts = 2
  MaxSweeps = 1
  FolderEnd = 1
  MaxHeld = 2
  MaxOld = 3
  Every = 1
  Built = 2
  StreamEnd = 6
  Pickle = Pickle
  Tabular = Tabular
  Query = {q1}
  Backend = {pandas}
  Windows <- PlainWindow
  Opened = 2
  WindowEnd = 4
  Arriving = 1
  TTL = None
  MaxSize = None
  MaxComputes = 2
  MaxCrashes = 1
  Horizon = 0
  None = None
  Torn = Torn
PROPERTY ForgottenStaysForgotten
CHECK_DEADLOCK FALSE
