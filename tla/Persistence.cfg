SPECIFICATION PartsSpec
CONSTANTS
  Parts = {"pickle", "files", "reads", "stream", "window", "folder"}
  f1 = f1
  f2 = f2
  Process = {p1, p2}
  Key = {k1, k2}
  Item = {f1, f2}
  Setups <- SoundSetups
  MaxCalls = 3
  MaxRestarts = 1
  FilesEnd = 2
  Lifetime = {2, 3, None}
  Minute = 2
  MaxReads = 2
  ReadsEnd = 4
  Kind = {"polars", "objects"}
  Limit = {None, 0}
  MaxPuts = 2
  MaxSweeps = 1
  FolderEnd = 1
  MaxHeld = 2
  MaxOld = 3
  Every = 1
  Built = 2
  StreamEnd = 6
  Pickle = Pickle
  Tabular = Tabular
  Query = {q1, q2}
  Backend = {pandas, polars}
  Windows <- SmallWindows
  Opened = 2
  WindowEnd = 4
  Arriving = 1
  TTL = 1
  MaxSize = None
  MaxComputes = 2
  MaxCrashes = 2
  Horizon = 1
  None = None
  Torn = Torn
INVARIANTS ResultsAreKept TornOnlyByInterruptedSave ServedFresh ResultIsRight StreamHoldsEachOnce WindowIsHeldOnce FolderKeepsItsWord
PROPERTY StoredIsFound
SYMMETRY Interchangeable
CHECK_DEADLOCK FALSE
