INIT AllInit
NEXT AllNext
CONSTANTS
  None = None
  Client = {c1, c2}
  Path = {bare, foldered}
  Foldered = {foldered}
  Position = {1, 3}
  Title = {t1}
  Column = {1}
  MaxTabs = 2
  MaxCalled = 3
  MaxFailed = 1
  MaxCalls = 3
  MaxSlides = 3
  MaxEdits = 1
  MaxFaults = 1
  Public = PUBLIC
  Tasks = 2
  MaxUses = 2
  MaxRefusals = 1
  Blocks <- SmallRequests
  Config <- SmallConfigs
  MaxRows = 5
  Chunk = {1, 2}
  Columns <- SmallColumns
  h1 = h1
  h2 = h2
  LogThread = {t1, t2}
  Handler = {h1, h2}
  Target <- SmallTargets
  SetLevels = {10, 40}
  MaxLogCalls = 3
  MaxSets = 2
  Process = {p1, p2}
  Key = {k1, k2}
  MaxTokens = 3
  Session = {s1, s2}
  Email = {alice, mallory}
  Whitelist = {alice}
  MaxRestarts = 1
SYMMETRY Interchangeable
INVARIANTS UsingRestores StreamsComeToAnEnd HandlersServeTheirCalls TokensLast OneIdentity SlidesAreAsMeant FilesAreTheirs TabsAreAsMeant
CHECK_DEADLOCK FALSE
