INIT AllInit
NEXT AllNext
CONSTANTS
  Parts = {"extras"}
  None = None
  Sheet = {sheet1, sheet2}
  QueryName = {"x", "y"}
  Packages = {"p"}
  QueryText <- SmallTexts
  MaxFiles = 2
  SampleSize = 1
  Cell = {"date", "datetime", "time", "hm", "text", "day", "null"}
  MaxCells = 2
  MaxColumns = 2
  Dimensions = {None, 5}
  Default <- Widescreen
  Sizes = {2, None}
  MaxSlides = 3
  MaxBoxes = 1
  HandleSuffix = {".csv", ".xlsx"}
  MaxChanges = 2
  Thread = {t1, t2}
  Outcomes = {None, "object", "raises"}
  MaxBuilds = 3
  MaxMethods = 3
  Code = {"k1"}
  Capture = {1, 2, 3}
  ReprOf <- SmallShown
  Address = {a1, a2, a3}
  MaxFunctions = 2
  Switch = {"print", "traceback"}
  Console = {"c1"}
  Zone <- SmallZones
  MaxBlocks = 2
  Html = {h1, h2}
  Document <- Doc
  Siblings <- DocSiblings
  Writes <- QuartoWrites
  Listed <- NbconvertListed
  Actual <- NbconvertActual
  MaxEdits = 3
  MaxExports = 2
INVARIANT HintsAreActionable
CHECK_DEADLOCK FALSE
