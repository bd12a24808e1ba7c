SPECIFICATION Spec
CONSTANTS
  Key = {k1, k2}
  Value = {v1, v2}
  TTL = {None, 1}
  MaxSize = {None, 0, 1}
  Path = {p}
  Horizon = 2
  MaxLookups = 1
  Missing = Missing
  None = None
PROPERTIES KeepsContract StoreKeepsItsBounds
SYMMETRY Interchangeable
