SPECIFICATION Spec
CONSTANTS
  x = x
  y = y
  u = u
  e = e
  Names <- MCNames
  Values <- MCValues
  Empty = e
  NoValue = NoValue
  Lists <- MCLists
  PreAssigns <- MCPreAssigns
  ReadonlyNames = {}
  ExportNames = {}
  AllExport = FALSE
  Unusual = {}
  MaxDepth = 3
  MaxSaves = 2
INVARIANTS TableLayered
PROPERTIES DynamicScoping
