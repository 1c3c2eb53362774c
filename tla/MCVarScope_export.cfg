SPECIFICATION Spec
CONSTANTS
  x = x
  y = y
  u = u
  e = e
  Names <- MCNames
  Values <- MCValues
  Empty = e
  NoValue = NoValue
  Lists <- MCTwice
  PreAssigns <- MCPreAssigns
  ReadonlyNames = {y}
  ExportNames = {x}
  AllExport = FALSE
  Unusual = {"repeated", "valueless", "local_prefix", "redeclared", "under_prefix"}
  MaxDepth = 2
  MaxSaves = 2
PROPERTIES ExportSticks
