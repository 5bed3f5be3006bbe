CONSTANTS
  Files = {p, q}
  Hideable = {q}
  Ids = {1, 2}
  MaxTime = 1
  NoFile = NoFile
  Clients = {m1, m2}
  NoClient = NoImpl
  Names = {a}
  DotDot = DotDot
  Views = {v}
  Changing = {p}
  CacheSize = 1
SPECIFICATION FoldersSpec
SYMMETRY Symmetric
INVARIANTS RowsMatch MonitorsServed CacheSound
