CONSTANTS
  Files = {f1, f2}
  Hideable = {}
  Ids = {1, 2, 3}
  MaxTime = 1
  NoFile = NoFile
  Clients = {d1, d2}
  NoClient = NoDoc
  FailingFiles = {}
  CleanDocs = {}
  Texts = {""}
  EmptyText = ""
  Undecodable = {}
  Unencodable = {}
  Strip <- KeepText
  Timers = {1}
  Prefs = {FALSE}
  MaxDepth = 2
  QuitDepth = 1
SPECIFICATION Spec
INVARIANTS MonitorsOwned
CHECK_DEADLOCK FALSE
SYMMETRY Interchangeable
