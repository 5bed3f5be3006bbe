CONSTANTS
  Files = {f1}
  Hideable = {}
  Ids = {1, 2}
  MaxTime = 1
  NoFile = NoFile
  Clients = {d1}
  NoClient = NoDoc
  FailingFiles = {}
  CleanDocs = {}
  Texts = {"", "x"}
  EmptyText = ""
  Undecodable = {}
  Unencodable = {}
  Strip <- KeepText
  Timers = {1, 2}
  Prefs = {TRUE}
  MaxDepth = 2
  QuitDepth = 0
SPECIFICATION Spec
PROPERTIES NoSilentLoss
CHECK_DEADLOCK FALSE
