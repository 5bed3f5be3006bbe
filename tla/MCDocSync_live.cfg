CONSTANTS
  Files = {f1}
  Hideable = {f1}
  Ids = {1, 2}
  MaxTime = 1
  NoFile = NoFile
  Clients = {d1}
  NoClient = NoDoc
  FailingFiles = {f1}
  CleanDocs = {}
  Texts = {""}
  EmptyText = ""
  Undecodable = {}
  Unencodable = {}
  Strip <- KeepText
  Timers = {1, 2}
  Prefs = {TRUE, FALSE}
  MaxDepth = 2
  QuitDepth = 0
SPECIFICATION FairSpec
PROPERTIES EditsReachDisk NewerFileNoticed DeletionNoticed
CHECK_DEADLOCK FALSE
