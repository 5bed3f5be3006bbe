CONSTANTS
  Files = {f1}
  Hideable = {f1}
  Ids = {1, 2}
  MaxTime = 1
  NoFile = NoFile
  Clients = {d1}
  NoClient = NoDoc
  FailingFiles = {f1}
  CleanDocs = {d1}
  Texts = {"", "x"}
  EmptyText = ""
  Undecodable = {"x"}
  Unencodable = {"x"}
  Strip <- KeepText
  Timers = {1}
  Prefs = {FALSE}
  MaxDepth = 2
  QuitDepth = 1
SPECIFICATION Spec
INVARIANTS TypeOK NoFault ModifiedFlagTruthful
PROPERTIES NoSilentLoss FlagsFollowEvents WatchSpec
