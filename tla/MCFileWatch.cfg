CONSTANTS
  Files = {f1, f2}
  Hideable = {f1}
  Ids = {1, 2}
  MaxTime = 2
  NoFile = NoFile
  Clients = {c1}
  NoClient = NoClient
SPECIFICATION FairWatchSpec
INVARIANT WatchTypeOK
PROPERTIES NewerReported DeletionSettled
