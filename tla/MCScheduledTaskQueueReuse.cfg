CONSTANTS
  c1 = c1
  c2 = c2
  Clients = {c1, c2}
  Worker = worker
  Timestamps = {1}
  DataKeys = {1}
  Int64Max = 9
  ScanBatchSize = 1
  ReuseKeys = TRUE
  MaxClock = 1
  MaxVersion = 2
  MaxCrashes = 0
SPECIFICATION Spec
PROPERTY NoTaskLost
