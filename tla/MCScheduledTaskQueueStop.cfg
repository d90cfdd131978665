\* One client, one task, a batch size of one.
SPECIFICATION FairSpec
CONSTANTS
  c1 = c1
  c2 = c2
  Clients = {c1}
  Worker = worker
  Timestamps = {1}
  DataKeys = {1}
  Int64Max = 9
  ScanBatchSize = 1
  ReuseKeys = FALSE
  MaxClock = 1
  MaxVersion = 1
  MaxCrashes = 0
PROPERTY StopEndsLoop
