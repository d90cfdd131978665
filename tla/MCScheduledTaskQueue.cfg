\* One client and the execution thread, four keys, a batch size of two,
\* three versions and a crash: full batches, and one that is not.
SPECIFICATION FairSpec
CONSTANTS
  c1 = c1
  c2 = c2
  Clients = {c1}
  Worker = worker
  Timestamps = {1, 2}
  DataKeys = {1, 2}
  Int64Max = 9
  ScanBatchSize = 2
  ReuseKeys = FALSE
  MaxClock = 2
  MaxVersion = 3
  MaxCrashes = 1
INVARIANTS CountCoversStored CompletedOnce
PROPERTIES NoTaskLost DueTasksRun StopEndsUnlessFull
