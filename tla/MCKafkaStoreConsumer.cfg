\* Files of three, one and two messages; the first offset is in the first file.
SPECIFICATION FairSpec
CONSTANTS
  Starts = {0, 3, 4}
  Total = 6
  Seeds = {0, 2}
  MaxBatchSize = 2
  MaxCrashes = 2
INVARIANTS InOrderOnce RestartPossible
PROPERTIES MessagesApplied StopEndsThread
