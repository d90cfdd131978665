\* A partition of two messages, batches of up to two, one waiter, one-off flags
\* with two offsets, one crash or loss of power and one reset.
SPECIFICATION FairSpec
CONSTANTS
  w1 = w1
  Waiters = {w1}
  Seeds <- MCSeeds
  MaxBatchSize = 2
  MaxOffset = 2
  MaxCrashes = 1
  MaxSeeks = 1
INVARIANTS ExactlyOnce AckedCommitted ReadyMeansRead
PROPERTIES MessagesCommitted WaitersAnswered
