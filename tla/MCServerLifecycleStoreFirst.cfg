\* A kafka-store consumer, then a regular one.
SPECIFICATION Spec
CONSTANTS
  io1 = io1
  queue = queue
  N = 2
  Stores = {1}
  MaxEofs = 1
  Capacity = 1
  IoThreads = {io1}
  Queue = queue
  MaxOffset = 1
  Awaited = 0
  MaxSignals = 0
INVARIANT ReadyMeansCaughtUp
\* The process ends.
CHECK_DEADLOCK FALSE
