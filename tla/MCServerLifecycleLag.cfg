\* Two regular consumers, each of which sees the end of its partition once.
SPECIFICATION FairSpec
CONSTANTS
  io1 = io1
  queue = queue
  N = 2
  Stores = {}
  MaxEofs = 1
  Capacity = 1
  IoThreads = {io1}
  Queue = queue
  MaxOffset = 1
  Awaited = 0
  MaxSignals = 0
PROPERTY EventuallyReady
\* The process ends.
CHECK_DEADLOCK FALSE
