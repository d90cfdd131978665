\* Two regular consumers, then a kafka-store consumer, one I/O thread, a producer
\* queue of one message; the offset waited for is committed by the first message.
SPECIFICATION FairSpec
CONSTANTS
  io1 = io1
  queue = queue
  N = 3
  Stores = {3}
  MaxEofs = 2
  Capacity = 1
  IoThreads = {io1}
  Queue = queue
  MaxOffset = 1
  Awaited = 0
  MaxSignals = 2
INVARIANTS StoppedAfterUsers NothingUndelivered
PROPERTIES ClearedWhenCaughtUp SecondEndReady 
\* The process ends.
CHECK_DEADLOCK FALSE
