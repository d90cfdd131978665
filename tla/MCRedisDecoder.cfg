\* Four pipelines in chunks of up to four bytes and chains of up to three buffers,
\* two of them also with every edit of one byte; two replies; five requests, two
\* answers, one message without a key.
SPECIFICATION MCSpec
CONSTANTS
  CommandHandlerTable <- MCTable
  Pipelines <- MCPipelines
  Edited <- MCEdited
  ChunkSizes = {1, 2, 3, 4}
  MaxBuffers = 3
  Replies <- MCReplies
  MaxReplies = 2
  ok = ok
  err = err
  async = async
  AsyncResult = async
  Answers = {ok, err}
  MaxRequests = 5
  MaxNotices = 1
INVARIANTS ChunkIndependent RoundTrip EveryMessageAnswered RepliesFramed
PROPERTIES InOrder AllAnswered
\* The client stops after its last byte; a closed connection does nothing more.
CHECK_DEADLOCK FALSE
