------------------------------ MODULE Producer ------------------------------
(***************************************************************************)
(* infra::kafka::Producer over the queue of librdkafka.  A message keeps   *)
(* its place in the queue until its delivery report has been served, and   *)
(* reports are served only by poll: by pollCallbacks, or by waitForAck     *)
(* when the producer is destroyed.                                         *)
(***************************************************************************)
EXTENDS Integers

CONSTANT Capacity  \* queue.buffering.max.messages

VARIABLES
  queued,    \* messages that the broker has not answered for
  reports,   \* delivery reports that wait for a poll
  retrying   \* threads asleep in produceAsyncFatalOnError

producer == <<queued, reports, retrying>>

ProducerInit == queued = 0 /\ reports = 0 /\ retrying = {}

\* outq_len()
OutqLen == queued + reports

\* RdKafka::Producer::produce, or ERR__QUEUE_FULL and a sleep.
Enqueue(t) ==
  /\ IF OutqLen < Capacity
     THEN queued' = queued + 1 /\ retrying' = retrying \ {t}
     ELSE retrying' = retrying \cup {t} /\ UNCHANGED queued
  /\ UNCHANGED reports

\* produceAsyncFatalOnError: the first attempt of thread t.
Produce(t) == t \notin retrying /\ Enqueue(t)

\* Its next attempt, a second later.
Retry(t) == t \in retrying /\ Enqueue(t)

\* The broker acknowledges a message, or it fails for good: dr_cb is due.
Deliver ==
  /\ queued > 0
  /\ queued' = queued - 1 /\ reports' = reports + 1
  /\ UNCHANGED retrying

\* poll: dr_cb passes every report to deliveryHandler_.
PollCallbacks ==
  /\ reports' = 0
  /\ UNCHANGED <<queued, retrying>>

\* Variant for a mutation test: poll once.
WaitForAckPollsOnce == PollCallbacks


\* waitForAck returns: its last poll left nothing in the queue.
WaitForAck == queued = 0 /\ PollCallbacks
=============================================================================
