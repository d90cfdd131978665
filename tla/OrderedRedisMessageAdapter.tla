--------------------- MODULE OrderedRedisMessageAdapter ---------------------
(***************************************************************************)
(* One connection of a pipeline with asynchronous commands: the adapter    *)
(* that numbers requests and holds answers back until the earlier ones are *)
(* sent, below an AsyncRedisHandler whose commands answer at once or later *)
(* and in any order.  All of it runs on the connection's event base        *)
(* thread, so a call is a step.                                            *)
(***************************************************************************)
EXTENDS Integers, Sequences

CONSTANTS
  Answers,      \* values other than kAsyncResult
  AsyncResult,  \* RedisValue::asyncResult(): not answered yet
  MaxRequests,  \* bound: requests on the connection
  MaxNotices    \* bound: messages that answer no request

ASSUME AdapterAssumption ==
  /\ AsyncResult \notin Answers
  /\ MaxRequests \in Nat /\ MaxNotices \in Nat

Keys == 0..(MaxRequests - 1)

Messages == [key: Keys, val: Answers \cup {AsyncResult}]

VARIABLES
  startKey,  \* startKey_
  pending,   \* pendingOutputs_
  running,   \* keys of the asynchronous commands that have not answered
  out,       \* messages written to the socket
  notices,   \* number of messages without a key
  closed,    \* the connection was closed
  aborted    \* a CHECK of the adapter failed

adapterVars == <<startKey, pending, running, out, notices, closed, aborted>>

AdapterInit ==
  /\ startKey = 0
  /\ pending = <<>>
  /\ running = {}
  /\ out = <<>>
  /\ notices = 0
  /\ closed = FALSE
  /\ aborted = FALSE

Message(k, v) == [key |-> k, val |-> v]
-----------------------------------------------------------------------------
(* Variants with a plausible mistake, for mutation tests of the properties. *)

\* Stop after the first message sent.
AnsweredOne(q) == IF q # <<>> /\ q[1].val # AsyncResult THEN 1 ELSE 0

\* Forget that another message may be between two answered ones.
AnsweredAll(q) ==
  IF \E i \in 1..Len(q) : q[i].val # AsyncResult
    THEN CHOOSE i \in 1..Len(q) : /\ q[i].val # AsyncResult
                                  /\ \A j \in (i + 1)..Len(q) : q[j].val = AsyncResult
    ELSE 0
-----------------------------------------------------------------------------
\* Length of the longest prefix of q whose messages are all answered.
Answered(q) ==
  CHOOSE n \in 0..Len(q) :
    /\ \A i \in 1..n : q[i].val # AsyncResult
    /\ n < Len(q) => q[n + 1].val = AsyncResult

\* write() of the message (k, v) when the outputs q are pending: its CHECKs,
\* the assignment, and the answers that may now be sent.
Write(q, k, v) ==
  LET i == k - startKey + 1
      q2 == [q EXCEPT ![i].val = v]
      n == Answered(q2)
  IN  IF i \in 1..Len(q) /\ q[i].key = k /\ q[i].val = AsyncResult
        THEN /\ out' = out \o SubSeq(q2, 1, n)
             /\ pending' = SubSeq(q2, n + 1, Len(q2))
             /\ startKey' = startKey + n
             /\ UNCHANGED aborted
        ELSE /\ aborted' = TRUE
             /\ pending' = q
             /\ UNCHANGED <<out, startKey>>

\* The key read() gives to the next request.
NextKey(q) == startKey + Len(q)

Working == ~closed /\ ~aborted

\* read() of a request that the handler answers before it returns: an error,
\* an unknown command, a wrong number of arguments, a command of the base table.
ReadSync(v) ==
  /\ Working
  /\ startKey + Len(pending) < MaxRequests
  /\ LET k == NextKey(pending)
     IN  Write(Append(pending, Message(k, AsyncResult)), k, v)
  /\ UNCHANGED <<running, notices, closed>>

\* read() of a request whose handler returns kAsyncResult.
ReadAsync ==
  /\ Working
  /\ startKey + Len(pending) < MaxRequests
  /\ LET k == NextKey(pending)
     IN  /\ pending' = Append(pending, Message(k, AsyncResult))
         /\ running' = running \cup {k}
  /\ UNCHANGED <<startKey, out, notices, closed, aborted>>

\* An asynchronous command answers.  write() does not ask whether the connection
\* is still open; what it fires is then dropped below it.
Complete(k, v) ==
  /\ ~aborted
  /\ k \in running
  /\ running' = running \ {k}
  /\ Write(pending, k, v)
  /\ UNCHANGED <<notices, closed>>

\* Monitor output: a message with the key -1 passes the adapter at once.
Notice ==
  /\ Working
  /\ notices < MaxNotices
  /\ notices' = notices + 1
  /\ UNCHANGED <<startKey, pending, running, out, closed, aborted>>

\* close(): GOAWAY with the key -1, then the transport is closed.
Close ==
  /\ Working
  /\ closed' = TRUE
  /\ UNCHANGED <<startKey, pending, running, out, notices, aborted>>

AdapterNext ==
  \/ \E v \in Answers : ReadSync(v)
  \/ ReadAsync
  \/ \E k \in running, v \in Answers : Complete(k, v)
  \/ Notice
  \/ Close

AdapterSpec == AdapterInit /\ [][AdapterNext]_adapterVars

\* An asynchronous command answers at some point.
Fairness == \A k \in Keys : WF_adapterVars(\E v \in Answers : Complete(k, v))

FairAdapterSpec == AdapterSpec /\ Fairness
-----------------------------------------------------------------------------
\* Type correctness: the deque and the socket hold messages, and only real
\* answers are written.
AdapterTypeOK ==
  /\ startKey \in 0..MaxRequests
  /\ pending \in Seq(Messages)
  /\ running \subseteq Keys
  /\ out \in Seq([key: Keys, val: Answers])
  /\ notices \in 0..MaxNotices
  /\ closed \in BOOLEAN /\ aborted \in BOOLEAN

\* The CHECKs of write() hold for every order in which commands answer: the
\* index computed from the key is the slot of the request.
ChecksHold == ~aborted

\* Nothing is held back for no reason: what is pending starts with an
\* unanswered request, which some command is still working on.
HeadUnanswered ==
  pending # <<>> => pending[1].val = AsyncResult /\ pending[1].key \in running

\* Whatever the order of the answers, the client sees those of a connection
\* that answers each request once and in order.
Abstract == INSTANCE OrderedReplies WITH arrived <- startKey + Len(pending), wire <- out

InOrder == Abstract!Spec

\* Every request is answered as long as the connection is open.
AllAnswered ==
  \A k \in Keys : (k < startKey + Len(pending)) ~> (k < Len(out) \/ closed)
=============================================================================
