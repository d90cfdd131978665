------------------------------ MODULE LagStatus ------------------------------
(***************************************************************************)
(* The lag flags of infra::kafka::ConsumerHelper, which the READY command  *)
(* reads: the main thread links the consumers one after the other, and     *)
(* every consumer thread calls setNoLag when it sees the end of its        *)
(* partition.  The flags are plain memory shared without synchronisation,  *)
(* so the write to a consumer's own flag may still be in the store buffer  *)
(* of its thread when the thread reads the flags of the others.            *)
(* ServerLifecycle says when the main thread links and the threads run.    *)
(***************************************************************************)
EXTENDS Integers

CONSTANTS
  N,       \* consumers, in the order of the configuration and of the map's keys
  Stores,  \* those that are kafka-store consumers
  MaxEofs  \* how often a consumer thread sees the end of its partition

Consumers == 1..N
Regular == Consumers \ Stores

VARIABLES
  linked,      \* consumers linked so far
  built,       \* consumers constructed so far
  lagStatuses, \* lagStatuses, as other threads see it
  buffered,    \* is the thread's write to its own flag still in its store buffer?
  isLagging,   \* isLagging_
  pc,          \* where a consumer thread is in setNoLag
  at,          \* next entry of lagStatuses its loop reads
  eofs,        \* ends of partition seen
  overridden   \* was SETREADY used?

boot == <<linked, built>>
lag == <<boot, lagStatuses, buffered, isLagging, pc, at, eofs, overridden>>

LagInit ==
  /\ linked = 0 /\ built = 0
  /\ lagStatuses = [t \in Consumers |-> FALSE]
  /\ buffered = [t \in Consumers |-> FALSE]
  /\ isLagging = TRUE
  /\ pc = [t \in Consumers |-> "poll"]
  /\ at = [t \in Consumers |-> 1]
  /\ eofs = [t \in Consumers |-> 0]
  /\ overridden = FALSE

\* What thread t reads: its own write even before others see it.
Reads(t, u) == lagStatuses[u] /\ ~(u = t /\ buffered[t])
-----------------------------------------------------------------------------
(* Variants with a plausible mistake, for mutation tests of the properties. *)

\* Stop at the first flag that is down.
ScanOneEntry(t) ==
  /\ pc[t] = "scan"
  /\ pc' = [pc EXCEPT ![t] = IF Reads(t, at[t]) THEN "poll" ELSE "ready"]
  /\ UNCHANGED <<boot, lagStatuses, buffered, isLagging, at, eofs, overridden>>

\* Leave the others alone when the own flag is down already.
EofOnce(t) ==
  /\ pc[t] = "poll" /\ ~buffered[t]
  /\ eofs[t] < MaxEofs
  /\ eofs' = [eofs EXCEPT ![t] = @ + 1]
  /\ IF isLagging /\ lagStatuses[t]
     THEN /\ buffered' = [buffered EXCEPT ![t] = TRUE]
          /\ at' = [at EXCEPT ![t] = 1]
          /\ pc' = [pc EXCEPT ![t] = "scan"]
     ELSE UNCHANGED <<buffered, at, pc>>
  /\ UNCHANGED <<boot, lagStatuses, isLagging, overridden>>
-----------------------------------------------------------------------------
\* linkTopicPartition, called by initializeKafkaConsumer for the next consumer.
Link ==
  /\ linked = built /\ linked < N
  /\ linked' = linked + 1
  /\ lagStatuses' = [lagStatuses EXCEPT ![linked + 1] = TRUE]
  /\ UNCHANGED <<built, buffered, isLagging, pc, at, eofs, overridden>>

\* The factory constructs the consumer just linked.  The constructor of a
\* kafka-store consumer calls setNoLag; no other thread runs yet.
Construct ==
  /\ built < linked
  /\ built' = built + 1
  /\ IF linked \in Stores /\ isLagging
     THEN /\ lagStatuses' = [lagStatuses EXCEPT ![linked] = FALSE]
          /\ isLagging' = \E t \in 1..linked : lagStatuses'[t]
     ELSE UNCHANGED <<lagStatuses, isLagging>>
  /\ UNCHANGED <<linked, buffered, pc, at, eofs, overridden>>

\* processError(ERR__PARTITION_EOF): setNoLag writes the thread's own flag, or
\* returns at once when nobody lags any more.  The locks of the consumer's queue
\* have drained the store buffer since the last time.
Eof(t) ==
  /\ pc[t] = "poll" /\ ~buffered[t]
  /\ eofs[t] < MaxEofs
  /\ eofs' = [eofs EXCEPT ![t] = @ + 1]
  /\ IF isLagging
     THEN /\ buffered' = [buffered EXCEPT ![t] = lagStatuses[t]]
          /\ at' = [at EXCEPT ![t] = 1]
          /\ pc' = [pc EXCEPT ![t] = "scan"]
     ELSE UNCHANGED <<buffered, at, pc>>
  /\ UNCHANGED <<boot, lagStatuses, isLagging, overridden>>

\* The store buffer of the thread drains.
Drain(t) ==
  /\ buffered[t]
  /\ buffered' = [buffered EXCEPT ![t] = FALSE]
  /\ lagStatuses' = [lagStatuses EXCEPT ![t] = FALSE]
  /\ UNCHANGED <<boot, isLagging, pc, at, eofs, overridden>>

\* One iteration of the loop over lagStatuses: return if an entry is still set.
Scan(t) ==
  /\ pc[t] = "scan"
  /\ IF at[t] <= N /\ Reads(t, at[t])
     THEN /\ pc' = [pc EXCEPT ![t] = "poll"]
          /\ UNCHANGED at
     ELSE IF at[t] <= N
          THEN at' = [at EXCEPT ![t] = @ + 1] /\ UNCHANGED pc
          ELSE pc' = [pc EXCEPT ![t] = "ready"] /\ UNCHANGED at
  /\ UNCHANGED <<boot, lagStatuses, buffered, isLagging, eofs, overridden>>

\* isLagging_ = false, which others see after the thread's earlier write.
NoLongerLagging(t) ==
  /\ pc[t] = "ready" /\ ~buffered[t]
  /\ isLagging' = FALSE
  /\ pc' = [pc EXCEPT ![t] = "poll"]
  /\ UNCHANGED <<boot, lagStatuses, buffered, at, eofs, overridden>>

\* SETREADY: setLagStatus(false) from an I/O thread.
SetReady ==
  /\ isLagging' = FALSE
  /\ overridden' = TRUE
  /\ UNCHANGED <<boot, lagStatuses, buffered, pc, at, eofs>>
=============================================================================
