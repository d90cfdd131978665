---------------------------- MODULE KafkaConsumer ----------------------------
(***************************************************************************)
(* infra::kafka::Consumer and the offset half of ConsumerHelper: a thread  *)
(* that reads one partition in batches and commits, in one RocksDB write,  *)
(* the effects of a batch and the offset of the next message to process;   *)
(* redis handlers that block in waitforcommit; crashes of the process and  *)
(* losses of power, which RocksDB survives with a prefix of its writes.    *)
(*                                                                         *)
(* The subclass that processes messages is not part of the repository.  It *)
(* is taken to follow the contract of processBatch: put the effects in one *)
(* WriteBatch, commit it with commitNextProcessOffset, abort on failure.   *)
(***************************************************************************)
EXTENDS Integers

CONSTANTS
  Waiters,       \* I/O threads that may run waitforcommit
  Seeds,         \* raw offsets that the one-off flags commit
  MaxBatchSize,  \* kMaxBatchSize
  MaxOffset,     \* bound: messages ever produced to the partition
  MaxCrashes,    \* bound: crashes and losses of power
  MaxSeeks       \* bound: raw commits over an offset that was committed before

ASSUME ConsumerAssumption ==
  /\ MaxBatchSize \in Nat \ {0}
  /\ MaxOffset \in Nat /\ MaxCrashes \in Nat /\ MaxSeeks \in Nat
  /\ Seeds \subseteq {-2} \cup 0..MaxOffset

Offsets == 0..(MaxOffset - 1)

\* RdKafka::Topic::OFFSET_BEGINNING and OFFSET_INVALID
OffsetBeginning == -2
OffsetInvalid == -1001

\* What can be committed as a raw offset, and what commits may store.
RawOffsets == {OffsetBeginning} \cup 0..MaxOffset
StoredOffsets == {OffsetInvalid} \cup RawOffsets

VARIABLES
  lo, hi,         \* the broker holds the messages lo..hi-1
  db,             \* RocksDB: the offset key and how often each message was applied
  unsynced,       \* earlier contents of RocksDB that a loss of power may bring back
  pc,             \* where the consumer thread is; "none" when the process is down
  run,            \* run_
  from, pos,      \* the write batch holds the messages from..pos-1; pos is read next
  lastCommitted,  \* lastCommittedOffsets_ of the offset key
  lagging,        \* isLagging_, for a single consumer
  startHi,        \* hi when the process started
  waiting,        \* the offset each waiter waits for, OffsetInvalid when idle
  acked,          \* offsets whose waitforcommit was answered OK
  crashes, seeks  \* counters of the bounds

vars == <<lo, hi, db, unsynced, pc, run, from, pos, lastCommitted, lagging,
          startHi, waiting, acked, crashes, seeks>>

broker == <<lo, hi>>
storage == <<db, unsynced>>
bounds == <<crashes, seeks>>

\* origin is where the current pass over the partition began.
Contents == [next: StoredOffsets, origin: StoredOffsets, applied: [Offsets -> Nat]]

Unapplied == [m \in Offsets |-> 0]

Batch == {m \in Offsets : from <= m /\ m < pos}

\* Where librdkafka reads: OFFSET_BEGINNING is resolved to the oldest message.
Position == IF pos = OffsetBeginning THEN lo ELSE pos

\* The contents that are unsynced behind the next write.  They are forgotten when
\* the bound allows no further loss of power.
Unsynced == IF crashes < MaxCrashes THEN unsynced \cup {db} ELSE {}

Init ==
  /\ lo = 0 /\ hi = 0
  /\ db = [next |-> OffsetInvalid, origin |-> OffsetInvalid, applied |-> Unapplied]
  /\ unsynced = {}
  /\ pc = "none" /\ run = FALSE
  /\ from = OffsetBeginning /\ pos = OffsetBeginning
  /\ lastCommitted = OffsetInvalid
  /\ lagging = TRUE
  /\ startHi = 0
  /\ waiting = [w \in Waiters |-> OffsetInvalid]
  /\ acked = {}
  /\ crashes = 0 /\ seeks = 0
-----------------------------------------------------------------------------
(* Variants with a plausible mistake, for mutation tests of the properties. *)

\* Write the effects without the offset.
CommitWithoutOffset ==
  /\ pc = "commit"
  /\ db' = [db EXCEPT !.applied = [m \in Offsets |-> IF m \in Batch THEN @[m] + 1 ELSE @[m]]]
  /\ unsynced' = Unsynced
  /\ from' = pos
  /\ pc' = "publish"
  /\ UNCHANGED <<broker, run, pos, lastCommitted, lagging, startHi, waiting, acked, bounds>>

\* Forget setLastCommittedOffset.
PublishNothing ==
  /\ pc = "publish"
  /\ pc' = "loop"
  /\ UNCHANGED <<broker, storage, run, from, pos, lastCommitted, lagging, startHi, waiting,
                 acked, bounds>>

\* Publish the offset as soon as the message is processed.
ProcessOnePublishes ==
  /\ pc = "batch" /\ run
  /\ Position - from < MaxBatchSize \/ from < 0
  /\ lo <= Position /\ Position < hi
  /\ from' = IF from < 0 THEN Position ELSE from
  /\ pos' = Position + 1
  /\ lastCommitted' = Position + 1
  /\ UNCHANGED <<broker, storage, pc, run, lagging, startHi, waiting, acked, bounds>>

\* Treat a read timeout like the end of the partition.
EndBatchNoLag ==
  /\ pc = "batch"
  /\ lagging' = FALSE
  /\ pc' = IF Batch = {} THEN "loop" ELSE "commit"
  /\ UNCHANGED <<broker, storage, run, from, pos, lastCommitted, startHi, waiting, acked, bounds>>

\* Give up at the first empty or failed read.
EndBatchGivesUp ==
  /\ pc = "batch"
  /\ pc' = IF Batch = {} THEN "exited" ELSE "commit"
  /\ UNCHANGED <<broker, storage, run, from, pos, lastCommitted, lagging, startHi,
                 waiting, acked, bounds>>
-----------------------------------------------------------------------------
(* The partition, the operator and the machine. *)

Produce ==
  /\ hi < MaxOffset
  /\ hi' = hi + 1
  /\ UNCHANGED <<lo, storage, pc, run, from, pos, lastCommitted, lagging, startHi,
                 waiting, acked, bounds>>

\* Retention deletes the oldest message.
Expire ==
  /\ lo < hi
  /\ lo' = lo + 1
  /\ UNCHANGED <<hi, storage, pc, run, from, pos, lastCommitted, lagging, startHi,
                 waiting, acked, bounds>>

\* RocksDB makes its writes durable.
Flush ==
  /\ unsynced # {}
  /\ unsynced' = {}
  /\ UNCHANGED <<broker, db, pc, run, from, pos, lastCommitted, lagging, startHi,
                 waiting, acked, bounds>>

\* commitRawOffset by a one-off flag, before the consumer exists.
CommitRawOffset(o) ==
  /\ pc = "none"
  /\ db.next # OffsetInvalid => seeks < MaxSeeks
  /\ seeks' = IF db.next = OffsetInvalid THEN seeks ELSE seeks + 1
  /\ db' = [next |-> o, origin |-> o, applied |-> Unapplied]
  /\ unsynced' = Unsynced
  /\ acked' = {}
  /\ UNCHANGED <<broker, pc, run, from, pos, lastCommitted, lagging, startHi, waiting, crashes>>

\* All memory of the process is gone, the connections of the waiters included.
Vanish ==
  /\ pc' = "none" /\ run' = FALSE
  /\ from' = OffsetBeginning /\ pos' = OffsetBeginning
  /\ lastCommitted' = OffsetInvalid
  /\ lagging' = TRUE
  /\ startHi' = 0
  /\ waiting' = [w \in Waiters |-> OffsetInvalid]
  /\ UNCHANGED <<broker, seeks>>

\* The process dies, or aborts because a commit failed.
Crash ==
  /\ pc # "none"
  /\ crashes < MaxCrashes
  /\ crashes' = crashes + 1
  /\ Vanish
  /\ UNCHANGED <<storage, acked>>

\* The machine stops; WriteOptions() does not sync the log.
LosePower ==
  /\ crashes < MaxCrashes
  /\ crashes' = crashes + 1
  /\ \E s \in unsynced : db' = s
  /\ unsynced' = {}
  /\ acked' = {}
  /\ Vanish

\* destroy() returns from join and the process exits.
Destroy ==
  /\ pc = "exited"
  /\ Vanish
  /\ UNCHANGED <<storage, acked, crashes>>
-----------------------------------------------------------------------------
(* The consumer. *)

\* init(OFFSET_STORED), which aborts without a committed offset, then start().
Start ==
  /\ pc = "none"
  /\ db.next # OffsetInvalid
  /\ pc' = "loop" /\ run' = TRUE
  /\ from' = db.next /\ pos' = db.next
  /\ lastCommitted' = db.next
  /\ lagging' = TRUE
  /\ startHi' = hi
  /\ UNCHANGED <<broker, storage, waiting, acked, bounds>>

Stop ==
  /\ pc # "none" /\ run
  /\ run' = FALSE
  /\ UNCHANGED <<broker, storage, pc, from, pos, lastCommitted, lagging, startHi,
                 waiting, acked, bounds>>

\* while (run()) processBatch
EnterBatch ==
  /\ pc = "loop"
  /\ pc' = IF run THEN "batch" ELSE "exited"
  /\ UNCHANGED <<broker, storage, run, from, pos, lastCommitted, lagging, startHi,
                 waiting, acked, bounds>>

\* consume() returns the message at the current position.
ProcessOne ==
  /\ pc = "batch" /\ run
  /\ Position - from < MaxBatchSize \/ from < 0
  /\ lo <= Position /\ Position < hi
  /\ from' = IF from < 0 THEN Position ELSE from
  /\ pos' = Position + 1
  /\ UNCHANGED <<broker, storage, pc, run, lastCommitted, lagging, startHi, waiting,
                 acked, bounds>>

\* consume() reports the end of the partition.
PartitionEof ==
  /\ pc = "batch" /\ run
  /\ Position - from < MaxBatchSize \/ from < 0
  /\ Position = hi
  /\ from' = IF from < 0 THEN Position ELSE from
  /\ pos' = Position
  /\ lagging' = FALSE
  /\ pc' = IF Batch = {} THEN "loop" ELSE "commit"
  /\ UNCHANGED <<broker, storage, run, lastCommitted, startHi, waiting, acked, bounds>>

\* consumeBatch returns: stopped, full, out of time, a read timeout or an error
\* (an offset out of range included, since auto.offset.reset is "error").
EndBatch ==
  /\ pc = "batch"
  /\ pc' = IF Batch = {} THEN "loop" ELSE "commit"
  /\ UNCHANGED <<broker, storage, run, from, pos, lastCommitted, lagging, startHi,
                 waiting, acked, bounds>>

\* The write of commitNextProcessOffset: effects and offset in one batch.
Commit ==
  /\ pc = "commit"
  /\ db' = [next    |-> pos,
            origin  |-> IF db.origin < 0 THEN from ELSE db.origin,
            applied |-> [m \in Offsets |-> db.applied[m] + (IF m \in Batch THEN 1 ELSE 0)]]
  /\ unsynced' = Unsynced
  /\ from' = pos
  /\ pc' = "publish"
  /\ UNCHANGED <<broker, run, pos, lastCommitted, lagging, startHi, waiting, acked, bounds>>

\* setLastCommittedOffset, after the write succeeded.
Publish ==
  /\ pc = "publish"
  /\ lastCommitted' = pos
  /\ pc' = "loop"
  /\ UNCHANGED <<broker, storage, run, from, pos, lagging, startHi, waiting, acked, bounds>>
-----------------------------------------------------------------------------
(* waitforcommit, on an I/O thread. *)

BeginWait(w, o) ==
  /\ pc # "none"
  /\ waiting[w] = OffsetInvalid
  /\ waiting' = [waiting EXCEPT ![w] = o]
  /\ UNCHANGED <<broker, storage, pc, run, from, pos, lastCommitted, lagging, startHi,
                 acked, bounds>>

EndWait(w) ==
  /\ waiting[w] # OffsetInvalid
  /\ lastCommitted > waiting[w]
  /\ acked' = acked \cup {waiting[w]}
  /\ waiting' = [waiting EXCEPT ![w] = OffsetInvalid]
  /\ UNCHANGED <<broker, storage, pc, run, from, pos, lastCommitted, lagging, startHi, bounds>>
-----------------------------------------------------------------------------
ConsumerStep ==
  EnterBatch \/ ProcessOne \/ PartitionEof \/ EndBatch \/ Commit \/ Publish

Next ==
  \/ Produce \/ Expire \/ Flush
  \/ \E o \in Seeds : CommitRawOffset(o)
  \/ Crash \/ LosePower \/ Destroy \/ Start \/ Stop
  \/ ConsumerStep
  \/ \E w \in Waiters : EndWait(w) \/ \E o \in Offsets : BeginWait(w, o)

Spec == Init /\ [][Next]_vars

\* The thread is scheduled, librdkafka does not time out for ever on a message
\* the broker has, a dead process is restarted, waiters are scheduled.
Fairness ==
  /\ WF_vars(ConsumerStep) /\ SF_vars(ProcessOne) /\ WF_vars(Start)
  /\ \A w \in Waiters : WF_vars(EndWait(w))

FairSpec == Spec /\ Fairness
-----------------------------------------------------------------------------
\* Type correctness of the partition, RocksDB, the consumer thread and the
\* waitforcommit commands.
TypeOK ==
  /\ lo \in 0..MaxOffset /\ hi \in 0..MaxOffset
  /\ db \in Contents /\ unsynced \subseteq Contents
  /\ pc \in {"none", "loop", "batch", "commit", "publish", "exited"}
  /\ run \in BOOLEAN /\ lagging \in BOOLEAN
  /\ from \in RawOffsets /\ pos \in RawOffsets
  /\ lastCommitted \in StoredOffsets
  /\ startHi \in 0..MaxOffset
  /\ waiting \in [Waiters -> Offsets \cup {OffsetInvalid}]
  /\ acked \subseteq Offsets
  /\ crashes \in 0..MaxCrashes /\ seeks \in 0..MaxSeeks

\* Each message between the start of the pass and the committed offset is
\* applied once in s, and no other.
Consistent(s) ==
  \A m \in Offsets : s.applied[m] = IF 0 <= s.origin /\ s.origin <= m /\ m < s.next THEN 1 ELSE 0

\* Offset and effects are one write, so whatever crash or loss of power hits
\* the consumer, RocksDB holds every message up to its offset exactly once.
ExactlyOnce == Consistent(db)

\* waitforcommit answers OK only once the message is in RocksDB, and only a
\* loss of power or an operator's reset takes it back.
AckedCommitted == \A o \in acked : o < db.next

\* ready answers 1 only after every message that existed at start up was read.
ReadyMeansRead == ~lagging => pos >= startHi

\* While the process runs, its committed offset never moves back.
OffsetMonotone == [][pc # "none" /\ pc' # "none" => db'.next >= db.next]_vars

\* Retention deleted the message at the consumer's position.
OutOfRange == 0 <= pos /\ pos < lo

\* The consumer asks for a message behind the end of the partition, which a raw
\* offset can make it do.  It gets an error, auto.offset.reset being "error", and
\* perhaps nothing more.
BeyondEnd == pos > hi

\* A message is committed unless the consumer is stopped or retention is
\* faster; in particular errors and timeouts of librdkafka are retried.  Nothing
\* is said of a consumer that was sent behind the end of the partition.
MessagesCommitted ==
  \/ <>BeyondEnd
  \/ \A m \in Offsets : (pc # "none" /\ m < hi) ~> (m < db.next \/ m < lo \/ OutOfRange \/ ~run)

\* stop() ends the thread whatever the broker does, so destroy() returns.
StopEndsThread == (pc # "none" /\ ~run) ~> (pc \in {"exited", "none"})

\* A waitforcommit for a message that is committed is answered.
WaitersAnswered ==
  \A w \in Waiters : (pc # "none" /\ 0 <= waiting[w] /\ waiting[w] < db.next)
                       ~> (waiting[w] = OffsetInvalid)
=============================================================================
