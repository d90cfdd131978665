------------------------- MODULE ScheduledTaskQueue -------------------------
(***************************************************************************)
(* infra::ScheduledTaskQueue: tasks persisted in a RocksDB column family   *)
(* under the key (scheduled time, data key), a background thread that      *)
(* scans the due ones in batches and hands them to a processor, and client *)
(* threads (redis handlers, Kafka consumers, the processor itself) that    *)
(* add tasks through write batches.                                        *)
(*                                                                         *)
(* A task value is abstracted to a version: the rank of the call that      *)
(* scheduled it.  Two tasks under one key are then told apart, and so is   *)
(* what the processor saw from what the database holds.                    *)
(***************************************************************************)
EXTENDS Integers, FiniteSets

CONSTANTS
  Clients,        \* threads that schedule tasks
  Worker,         \* the "scheduled-task" thread, not a client
  Timestamps,     \* scheduled times, in ms
  DataKeys,       \* user data keys, ordered like the bytes they stand for
  Int64Max,       \* numeric_limits<int64_t>::max()
  ScanBatchSize,  \* scanBatchSize_
  ReuseKeys,      \* may a key be scheduled again while it is outstanding?
  MaxClock,       \* bound: the clock stops here
  MaxVersion,     \* bound: tasks scheduled over the whole behaviour
  MaxCrashes      \* bound: crashes over the whole behaviour

ASSUME ThreadsAssumption == Worker \notin Clients

ASSUME KeysAssumption ==
  /\ Timestamps \subseteq Nat /\ IsFiniteSet(Timestamps)
  /\ DataKeys \subseteq Nat /\ IsFiniteSet(DataKeys)

ASSUME BoundsAssumption ==
  /\ Int64Max \in Nat /\ MaxVersion \in Nat /\ MaxCrashes \in Nat
  /\ MaxClock \in Nat /\ MaxClock < Int64Max
  /\ ScanBatchSize \in Nat \ {0}
  /\ ReuseKeys \in BOOLEAN

Threads == Clients \cup {Worker}

TaskKeys == Timestamps \X DataKeys

\* The byte order of keys: big-endian timestamp first, then the data key.
KeyLess(j, k) == j[1] < k[1] \/ (j[1] = k[1] /\ j[2] < k[2])

\* A Put that sits in the uncommitted write batch of a thread.
Puts == [thread: Threads, key: TaskKeys, ver: Nat]

VARIABLES
  db,           \* the column family: version stored under each key, 0 if none
  completed,    \* <<key, version>> whose processing results are in the database
  pending,      \* Puts of write batches not committed yet
  outstanding,  \* outstandingTaskCount_
  run,          \* run_
  pc,           \* where the execution thread is; "none" when the process is down
  maxTs,        \* maxTimestampMs of the current round
  tasks,        \* keys of the scanned task vector
  value,        \* values of the scanned tasks, 0 elsewhere
  done,         \* keys of the tasks marked completed
  clock,        \* system_clock::now()
  nextVer,      \* version of the next task to be scheduled
  crashes       \* crashes so far

vars == <<db, completed, pending, outstanding, run, pc, maxTs, tasks, value,
          done, clock, nextVer, crashes>>

batchVars == <<maxTs, tasks, value, done>>

boundVars == <<clock, nextVer, crashes>>

Stored == {k \in TaskKeys : db[k] # 0}

\* Keys below the iterator's exclusive upper bound encodeTimestamp(limit).
StoredBelow(limit) == {k \in Stored : k[1] < limit}

\* The tasks scanPendingTasks copies: the first due keys in byte order, up to the batch size.
IsScan(T, limit) ==
  LET due == StoredBelow(limit)
  IN  /\ \A k \in T, j \in due \ T : KeyLess(k, j)
      /\ Cardinality(T) <= ScanBatchSize
      /\ Cardinality(T) < ScanBatchSize => T = due

\* accurateOutstandingTaskCountSlow: a scan without limit up to the largest timestamp.
AccurateCount == Cardinality(StoredBelow(Int64Max))

BatchOf(t) == {p \in pending : p.thread = t}

\* The column family once the Puts B are written; B has one Put per key.
Apply(B) ==
  [k \in TaskKeys |-> IF \E p \in B : p.key = k
                        THEN (CHOOSE p \in B : p.key = k).ver
                        ELSE db[k]]

Init ==
  /\ db = [k \in TaskKeys |-> 0]
  /\ completed = {}
  /\ pending = {}
  /\ outstanding = 0
  /\ run = FALSE
  /\ pc = "none"
  /\ maxTs = 0
  /\ tasks = {}
  /\ value = [k \in TaskKeys |-> 0]
  /\ done = {}
  /\ clock = 0
  /\ nextVer = 1
  /\ crashes = 0
-----------------------------------------------------------------------------
(* Variants of the operations with a plausible mistake, for mutation tests *)
(* of the properties; the specification does not use them.                 *)

\* Subtract the size of the batch instead of the number of completed tasks.
FinishBatchCountsAll ==
  /\ pc = "count"
  /\ outstanding' = outstanding - Cardinality(tasks)
  /\ pc' = IF Cardinality(tasks) = ScanBatchSize THEN "scan" ELSE "sleep"
  /\ tasks' = {}
  /\ value' = [k \in TaskKeys |-> 0]
  /\ done' = {}
  /\ UNCHANGED <<db, completed, pending, run, maxTs, boundVars>>

\* Keep the completed tasks in the column family.
WriteResultsNoDelete ==
  /\ pc = "write"
  /\ db' = Apply(BatchOf(Worker))
  /\ completed' = completed \cup {<<k, value[k]>> : k \in done}
  /\ pending' = pending \ BatchOf(Worker)
  /\ pc' = "count"
  /\ UNCHANGED <<outstanding, run, batchVars, boundVars>>

\* Delete every scanned task, completed or not.
WriteResultsDeleteAll ==
  /\ pc = "write"
  /\ db' = [k \in TaskKeys |-> IF k \in tasks THEN 0 ELSE Apply(BatchOf(Worker))[k]]
  /\ completed' = completed \cup {<<k, value[k]>> : k \in done}
  /\ pending' = pending \ BatchOf(Worker)
  /\ pc' = "count"
  /\ UNCHANGED <<outstanding, run, batchVars, boundVars>>

\* Resume the inner loop after the sleep, with the old bound and run_ untested.
SleepInnerLoop ==
  /\ pc = "sleep"
  /\ pc' = "scan"
  /\ UNCHANGED <<db, completed, pending, outstanding, run, batchVars, boundVars>>
-----------------------------------------------------------------------------
(* Scheduling.  Clients may call at any time between the start of the      *)
(* queue and the end of the process; the processor schedules follow-ups    *)
(* with the write batch it was given.                                      *)

MaySchedule(t) == IF t = Worker THEN pc = "process" ELSE pc # "none"

\* The keys some thread has scheduled and that are not processed yet.
Outstanding == Stored \cup {p.key : p \in pending}

\* A later Put of a batch replaces an earlier one under the same key, but the
\* counter is incremented for both.
ScheduleWithWriteBatch(t, k) ==
  /\ MaySchedule(t)
  /\ nextVer <= MaxVersion
  /\ ReuseKeys \/ k \notin Outstanding
  /\ pending' = {p \in pending : p.thread # t \/ p.key # k}
                  \cup {[thread |-> t, key |-> k, ver |-> nextVer]}
  /\ outstanding' = outstanding + 1
  /\ nextVer' = nextVer + 1
  /\ UNCHANGED <<db, completed, run, pc, batchVars, clock, crashes>>

\* The owner of a write batch (schedule and scheduleOpaque included) commits it.
CommitBatch(c) ==
  /\ BatchOf(c) # {}
  /\ db' = Apply(BatchOf(c))
  /\ pending' = pending \ BatchOf(c)
  /\ UNCHANGED <<completed, outstanding, run, pc, batchVars, boundVars>>

\* DB::Write fails or the owner drops its batch: the error is returned, the
\* counter is not taken back.
AbandonBatch(c) ==
  /\ BatchOf(c) # {}
  /\ pending' = pending \ BatchOf(c)
  /\ UNCHANGED <<db, completed, outstanding, run, pc, batchVars, boundVars>>
-----------------------------------------------------------------------------
(* Life of the process and of the execution thread.                        *)

\* start(): recount, then create the thread.
Start ==
  /\ pc = "none"
  /\ outstanding' = AccurateCount
  /\ run' = TRUE
  /\ pc' = "loop"
  /\ UNCHANGED <<db, completed, pending, batchVars, boundVars>>

\* stop(), also the first half of destroy().
Stop ==
  /\ pc # "none" /\ run
  /\ run' = FALSE
  /\ UNCHANGED <<db, completed, pending, outstanding, pc, batchVars, boundVars>>

\* Everything in memory is gone; the column family is not.
Vanish ==
  /\ pc' = "none"
  /\ run' = FALSE
  /\ pending' = {}
  /\ outstanding' = 0
  /\ maxTs' = 0
  /\ tasks' = {}
  /\ value' = [k \in TaskKeys |-> 0]
  /\ done' = {}
  /\ UNCHANGED <<db, completed, clock, nextVer>>

\* destroy() returns from join and the process exits.
Join ==
  /\ pc = "exited"
  /\ Vanish
  /\ UNCHANGED crashes

\* At any point, the CHECK on the status of WriteResults included.
Crash ==
  /\ pc # "none"
  /\ crashes < MaxCrashes
  /\ crashes' = crashes + 1
  /\ Vanish

\* while (run_): compute the scan bound, one past the current millisecond.
BeginRound ==
  /\ pc = "loop"
  /\ run
  /\ maxTs' = clock + 1
  /\ pc' = "scan"
  /\ UNCHANGED <<db, completed, pending, outstanding, run, tasks, value, done, boundVars>>

ExitLoop ==
  /\ pc = "loop"
  /\ ~run
  /\ pc' = "exited"
  /\ UNCHANGED <<db, completed, pending, outstanding, run, batchVars, boundVars>>

\* scanPendingTasks in batchProcessing; nothing pending ends the inner loop.
ScanPendingTasks ==
  /\ pc = "scan"
  /\ \E T \in SUBSET StoredBelow(maxTs) :
       /\ IsScan(T, maxTs)
       /\ tasks' = T
       /\ value' = [k \in TaskKeys |-> IF k \in T THEN db[k] ELSE 0]
       /\ pc' = IF T = {} THEN "sleep" ELSE "process"
  /\ UNCHANGED <<db, completed, pending, outstanding, run, maxTs, done, boundVars>>

\* The processor returns having marked the tasks D as completed.
ProcessPendingTasks(D) ==
  /\ pc = "process"
  /\ D \subseteq tasks
  /\ done' = D
  /\ pc' = "write"
  /\ UNCHANGED <<db, completed, pending, outstanding, run, maxTs, tasks, value, boundVars>>

\* One write: the processor's results and Puts, then the Deletes of completed tasks.
WriteResults ==
  /\ pc = "write"
  /\ db' = [k \in TaskKeys |-> IF k \in done THEN 0 ELSE Apply(BatchOf(Worker))[k]]
  /\ completed' = completed \cup {<<k, value[k]>> : k \in done}
  /\ pending' = pending \ BatchOf(Worker)
  /\ pc' = "count"
  /\ UNCHANGED <<outstanding, run, batchVars, boundVars>>

\* Settle the counter; a full batch means another one with the same bound.
FinishBatch ==
  /\ pc = "count"
  /\ outstanding' = outstanding - Cardinality(done)
  /\ pc' = IF Cardinality(tasks) = ScanBatchSize THEN "scan" ELSE "sleep"
  /\ tasks' = {}
  /\ value' = [k \in TaskKeys |-> 0]
  /\ done' = {}
  /\ UNCHANGED <<db, completed, pending, run, maxTs, boundVars>>

\* sleep_for(kCheckIntervalMs), back to the test of run_.
Sleep ==
  /\ pc = "sleep"
  /\ pc' = "loop"
  /\ maxTs' = 0
  /\ UNCHANGED <<db, completed, pending, outstanding, run, tasks, value, done, boundVars>>

Tick ==
  /\ clock < MaxClock
  /\ clock' = clock + 1
  /\ UNCHANGED <<db, completed, pending, outstanding, run, pc, batchVars, nextVer, crashes>>
-----------------------------------------------------------------------------
\* The thread's own steps; what the processor completes is left open.
WorkerStep ==
  \/ BeginRound \/ ExitLoop \/ ScanPendingTasks
  \/ \E D \in SUBSET tasks : ProcessPendingTasks(D)
  \/ WriteResults \/ FinishBatch \/ Sleep

Next ==
  \/ \E t \in Threads, k \in TaskKeys : ScheduleWithWriteBatch(t, k)
  \/ \E c \in Clients : CommitBatch(c) \/ AbandonBatch(c)
  \/ Start \/ Stop \/ Join \/ Crash
  \/ WorkerStep
  \/ Tick

Spec == Init /\ [][Next]_vars

\* The execution thread keeps running between crashes; a processor may fail tasks
\* for ever.
FairSpec == Spec /\ WF_vars(WorkerStep)
-----------------------------------------------------------------------------
\* Type correctness; the counter, a size_t, never goes below zero.
TypeOK ==
  /\ db \in [TaskKeys -> Nat]
  /\ completed \subseteq TaskKeys \X Nat
  /\ pending \subseteq Puts
  /\ outstanding \in Nat
  /\ run \in BOOLEAN
  /\ pc \in {"none", "loop", "scan", "process", "write", "count", "sleep", "exited"}
  /\ maxTs \in Nat
  /\ tasks \subseteq TaskKeys
  /\ value \in [TaskKeys -> Nat]
  /\ done \subseteq tasks
  /\ clock \in 0..MaxClock
  /\ nextVer \in Nat \ {0}
  /\ crashes \in 0..MaxCrashes

\* outstandingTaskCount() "may be larger than the actual value", never smaller,
\* for tasks scheduled before the largest timestamp: increments precede the
\* commit they count and decrements follow the delete they count.
CountCoversStored ==
  pc # "none" => outstanding >= Cardinality(StoredBelow(Int64Max))

\* The same for every stored task, which is what the comments on
\* outstandingTaskCount and accurateOutstandingTaskCountSlow say.  It fails for
\* a task at Int64Max, which the scan behind the recount excludes.
CountCoversAll ==
  pc # "none" => outstanding >= Cardinality(Stored)

\* batchProcessing never hands the processor a task before its scheduled time.
NeverEarly == \A k \in tasks : k[1] <= clock

\* Results and deletion are one write, so across crashes a task whose results
\* are in the database is never found, and never processed, again.
CompletedOnce == \A k \in Stored : <<k, db[k]>> \notin completed

\* A task leaves the database only with the results of its processing; the
\* others "will be retried in next batch".
NoTaskLost ==
  [][\A k \in TaskKeys : db[k] # 0 /\ db'[k] = 0 => <<k, db[k]>> \in completed']_vars

\* What a processor may be expected to do: a task that it is given again and again
\* is completed at some point.
ProcessorFairness ==
  \A k \in TaskKeys : SF_vars(\E D \in SUBSET tasks : k \in D /\ ProcessPendingTasks(D))

\* With such a processor a due task is processed as long as the queue is not stopped,
\* however many tasks are ahead of it.
DueTasksRun ==
  ProcessorFairness =>
    \A k \in TaskKeys : (db[k] # 0 /\ k[1] <= clock /\ run) ~> (db[k] = 0 \/ ~run)

\* "Stop the run loop for checking pending tasks": after stop() the thread ends, so
\* that the join in destroy() returns.
StopEndsLoop == (pc # "none" /\ ~run) ~> (pc \in {"exited", "none"})

\* Whatever the processor does, the thread ends after stop() unless batch after batch
\* is full for ever.
StopEndsUnlessFull ==
  \/ []<>(pc = "count") /\ <>[](pc = "count" => Cardinality(tasks) = ScanBatchSize)
  \/ StopEndsLoop
=============================================================================
