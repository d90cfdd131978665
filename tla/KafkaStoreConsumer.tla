-------------------------- MODULE KafkaStoreConsumer --------------------------
(***************************************************************************)
(* infra::kafka::store::Consumer: a thread that reads the messages of one  *)
(* partition from files in cold storage.  A file is named by the offset of *)
(* its first message; each request of a download may fail, and the file    *)
(* may not be there yet.                                                   *)
(* The committed position is a pair, the offset of the next message and    *)
(* the offset of the file that holds it.                                   *)
(*                                                                         *)
(* The subclass that processes messages is not part of the repository.  It *)
(* is taken to commit the effects of a batch and the pair in one write.    *)
(***************************************************************************)
EXTENDS GoogleCloudStorage, Integers, Sequences, FiniteSetsExt

CONSTANTS
  Starts,      \* first offsets of the files
  Total,       \* offset after the last file
  Seeds,       \* values of initial_offset_one_off
  MaxBatchSize,\* kMaxBatchSize
  MaxCrashes   \* bound: crashes

ASSUME StoreAssumption ==
  /\ Total \in Nat /\ Starts \subseteq 0..(Total - 1) /\ 0 \in Starts
  /\ Seeds \subseteq 0..Total
  /\ MaxBatchSize \in Nat \ {0} /\ MaxCrashes \in Nat

Offsets == 0..Total

OffsetInvalid == -1001

\* The first offset after file s, and the `count` in the metadata of the file.
End(s) == Min({e \in Starts \cup {Total} : e > s})
Count(s) == End(s) - s

VARIABLES
  uploaded,  \* the files that start below this offset are in cold storage
  db,        \* RocksDB: the committed pair, its origin and the messages applied, in order
  pc,        \* where the consumer thread is; "none" when the process is down
  run,       \* run_
  reader,    \* is currentDataReader_ set?
  current,   \* currentFileOffset_
  nextFile,  \* nextFileOffset_
  next,      \* nextKafkaOffset_
  batch,     \* messages processed in this batch
  fatal,     \* how init ended the last time it was called: "ok", "check" or "null"
  crashes

files == <<reader, current, nextFile, next>>
vars == <<uploaded, db, pc, run, files, batch, fatal, crashes, credential>>

Available(s) == s \in Starts /\ s < uploaded

Init ==
  /\ StorageInit
  /\ uploaded = 0
  /\ db = [kafka |-> OffsetInvalid, file |-> OffsetInvalid, origin |-> 0, applied |-> <<>>]
  /\ pc = "none" /\ run = FALSE
  /\ reader = FALSE /\ current = 0 /\ nextFile = 0 /\ next = 0
  /\ batch = <<>>
  /\ fatal = "ok"
  /\ crashes = 0
-----------------------------------------------------------------------------
(* Variants with a plausible mistake, for mutation tests of the properties. *)

\* Commit the file that was just exhausted.
CommitExhaustedFile ==
  /\ pc = "commit"
  /\ db' = [db EXCEPT !.kafka = next, !.file = current, !.applied = @ \o batch]
  /\ batch' = <<>>
  /\ pc' = "loop"
  /\ UNCHANGED <<uploaded, run, files, fatal, crashes, credential>>

\* Write the pair before the effects of the batch.
CommitPairOnly ==
  /\ pc = "commit"
  /\ db' = [db EXCEPT !.kafka = next, !.file = IF reader THEN current ELSE nextFile]
  /\ batch' = <<>>
  /\ pc' = "loop"
  /\ UNCHANGED <<uploaded, run, files, fatal, crashes, credential>>

\* Retry the download without looking at run_.
BeginDownloadAlways(status) ==
  /\ pc = "download"
  /\ Authenticate(status)
  /\ pc' = IF status = "ok" THEN "metadata" ELSE "download"
  /\ UNCHANGED <<uploaded, db, run, files, batch, fatal, crashes>>
-----------------------------------------------------------------------------
\* A file is written to cold storage.
Upload ==
  /\ uploaded < Total
  /\ uploaded' = End(uploaded)
  /\ UNCHANGED <<db, pc, run, files, batch, fatal, crashes, credential>>

\* initial_offset_one_off: commitRawKafkaAndFileOffset with the file offset 0,
\* at the first start of the service.
Seed(k) ==
  /\ pc = "none" /\ db.kafka = OffsetInvalid
  /\ db' = [kafka |-> k, file |-> 0, origin |-> k, applied |-> <<>>]
  /\ fatal' = "ok"
  /\ UNCHANGED <<uploaded, pc, run, files, batch, crashes, credential>>

\* The CHECKs of init: there is no committed pair, or it does not fit the file.
PairUnfit(downloaded) ==
  \/ db.file < 0 \/ db.kafka < db.file
  \/ downloaded /\ db.file + Count(db.file) <= db.kafka

\* init must skip messages of a file that it could not download.
ReaderNull(downloaded) == ~downloaded /\ db.kafka # db.file

\* init and start, the download having failed or not.  The process aborts on a
\* CHECK, and dies on a null reader.
Start(downloaded) ==
  /\ pc = "none"
  /\ downloaded => Available(db.file)
  /\ IF PairUnfit(downloaded) \/ ReaderNull(downloaded)
     THEN /\ fatal' = IF PairUnfit(downloaded) THEN "check" ELSE "null"
          /\ UNCHANGED <<pc, run, files, credential>>
     ELSE /\ \E status \in {"ok", "error"} : Authenticate(status) /\ (downloaded => status = "ok")
          /\ reader' = downloaded
          /\ current' = db.file
          /\ nextFile' = IF downloaded THEN db.file + Count(db.file) ELSE db.file
          /\ next' = db.kafka
          /\ fatal' = "ok"
          /\ run' = TRUE /\ pc' = "loop"
  /\ batch' = <<>>
  /\ UNCHANGED <<uploaded, db, crashes>>

\* consumeBatch begins: open the next file if there is none.
EnterBatch ==
  /\ pc = "loop" /\ run
  /\ pc' = IF reader THEN "read" ELSE "download"
  /\ UNCHANGED <<uploaded, db, run, files, batch, fatal, crashes, credential>>

ExitLoop ==
  /\ pc = "loop" /\ ~run
  /\ pc' = "ended"
  /\ UNCHANGED <<uploaded, db, run, files, batch, fatal, crashes, credential>>

\* downloadFile calls downloadObject, which authenticates.  An error means a
\* minute of sleep and another attempt.
BeginDownload(status) ==
  /\ pc = "download" /\ run
  /\ Authenticate(status)
  /\ pc' = IF status = "ok" THEN "metadata" ELSE "download"
  /\ UNCHANGED <<uploaded, db, run, files, batch, fatal, crashes>>

DownloadMetadata(status) ==
  /\ pc = "metadata"
  /\ GetObject(Available(nextFile), status)
  /\ pc' = IF status = "ok" THEN "data" ELSE "download"
  /\ UNCHANGED <<uploaded, db, run, files, batch, fatal, crashes>>

\* The data is downloaded and the count in the metadata is valid, or not.
\* consumeBatch opens the file, unless run_ is false by then.
DownloadData(status) ==
  /\ pc = "data"
  /\ GetMedia(status)
  /\ IF status = "ok" /\ run
     THEN /\ reader' = TRUE
          /\ current' = nextFile
          /\ nextFile' = nextFile + Count(nextFile)
          /\ pc' = "read"
     ELSE /\ pc' = IF status = "ok" THEN "commit" ELSE "download"
          /\ UNCHANGED <<reader, current, nextFile>>
  /\ UNCHANGED <<uploaded, db, run, next, batch, fatal, crashes>>

\* downloadFile and consumeBatch return, as run_ is false.
DownloadStopped ==
  /\ pc = "download" /\ ~run
  /\ pc' = "commit"
  /\ UNCHANGED <<uploaded, db, run, files, batch, fatal, crashes, credential>>

\* Read and process one message; close the file after its last one.
ReadOne ==
  /\ pc = "read" /\ run /\ Len(batch) < MaxBatchSize
  /\ batch' = Append(batch, next)
  /\ next' = next + 1
  /\ IF next' >= nextFile
     THEN reader' = FALSE /\ pc' = "commit"
     ELSE UNCHANGED <<reader, pc>>
  /\ UNCHANGED <<uploaded, db, run, current, nextFile, fatal, crashes, credential>>

\* run_ is false, the batch is full or the time is over, never before one message.
EndBatch ==
  /\ pc = "read"
  /\ ~run \/ batch # <<>>
  /\ pc' = "commit"
  /\ UNCHANGED <<uploaded, db, run, files, batch, fatal, crashes, credential>>

\* commitNextProcessKafkaAndFileOffsets with the batch of the subclass, and the
\* file that holds the next message.
Commit ==
  /\ pc = "commit"
  /\ db' = [db EXCEPT !.kafka = next, !.file = IF reader THEN current ELSE nextFile,
                      !.applied = @ \o batch]
  /\ batch' = <<>>
  /\ pc' = "loop"
  /\ UNCHANGED <<uploaded, run, files, fatal, crashes, credential>>

Stop ==
  /\ pc # "none" /\ run
  /\ run' = FALSE
  /\ UNCHANGED <<uploaded, db, pc, files, batch, fatal, crashes, credential>>

\* destroy: join the thread and drop the reader.
Destroy ==
  /\ pc = "ended" /\ ~run
  /\ pc' = "none" /\ credential' = "none"
  /\ reader' = FALSE
  /\ UNCHANGED <<uploaded, db, run, current, nextFile, next, batch, fatal, crashes>>

Crash ==
  /\ pc # "none" /\ crashes < MaxCrashes
  /\ crashes' = crashes + 1
  /\ pc' = "none" /\ run' = FALSE /\ reader' = FALSE /\ credential' = "none"
  /\ batch' = <<>>
  /\ UNCHANGED <<uploaded, db, current, nextFile, next, fatal>>

ExpireCredential ==
  Expire /\ UNCHANGED <<uploaded, db, pc, run, files, batch, fatal, crashes>>

Download(status) == BeginDownload(status) \/ DownloadMetadata(status) \/ DownloadData(status)

ConsumerStep ==
  \/ EnterBatch \/ ExitLoop \/ DownloadStopped \/ ReadOne \/ EndBatch \/ Commit
  \/ \E status \in {"ok", "error"} : Download(status)

Next ==
  \/ Upload \/ Crash \/ Stop \/ Destroy
  \/ \E k \in Seeds : Seed(k)
  \/ \E downloaded \in BOOLEAN : Start(downloaded)
  \/ ExpireCredential \/ ConsumerStep

Spec == Init /\ [][Next]_vars

\* The thread is scheduled, a request that is possible again and again succeeds
\* in the end, and a process that is down is started again.
Fairness ==
  /\ WF_vars(ConsumerStep)
  /\ SF_vars(BeginDownload("ok")) /\ SF_vars(DownloadMetadata("ok")) /\ SF_vars(DownloadData("ok"))
  /\ WF_vars(Destroy) /\ WF_vars(Upload) /\ WF_vars(Start(TRUE))
  /\ \A k \in Seeds : WF_vars(Seed(k))

FairSpec == Spec /\ Fairness
-----------------------------------------------------------------------------
\* Type correctness of cold storage, the committed pair and the reader.
TypeOK ==
  /\ uploaded \in Starts \cup {0, Total}
  /\ db \in [kafka: Offsets \cup {OffsetInvalid}, file: Offsets \cup {OffsetInvalid},
             origin: Offsets, applied: Seq(Offsets)]
  /\ pc \in {"none", "loop", "download", "metadata", "data", "read", "commit", "ended"}
  /\ run \in BOOLEAN /\ reader \in BOOLEAN
  /\ current \in Offsets /\ nextFile \in Offsets /\ next \in Offsets
  /\ batch \in Seq(Offsets) /\ Len(batch) <= MaxBatchSize
  /\ fatal \in {"ok", "check", "null"}
  /\ crashes \in 0..MaxCrashes
  /\ credential \in Credentials

\* Every message from the first offset on is applied once and in order, across
\* files, failed downloads, stops and crashes.
InOrderOnce ==
  db.kafka >= 0 => db.applied = [i \in 1..(db.kafka - db.origin) |-> db.origin + i - 1]

\* The committed pair names a file that holds the next message, or the file that
\* follows: the CHECKs of init hold at every restart.
RestartPossible == db.kafka >= 0 => fatal # "check"

\* "Kafka offset and file offset must match when starting a new file", and an
\* open reader is at a message of its file.
ReaderInFile ==
  pc # "none" => IF reader THEN current <= next /\ next < nextFile ELSE next = nextFile

\* "The target file does not exist yet, will retry in the consumer loop": a
\* failed first download does not end the process.  It fails for a restart
\* inside a file: init uses the reader that the download did not set.
FailedDownloadRetried == fatal # "null"

\* A message that reaches cold storage is applied, if the consumer is not
\* stopped for good or again and again.
MessagesApplied ==
  <>[]run => \A m \in Offsets : (uploaded > m) ~> (db.origin > m \/ db.kafka > m)

\* stop() ends the consumer thread, also while it waits for a file.
StopEndsThread == (pc # "none" /\ ~run) ~> (pc = "none")
=============================================================================
