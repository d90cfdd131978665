------------------------------- MODULE Freeze -------------------------------
(***************************************************************************)
(* The freeze, thaw and compact commands: a backup client freezes the      *)
(* database, copies the files it was told, and thaws it, while writes,     *)
(* flushes and compactions go on.  freeze() is three calls to RocksDB, any *)
(* of which may fail, and the database changes between them.  A write is   *)
(* the number of the write; a file stands for the writes it holds.         *)
(***************************************************************************)
EXTENDS Integers

CONSTANTS
  MaxWrites,  \* bound: writes
  MaxTables,  \* bound: table files ever created
  MaxFreezes, \* bound: failed freezes in a row
  MaxCrashes  \* bound: crashes

ASSUME FreezeAssumption ==
  MaxWrites \in Nat /\ MaxTables \in Nat /\ MaxFreezes \in Nat /\ MaxCrashes \in Nat

Writes == 0..MaxWrites

\* A table holds the writes lo+1..hi; id tells a rewritten table from the old.
Tables == [lo: Writes, hi: Writes, id: 1..MaxTables]

\* A write-ahead log is known by the number of writes before it, its length
\* by the number of writes when it was listed.
LogSizes == [lo: Writes, upto: Writes]

VARIABLES
  numWrites,   \* number of writes so far
  live,      \* tables of the current version
  tables,    \* table files on disk
  logs,      \* logs on disk, by their first write
  numTables, \* number of tables created
  disabled,  \* how often file deletions were disabled
  pc,        \* where the backup client is
  begun,     \* writes when it sent freeze
  liveFiles, \* liveFiles of freeze()
  walLogs,   \* walLogs of freeze()
  crashes

files == <<numWrites, live, tables, logs, numTables>>
backup == <<pc, begun, liveFiles, walLogs>>
freezeVars == <<files, disabled, backup, crashes>>

FreezeInit ==
  /\ numWrites = 0
  /\ live = {} /\ tables = {} /\ logs = {0}
  /\ numTables = 0
  /\ disabled = 0
  /\ pc = "idle" /\ begun = 0 /\ liveFiles = {} /\ walLogs = {}
  /\ crashes = 0

MaxOf(S) == CHOOSE x \in S : \A y \in S : y <= x

\* The log that is being written.
CurrentLog == MaxOf(logs)

\* The last write in a log.
LogEnd(l) == LET later == {m \in logs : m > l} IN
  IF later = {} THEN numWrites ELSE CHOOSE m \in later : \A k \in later : m <= k
-----------------------------------------------------------------------------
(* Variants with a plausible mistake, for mutation tests of the properties. *)

\* List the files without disabling their deletion.
DisableNothing == UNCHANGED disabled

\* List only the log that is being written.
CurrentLogOnly == {[lo |-> CurrentLog, upto |-> numWrites]}
-----------------------------------------------------------------------------
(* RocksDB, as freeze() and compact use it. *)

Write ==
  /\ numWrites < MaxWrites
  /\ numWrites' = numWrites + 1
  /\ UNCHANGED <<live, tables, logs, numTables, disabled, backup, crashes>>

\* The memtable becomes a table, and a new log is begun.
Flush ==
  LET new == [lo |-> CurrentLog, hi |-> numWrites, id |-> numTables + 1]
  IN /\ numTables < MaxTables
     /\ CurrentLog < numWrites
     /\ live' = live \cup {new}
     /\ tables' = tables \cup {new}
     /\ logs' = logs \cup {numWrites}
     /\ numTables' = numTables + 1
     /\ UNCHANGED <<numWrites, disabled, backup, crashes>>

\* compact, or a compaction of RocksDB's own: the tables are rewritten as one.
ForceCompaction ==
  LET new == [lo |-> 0, hi |-> MaxOf({f.hi : f \in live}), id |-> numTables + 1]
  IN /\ numTables < MaxTables
     /\ live # {}
     /\ live' = {new}
     /\ tables' = tables \cup {new}
     /\ numTables' = numTables + 1
     /\ UNCHANGED <<numWrites, logs, disabled, backup, crashes>>

\* Files that are not needed are deleted, unless that is disabled.
DeleteObsoleteFiles ==
  /\ disabled = 0
  /\ tables # live \/ logs # {CurrentLog}
  /\ tables' = live
  /\ logs' = {CurrentLog}
  /\ UNCHANGED <<numWrites, live, numTables, disabled, backup, crashes>>
-----------------------------------------------------------------------------
(* freeze(). *)

DisableFileDeletions == disabled' = disabled + 1

FreezeDisables ==
  /\ pc \in {"idle", "failed"}
  /\ disabled < MaxFreezes
  /\ begun' = numWrites
  /\ \/ /\ DisableFileDeletions
        /\ pc' = "disabled"
     \/ /\ UNCHANGED disabled
        /\ pc' = "failed"
  /\ UNCHANGED <<files, liveFiles, walLogs, crashes>>

GetLiveFiles ==
  /\ pc = "disabled"
  /\ \/ /\ liveFiles' = live
        /\ pc' = "listing"
     \/ /\ UNCHANGED liveFiles
        /\ pc' = "failed"
  /\ UNCHANGED <<files, disabled, begun, walLogs, crashes>>

SortedWalFiles == {[lo |-> l, upto |-> LogEnd(l)] : l \in logs}

GetSortedWalFiles ==
  /\ pc = "listing"
  /\ \/ /\ walLogs' = SortedWalFiles
        /\ pc' = "frozen"
     \/ /\ UNCHANGED walLogs
        /\ pc' = "failed"
  /\ UNCHANGED <<files, disabled, begun, liveFiles, crashes>>

\* EnableFileDeletions() without an argument enables them however often they
\* were disabled.
EnableFileDeletions == disabled' = 0

ForgetFiles ==
  pc' = "idle" /\ begun' = 0 /\ liveFiles' = {} /\ walLogs' = {}

\* thaw(): after the files were copied, after a failed freeze, or stray.
Thaw ==
  /\ pc \in {"idle", "frozen", "failed"}
  /\ EnableFileDeletions
  /\ ForgetFiles
  /\ UNCHANGED <<files, crashes>>

\* The process dies and RocksDB is opened again: logs are replayed into a
\* table, the client starts anew.
CrashAndReopen ==
  /\ crashes < MaxCrashes
  /\ crashes' = crashes + 1
  /\ IF CurrentLog = numWrites THEN UNCHANGED <<live, numTables>> ELSE
       LET new == [lo |-> CurrentLog, hi |-> numWrites, id |-> numTables + 1]
       IN numTables < MaxTables /\ live' = live \cup {new} /\ numTables' = numTables + 1
  /\ tables' = live'
  /\ logs' = {numWrites}
  /\ disabled' = 0
  /\ ForgetFiles
  /\ UNCHANGED numWrites

FreezeNext ==
  \/ Write \/ Flush \/ ForceCompaction \/ DeleteObsoleteFiles
  \/ FreezeDisables \/ GetLiveFiles \/ GetSortedWalFiles \/ Thaw \/ CrashAndReopen

FreezeSpec == FreezeInit /\ [][FreezeNext]_freezeVars
-----------------------------------------------------------------------------
\* Type correctness of the files and of the lists of freeze().
FreezeTypeOK ==
  /\ numWrites \in Writes
  /\ live \subseteq tables /\ tables \subseteq Tables
  /\ logs \subseteq Writes /\ logs # {}
  /\ numTables \in 0..MaxTables
  /\ disabled \in Nat
  /\ pc \in {"idle", "disabled", "listing", "frozen", "failed"}
  /\ begun \in Writes
  /\ liveFiles \subseteq Tables /\ walLogs \subseteq LogSizes
  /\ crashes \in 0..MaxCrashes

\* Between freeze and thaw every file freeze() listed stays on disk, so the
\* client can copy it whatever is flushed and compacted meanwhile.
ListedKept ==
  pc = "frozen" => liveFiles \subseteq tables /\ {w.lo : w \in walLogs} \subseteq logs

Copied ==
  (UNION {(f.lo + 1)..f.hi : f \in liveFiles}) \cup (UNION {(w.lo + 1)..w.upto : w \in walLogs})

\* Tables are listed before logs, and a flush may fall in between: still the
\* copy holds every write made before freeze, and no write without all the
\* earlier ones.
BackupComplete ==
  pc = "frozen" => \E n \in begun..numWrites : Copied = 1..n
=============================================================================
