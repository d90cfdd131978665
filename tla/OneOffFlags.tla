----------------------------- MODULE OneOffFlags -----------------------------
(***************************************************************************)
(* The boot sequence of RedisPipelineBootstrap (main): open RocksDB, link  *)
(* the kafka consumers in the order of their configurations, start the     *)
(* components, persist the version timestamp, serve.  One-off flags        *)
(* (create the database, reset the offset of a consumer) are applied on    *)
(* the way if the version timestamp given on the command line allows it.   *)
(* The process may die at any point and be started again with any flags.   *)
(***************************************************************************)
EXTENDS Integers, FiniteSets

CONSTANTS
  N,           \* consumers whose configuration has a one-off flag
  Versions,    \* values of --version_timestamp_ms
  MaxAge,      \* kMaxVersionTimestampAgeMs
  MaxClock,    \* bound: values of the clock
  MaxResets    \* bound: times one flag of one version is counted

ASSUME FlagsAssumption ==
  /\ N \in Nat /\ MaxAge \in Nat /\ MaxClock \in Nat /\ MaxResets \in Nat
  /\ Versions \subseteq Nat

\* The version timestamp when the flag is not given.
Unspecified == -1

VARIABLES
  clock,     \* system_clock, in milliseconds
  exists,    \* does the database exist?
  stored,    \* VersionTimestamp in RocksDB, Unspecified if there is none
  phase,     \* how far main() is; "down" when there is no process
  version,   \* --version_timestamp_ms of this process
  linked,    \* consumers linked so far
  resets,    \* how often the one-off of a consumer was applied, per version
  served     \* versions a process has served with

flagsVars == <<clock, exists, stored, phase, version, linked, resets, served>>

FlagsInit ==
  /\ clock = 0 /\ exists = FALSE /\ stored = Unspecified
  /\ phase = "down" /\ version = Unspecified /\ linked = 0
  /\ resets = [v \in Versions |-> [c \in 1..N |-> 0]]
  /\ served = {}
-----------------------------------------------------------------------------
(* Variants with a plausible mistake, for mutation tests of the properties. *)

\* Accept the version that is stored.
CanApplyStoredVersion(v) == v >= 0 /\ clock <= v /\ (exists => stored <= v)

\* Persist the version before the consumers are linked.
OpenPersists ==
  /\ phase = "boot" /\ exists
  /\ stored' = IF version > stored THEN version ELSE stored
  /\ phase' = "link"
  /\ UNCHANGED <<clock, exists, version, linked, resets, served>>
-----------------------------------------------------------------------------
\* canApplyOneOffFlags: the version is given, has not passed, and is newer than
\* the one in the database, if there is a database.
CanApplyOneOffFlags(v) == v >= 0 /\ clock <= v /\ (exists => stored < v)

Tick ==
  /\ clock < MaxClock
  /\ clock' = clock + 1
  /\ UNCHANGED <<exists, stored, phase, version, linked, resets, served>>

\* The process is started, with a version timestamp or without.
Launch(v) ==
  /\ phase = "down"
  /\ phase' = "boot"
  /\ version' = v
  /\ linked' = 0
  /\ UNCHANGED <<clock, exists, stored, resets, served>>

\* initializeRocksDb: an existing database is opened; a missing one is created
\* with create_if_missing, or with its one-off form if that can be applied.
OpenDatabase ==
  /\ phase = "boot" /\ exists
  /\ phase' = "link"
  /\ UNCHANGED <<clock, exists, stored, version, linked, resets, served>>

CreateDatabase(createIfMissing) ==
  /\ phase = "boot" /\ ~exists
  /\ IF createIfMissing \/ CanApplyOneOffFlags(version)
     THEN exists' = TRUE /\ phase' = "link"
     ELSE phase' = "down" /\ UNCHANGED exists  \* CHECK: RocksDB initialization failed
  /\ UNCHANGED <<clock, stored, version, linked, resets, served>>

\* initializeKafkaConsumer, one configuration: link it and apply its one-off flag.
LinkConsumer ==
  /\ phase = "link" /\ linked < N
  /\ linked' = linked + 1
  /\ IF CanApplyOneOffFlags(version)
     THEN /\ resets[version][linked + 1] < MaxResets
          /\ resets' = [resets EXCEPT ![version][linked + 1] = @ + 1]
     ELSE UNCHANGED resets
  /\ UNCHANGED <<clock, exists, stored, phase, version, served>>

\* startOptionalComponents: the consumers begin to commit offsets of their own.
StartComponents ==
  /\ phase = "link" /\ linked = N
  /\ phase' = "started"
  /\ UNCHANGED <<clock, exists, stored, version, linked, resets, served>>

\* persistVersionTimestamp, then launchServer.
Persist ==
  /\ phase = "started"
  /\ stored' = IF CanApplyOneOffFlags(version) THEN version ELSE stored
  /\ phase' = "serving"
  /\ served' = served \cup ({version} \cap Versions)
  /\ UNCHANGED <<clock, exists, version, linked, resets>>

\* A signal ends launchServer, and main stops the components; or the process dies.
Shutdown ==
  /\ phase # "down"
  /\ phase' = "down"
  /\ UNCHANGED <<clock, exists, stored, version, linked, resets, served>>

FlagsNext ==
  \/ Tick
  \/ \E v \in Versions \cup {Unspecified} : Launch(v)
  \/ OpenDatabase
  \/ \E createIfMissing \in BOOLEAN : CreateDatabase(createIfMissing)
  \/ LinkConsumer \/ StartComponents \/ Persist \/ Shutdown

FlagsSpec == FlagsInit /\ [][FlagsNext]_flagsVars
-----------------------------------------------------------------------------
\* Type correctness: the boot links no more consumers than are configured.
FlagsTypeOK ==
  /\ clock \in 0..MaxClock
  /\ exists \in BOOLEAN
  /\ stored \in Versions \cup {Unspecified}
  /\ phase \in {"down", "boot", "link", "started", "serving"}
  /\ version \in Versions \cup {Unspecified}
  /\ linked \in 0..N
  /\ resets \in [Versions -> [1..N -> 0..MaxResets]]
  /\ served \subseteq Versions

\* Once a process has served with a version, no one-off flag of that version is
\* applied again, whatever restarts happen with whatever version on the command line.
ServedNotReapplied ==
  [][\A v \in served : resets'[v] = resets[v]]_flagsVars

\* The version in the database never decreases: a rollback of the command line
\* does not open the way for flags that were applied before.
StoredMonotone == [][stored' >= stored]_flagsVars

\* A version that was persisted had all its one-off flags applied, every consumer's.
PersistedWasApplied ==
  stored # Unspecified => \A c \in 1..N : resets[stored][c] > 0

\* "any flags end with `_one_off` is a one-off flag that only gets applied once
\* regardless of server restart".  It fails when a process dies between linking
\* a consumer and Persist.
AppliedOnce == \A v \in Versions, c \in 1..N : resets[v][c] <= 1

\* "Only one-off flags with a version newer than stored in db, but also not too
\* old compared to the current timestamp will be applied": a version that is
\* newer than the stored one and at most MaxAge old can be applied.  It fails
\* once the clock has passed v.
RecentVersionApplies ==
  \A v \in Versions : stored < v /\ clock - v <= MaxAge => CanApplyOneOffFlags(v)
=============================================================================
