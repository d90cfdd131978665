\* A group of up to three shards and a single family, seven configurations; two
\* consumers, versions around the clock's values; four writes, four tables, two
\* failed freezes, one crash; two connections, six commands; archives
\* of two values, two keys and two ids.
SPECIFICATION MCSpec
CONSTANTS
  Names = {"data", "index"}
  Others = {"old"}
  Default = "default"
  Metadata = "smyte-metadata"
  NoGroup = NoGroup
  Configs <- MCConfigs
  N = 2
  Versions = {1, 2, 3}
  MaxAge = 1
  MaxClock = 4
  MaxResets = 2
  MaxWrites = 4
  MaxTables = 4
  MaxFreezes = 3
  MaxCrashes = 1
  Radix = 2
  ElementSize = 2
  Archives <- MCArchives
  DbKeys <- MCKeys
  MaxKeys = 2
  kTimestampEpoch = 10
  kTimestampSize = 4
  kUniqueSize = 4
  kMachineSize = 8
  kVirtualShardCount = 2
  kKafkaBackedSmyteIdStartMs = 11
  Inputs <- MCInputs
  MaxIds = 2
  c1 = c1
  c2 = c2
  Connections = {c1, c2}
  MaxCommands = 6
SYMMETRY ConnectionSymmetry
INVARIANTS AllOrNothing RejectedNotCommitted NothingLeftOver
INVARIANTS RestartPossible ServingExact PersistedWasApplied ListedKept BackupComplete
INVARIANTS ArchiveFaithful KeysFaithful IdsFaithful
PROPERTIES ServedNotReapplied
\* Nothing follows the last read of an archive.
CHECK_DEADLOCK FALSE
