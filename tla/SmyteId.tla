------------------------------ MODULE SmyteId ------------------------------
(***************************************************************************)
(* infra::SmyteId: ids made of a timestamp, a counter and a machine, with  *)
(* the sizes of the fields as constants.  Shifts and masks are the         *)
(* multiplications, divisions and remainders that they compute.            *)
(***************************************************************************)
EXTENDS Integers, FiniteSets

CONSTANTS
  kTimestampEpoch,             \* the first timestamp, in milliseconds
  kTimestampSize,              \* 2^40
  kUniqueSize,                 \* 2^10
  kMachineSize,                \* 2^13
  kVirtualShardCount,          \* 2^10
  kKafkaBackedSmyteIdStartMs,  \* ids from kafka are younger
  Inputs,                      \* kafka messages for which ids may be generated
  MaxIds                       \* bound: ids generated

kMachineBase == kMachineSize - kVirtualShardCount

\* The CHECKs of generateFromKafka; kafka offsets are not negative.
CanGenerate(offset, timestampMs, virtualShard) ==
  /\ offset \in Nat
  /\ timestampMs - kTimestampEpoch \in 0..(kTimestampSize - 1)
  /\ virtualShard \in 0..(kVirtualShardCount - 1)

ASSUME SizesAssumption ==
  /\ kTimestampEpoch \in Int
  /\ kTimestampSize \in Nat \ {0} /\ kUniqueSize \in Nat \ {0}
  /\ kVirtualShardCount \in Nat \ {0}
  /\ kMachineSize \in Nat
  /\ \E k \in 1..kMachineSize : kMachineSize = k * kVirtualShardCount
  /\ kKafkaBackedSmyteIdStartMs \in Int

ASSUME InputsAssumption == \A m \in Inputs : m.timestamp \in Int

\* Variant for a mutation test: the whole offset.
GenerateFromKafkaUnbounded(offset, timestampMs, virtualShard) ==
  ((timestampMs - kTimestampEpoch) * kUniqueSize + offset) * kMachineSize
    + kMachineBase + virtualShard

GenerateFromKafka(offset, timestampMs, virtualShard) ==
  ((timestampMs - kTimestampEpoch) * kUniqueSize + (offset % kUniqueSize)) * kMachineSize
    + kMachineBase + virtualShard

Timestamp(id) == id \div (kUniqueSize * kMachineSize) + kTimestampEpoch

Machine(id) == id % kMachineSize

\* The virtual shard of an id, and -1 if it has none.
GetVirtualShard(id) ==
  IF Machine(id) < kMachineBase THEN -1 ELSE Machine(id) % kVirtualShardCount

IsGeneratedFromKafka(id) ==
  Timestamp(id) >= kKafkaBackedSmyteIdStartMs /\ Machine(id) >= kMachineBase

Id(m) == GenerateFromKafka(m.offset, m.timestamp, m.shard)

VARIABLE messages  \* the messages that have an id

IdsInit == messages = {}

Assign(m) ==
  /\ Cardinality(messages) < MaxIds
  /\ CanGenerate(m.offset, m.timestamp, m.shard)
  /\ messages' = messages \cup {m}

IdsNext == \E m \in Inputs : Assign(m)

IdsSpec == IdsInit /\ [][IdsNext]_messages

\* An id is not negative and fits its bits, and the timestamp and the virtual
\* shard of its message can be read off it.
FieldsRecovered(m) ==
  /\ Id(m) \in 0..(kTimestampSize * kUniqueSize * kMachineSize - 1)
  /\ Timestamp(Id(m)) = m.timestamp
  /\ GetVirtualShard(Id(m)) = m.shard
  /\ IsGeneratedFromKafka(Id(m)) <=> m.timestamp >= kKafkaBackedSmyteIdStartMs

\* Ids sort by time.  Equal ids come from the same millisecond and shard, and
\* from offsets that are a multiple of kUniqueSize apart.
IdsFaithful ==
  \A m, n \in messages :
    /\ FieldsRecovered(m)
    /\ m.timestamp < n.timestamp => Id(m) < Id(n)
    /\ Id(m) = Id(n) => /\ m.timestamp = n.timestamp /\ m.shard = n.shard
                        /\ m.offset % kUniqueSize = n.offset % kUniqueSize
=============================================================================
