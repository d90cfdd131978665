------------------------ MODULE KafkaConsumerProofs ------------------------
(***************************************************************************)
(* The consumer applies messages exactly once, waitforcommit tells the     *)
(* truth and ready comes late enough, for any number of messages, waiters, *)
(* crashes and losses of power.  The ids that are generated from the       *)
(* offsets of messages are faithful to them, whatever the sizes of their   *)
(* fields.                                                                 *)
(***************************************************************************)
EXTENDS KafkaConsumer, SmyteId, TLAPS

\* Contents that a start of the process can go on from: each message is applied
\* as often as the offset says, and a pass that has an origin is behind it.
Sound(s) ==
  /\ Consistent(s)
  /\ s.origin < 0 => s.next = s.origin
  /\ s.origin >= 0 => s.next >= s.origin

\* Everything a loss of power may bring back is sound.
StoreInv == Sound(db) /\ \A s \in unsynced : Sound(s)

\* The write batch of a running consumer continues where RocksDB ends; only the
\* first batch behind OFFSET_BEGINNING begins where the broker does.
LinkInv ==
  pc # "none" =>
    /\ db.next # OffsetInvalid
    /\ from <= pos /\ (from < 0 => pos = from)
    /\ from = db.next \/ (db.next < 0 /\ from >= 0)
    /\ pc = "commit" => from >= 0
    /\ pc = "publish" => pos = db.next

\* What was published is committed, and a process that is down publishes nothing.
AckInv ==
  /\ pc = "none" => lastCommitted = OffsetInvalid
  /\ lastCommitted <= db.next
  /\ AckedCommitted

ReadyInv == startHi <= hi /\ ReadyMeansRead

\* Nobody waits is a state of the waiters.
LEMMA NobodyWaits == [w \in Waiters |-> OffsetInvalid] \in [Waiters -> Offsets \cup {OffsetInvalid}]
  OBVIOUS

\* What the operator commits is a raw offset.
LEMMA SeedsAreRaw == Seeds \subseteq RawOffsets
  BY ConsumerAssumption DEF RawOffsets, OffsetBeginning

\* Types are preserved by every step.
LEMMA TypeStep == TypeOK /\ [Next]_vars => TypeOK'
<1> SUFFICES ASSUME TypeOK, [Next]_vars PROVE TypeOK'
  OBVIOUS
<1> USE ConsumerAssumption
<1>1. ASSUME Vanish, acked' \subseteq Offsets, db' \in Contents, unsynced' \subseteq Contents,
             crashes' \in 0..MaxCrashes
      PROVE  TypeOK'
  <2>1. waiting' \in [Waiters -> Offsets \cup {OffsetInvalid}]
    BY <1>1, NobodyWaits DEF Vanish
  <2>2. from' \in RawOffsets /\ pos' \in RawOffsets /\ lastCommitted' \in StoredOffsets
    BY <1>1 DEF Vanish, RawOffsets, StoredOffsets
  <2>3. run' \in BOOLEAN /\ lagging' \in BOOLEAN
    BY <1>1 DEF Vanish
  <2>4. startHi' \in 0..MaxOffset
    BY <1>1 DEF Vanish
  <2>. QED
    BY <1>1, <2>1, <2>2, <2>3, <2>4, Zenon DEF TypeOK, Vanish, broker
<1>2. CASE Produce
  BY <1>2 DEF TypeOK, Produce, storage, bounds
<1>3. CASE Expire
  BY <1>3 DEF TypeOK, Expire, storage, bounds
<1>4. CASE Flush
  BY <1>4 DEF TypeOK, Flush, broker, bounds
<1>5. ASSUME NEW o \in RawOffsets, CommitRawOffset(o) PROVE TypeOK'
  <2>1. db' \in Contents
    BY <1>5 DEF CommitRawOffset, Contents, StoredOffsets, Unapplied
  <2>2. unsynced' \subseteq Contents
    BY <1>5 DEF CommitRawOffset, Unsynced, TypeOK
  <2>3. seeks' \in 0..MaxSeeks
    BY <1>5 DEF CommitRawOffset, TypeOK
  <2>. QED
    BY <1>5, <2>1, <2>2, <2>3 DEF CommitRawOffset, TypeOK, broker
<1>6. CASE Crash
  BY <1>6, <1>1 DEF Crash, TypeOK, storage
<1>7. CASE LosePower
  <2>1. db' \in Contents /\ unsynced' \subseteq Contents /\ acked' \subseteq Offsets
    BY <1>7 DEF LosePower, TypeOK
  <2>2. crashes' \in 0..MaxCrashes
    BY <1>7 DEF LosePower, TypeOK
  <2>. QED
    BY <1>7, <1>1, <2>1, <2>2 DEF LosePower
<1>8. CASE Destroy
  BY <1>8, <1>1 DEF Destroy, TypeOK, storage
<1>9. CASE Start
  BY <1>9 DEF Start, TypeOK, Contents, StoredOffsets, broker, storage, bounds
<1>10. CASE Stop
  BY <1>10 DEF Stop, TypeOK, broker, storage, bounds
<1>11. CASE EnterBatch
  BY <1>11 DEF EnterBatch, TypeOK, broker, storage, bounds
<1>12. CASE ProcessOne
  <2>1. Position \in 0..(MaxOffset - 1)
    BY <1>12 DEF ProcessOne, Position, TypeOK, RawOffsets, OffsetBeginning
  <2>2. from' \in RawOffsets /\ pos' \in RawOffsets
    BY <1>12, <2>1 DEF ProcessOne, TypeOK, RawOffsets
  <2>. QED
    BY <1>12, <2>2 DEF ProcessOne, TypeOK, broker, storage, bounds
<1>13. CASE PartitionEof
  <2>1. from' \in RawOffsets /\ pos' \in RawOffsets
    BY <1>13 DEF PartitionEof, TypeOK, RawOffsets
  <2>. QED
    BY <1>13, <2>1 DEF PartitionEof, TypeOK, broker, storage, bounds
<1>14. CASE EndBatch
  BY <1>14 DEF EndBatch, TypeOK, broker, storage, bounds
<1>15. CASE Commit
  <2>1. db' \in Contents
    <3>1. [m \in Offsets |-> db.applied[m] + (IF m \in Batch THEN 1 ELSE 0)] \in [Offsets -> Nat]
      BY DEF TypeOK, Contents
    <3>2. (IF db.origin < 0 THEN from ELSE db.origin) \in StoredOffsets
      BY DEF TypeOK, Contents, StoredOffsets
    <3>. QED
      BY <1>15, <3>1, <3>2 DEF Commit, Contents, TypeOK, StoredOffsets
  <2>2. unsynced' \subseteq Contents
    BY <1>15 DEF Commit, Unsynced, TypeOK
  <2>. QED
    BY <1>15, <2>1, <2>2 DEF Commit, TypeOK, broker, bounds
<1>16. CASE Publish
  BY <1>16 DEF Publish, TypeOK, StoredOffsets, broker, storage, bounds
<1>17. ASSUME NEW w \in Waiters, EndWait(w) PROVE TypeOK'
  BY <1>17 DEF EndWait, TypeOK, broker, storage, bounds
<1>18. ASSUME NEW w \in Waiters, NEW o \in Offsets, BeginWait(w, o) PROVE TypeOK'
  BY <1>18 DEF BeginWait, TypeOK, broker, storage, bounds
<1>19. CASE UNCHANGED vars
  BY <1>19 DEF vars, TypeOK
<1>. QED
  BY <1>2, <1>3, <1>4, <1>5, <1>6, <1>7, <1>8, <1>9, <1>10, <1>11, <1>12, <1>13, <1>14, <1>15,
     <1>16, <1>17, <1>18, <1>19, SeedsAreRaw DEF Next, ConsumerStep

\* The types are those of TypeOK.
THEOREM TypeCorrect == Spec => []TypeOK
<1>1. ASSUME Init PROVE TypeOK
  <2>1. db \in Contents
    BY <1>1 DEF Init, Contents, StoredOffsets, Unapplied
  <2>2. from \in RawOffsets /\ pos \in RawOffsets /\ lastCommitted \in StoredOffsets
    BY <1>1 DEF Init, StoredOffsets, RawOffsets
  <2>3. waiting \in [Waiters -> Offsets \cup {OffsetInvalid}]
    BY <1>1, NobodyWaits DEF Init
  <2>4. run \in BOOLEAN /\ lagging \in BOOLEAN
    BY <1>1 DEF Init
  <2>5. /\ 0 \in 0..MaxOffset /\ 0 \in 0..MaxCrashes /\ 0 \in 0..MaxSeeks
    BY ConsumerAssumption
  <2>. QED
    BY <1>1, <2>1, <2>2, <2>3, <2>4, <2>5, Zenon DEF Init, TypeOK
<1>. QED
  BY <1>1, TypeStep, PTL DEF Spec
-----------------------------------------------------------------------------
(* Exactly once. *)

\* Without offset nothing is applied, so a raw commit leaves sound contents.
LEMMA FreshIsSound ==
  ASSUME NEW o \in StoredOffsets
  PROVE  Sound([next |-> o, origin |-> o, applied |-> Unapplied])
  BY DEF Sound, Consistent, Unapplied, Offsets, StoredOffsets, RawOffsets, OffsetBeginning,
         OffsetInvalid

\* The write of a batch keeps RocksDB sound: it applies what lies between the
\* old offset and the new one.
LEMMA CommitIsSound ==
  ASSUME TypeOK, StoreInv, LinkInv, Commit
  PROVE  Sound(db')
<1> USE ConsumerAssumption DEF OffsetBeginning, OffsetInvalid
<1>1. /\ db.next \in Int /\ db.origin \in Int /\ from \in Int /\ pos \in Int
      /\ db.applied \in [Offsets -> Nat]
  BY DEF TypeOK, Contents, StoredOffsets, RawOffsets
<1>2. from <= pos /\ 0 <= from /\ (from = db.next \/ db.next < 0)
  BY DEF LinkInv, Commit
<1>3. /\ db'.next = pos
      /\ db'.origin = IF db.origin < 0 THEN from ELSE db.origin
      /\ \A m \in Offsets : db'.applied[m] = db.applied[m] + (IF m \in Batch THEN 1 ELSE 0)
  BY DEF Commit
<1>4. \A m \in Offsets : m \in Int /\ (m \in Batch <=> from <= m /\ m < pos)
  BY DEF Offsets, Batch
<1>5. CASE db.origin < 0
  <2>1. \A m \in Offsets : db.applied[m] = 0
    BY <1>1, <1>5 DEF StoreInv, Sound, Consistent
  <2>. QED
    BY <1>1, <1>2, <1>3, <1>4, <1>5, <2>1 DEF Sound, Consistent
<1>6. CASE db.origin >= 0
  <2>1. from = db.next /\ db.origin <= from
    BY <1>1, <1>2, <1>6 DEF StoreInv, Sound
  <2>2. \A m \in Offsets : db.applied[m] = IF db.origin <= m /\ m < from THEN 1 ELSE 0
    BY <1>1, <1>6, <2>1 DEF StoreInv, Sound, Consistent
  <2>. QED
    BY <1>1, <1>2, <1>3, <1>4, <1>6, <2>1, <2>2 DEF Sound, Consistent
<1>. QED
  BY <1>1, <1>5, <1>6

\* Every step leaves RocksDB, and what a loss of power may bring back, sound.
LEMMA StoreStep == TypeOK /\ StoreInv /\ LinkInv /\ [Next]_vars => StoreInv'
<1> SUFFICES ASSUME TypeOK, StoreInv, LinkInv, [Next]_vars PROVE StoreInv'
  OBVIOUS
<1>1. CASE UNCHANGED storage
  BY <1>1 DEF storage, StoreInv, Sound, Consistent
<1>2. CASE Flush
  BY <1>2 DEF Flush, StoreInv, Sound, Consistent
<1>3. ASSUME Sound(db'), unsynced' = Unsynced PROVE StoreInv'
  BY <1>3 DEF Unsynced, StoreInv, Sound, Consistent
<1>4. ASSUME NEW o \in RawOffsets, CommitRawOffset(o) PROVE StoreInv'
  BY <1>3, <1>4, FreshIsSound DEF CommitRawOffset, StoredOffsets
<1>5. CASE LosePower
  BY <1>5 DEF LosePower, StoreInv, Sound, Consistent
<1>6. CASE Commit
  BY <1>3, <1>6, CommitIsSound DEF Commit
<1>. QED
  BY <1>1, <1>2, <1>4, <1>5, <1>6, SeedsAreRaw
  DEF Next, ConsumerStep, vars, storage, Produce, Expire, Crash, Destroy, Start, Stop, EnterBatch,
      ProcessOne, PartitionEof, EndBatch, Publish, EndWait, BeginWait

\* Every step leaves the write batch where RocksDB ends.
LEMMA LinkStep == TypeOK /\ LinkInv /\ [Next]_vars => LinkInv'
<1> SUFFICES ASSUME TypeOK, LinkInv, [Next]_vars PROVE LinkInv'
  OBVIOUS
<1> USE ConsumerAssumption DEF OffsetBeginning, OffsetInvalid
<1>0. /\ from \in RawOffsets /\ pos \in RawOffsets /\ db.next \in StoredOffsets
      /\ lo \in Nat /\ hi \in Nat
  BY DEF TypeOK, Contents
<1>1. CASE UNCHANGED <<db, pc, from, pos>>
  BY <1>1 DEF LinkInv
<1>2. CASE pc' = "none"
  BY <1>2 DEF LinkInv
<1>3. CASE Start
  BY <1>0, <1>3 DEF Start, LinkInv, storage, StoredOffsets, RawOffsets
<1>4. CASE EnterBatch
  BY <1>4 DEF EnterBatch, LinkInv, storage
<1>5. ASSUME pc = "batch"
      PROVE  /\ from >= 0 => Position = pos
             /\ from < 0 => Position = lo
  BY <1>0, <1>5 DEF Position, LinkInv, RawOffsets
<1>6. CASE ProcessOne
  <2>1. pc = "batch" /\ pc' = "batch" /\ db' = db
    BY <1>6 DEF ProcessOne, storage
  <2>2. from >= 0 => from' = from /\ pos' = pos + 1
    BY <1>0, <1>6, <1>5 DEF ProcessOne, RawOffsets
  <2>3. from < 0 => from' = lo /\ pos' = lo + 1
    BY <1>0, <1>6, <1>5 DEF ProcessOne
  <2>. QED
    BY <1>0, <2>1, <2>2, <2>3 DEF LinkInv, StoredOffsets, RawOffsets
<1>7. pc = "batch" /\ Batch # {} => from >= 0
  BY <1>0 DEF Batch, Offsets, LinkInv, RawOffsets
<1>8. CASE PartitionEof
  <2>1. pc = "batch" /\ pc' # "publish" /\ db' = db
    BY <1>8 DEF PartitionEof, storage
  <2>2. from >= 0 => from' = from /\ pos' = pos
    BY <1>0, <1>8, <1>5 DEF PartitionEof, RawOffsets
  <2>3. from < 0 => from' = lo /\ pos' = lo
    BY <1>0, <1>8, <1>5 DEF PartitionEof
  <2>. QED
    BY <1>0, <2>1, <2>2, <2>3 DEF LinkInv, StoredOffsets, RawOffsets
<1>9. CASE EndBatch
  BY <1>0, <1>7, <1>9 DEF EndBatch, LinkInv, storage
<1>10. CASE Commit
  BY <1>0, <1>10 DEF Commit, LinkInv, RawOffsets
<1>11. CASE Publish
  BY <1>11 DEF Publish, LinkInv, storage
<1>12. CASE Crash \/ LosePower \/ Destroy \/ \E o \in Seeds : CommitRawOffset(o)
  BY <1>2, <1>12 DEF Crash, LosePower, Destroy, Vanish, CommitRawOffset
<1>. QED
  BY <1>1, <1>3, <1>4, <1>6, <1>8, <1>9, <1>10, <1>11, <1>12
  DEF Next, ConsumerStep, vars, storage, Produce, Expire, Flush, Stop, EndWait, BeginWait

\* Sound contents and the continuing write batch are an inductive invariant.
LEMMA Inductive == Spec => [](TypeOK /\ StoreInv /\ LinkInv)
<1>1. Init => StoreInv /\ LinkInv
  BY FreshIsSound DEF Init, StoreInv, LinkInv, StoredOffsets
<1>. QED
  BY <1>1, TypeCorrect, TypeStep, StoreStep, LinkStep, PTL DEF Spec

\* Whatever the number of messages, crashes, losses of power and resets, RocksDB
\* holds each message between the start of the pass and the committed offset
\* once and no other: commitNextProcessOffset writes both in one batch, and
\* init() continues at the stored offset.
THEOREM AppliedExactlyOnce == Spec => []ExactlyOnce
<1>1. StoreInv => ExactlyOnce
  BY DEF StoreInv, Sound, ExactlyOnce
<1>. QED
  BY <1>1, Inductive, PTL
-----------------------------------------------------------------------------
(* waitforcommit and ready. *)

\* What is published, or answered, is committed.
LEMMA AckStep == TypeOK /\ LinkInv /\ AckInv /\ [Next]_vars => AckInv'
<1> SUFFICES ASSUME TypeOK, LinkInv, AckInv, [Next]_vars PROVE AckInv'
  OBVIOUS
<1> USE DEF OffsetBeginning, OffsetInvalid
<1>0. /\ db.next \in StoredOffsets /\ lastCommitted \in StoredOffsets
      /\ from \in RawOffsets /\ pos \in RawOffsets
      /\ acked \subseteq Int
  BY DEF TypeOK, Contents, Offsets
<1>1. ASSUME UNCHANGED <<db, lastCommitted, acked>>, pc' = "none" => pc = "none"
      PROVE  AckInv'
  BY <1>1 DEF AckInv, AckedCommitted
<1>2. ASSUME Vanish, db' = db, acked' = acked PROVE AckInv'
  BY <1>0, <1>2 DEF AckInv, AckedCommitted, Vanish, StoredOffsets, RawOffsets
<1>3. CASE LosePower
  <2>1. db'.next \in StoredOffsets
    BY <1>3 DEF LosePower, TypeOK, Contents
  <2>. QED
    BY <1>3, <2>1 DEF LosePower, Vanish, AckInv, AckedCommitted, StoredOffsets, RawOffsets
<1>4. ASSUME NEW o \in RawOffsets, CommitRawOffset(o) PROVE AckInv'
  <2>1. db'.next = o /\ lastCommitted' = lastCommitted /\ acked' = {} /\ pc = "none"
    BY <1>4 DEF CommitRawOffset
  <2>. QED
    BY <1>0, <2>1 DEF AckInv, AckedCommitted, StoredOffsets, RawOffsets
<1>5. CASE Start
  BY <1>0, <1>5 DEF Start, AckInv, AckedCommitted, storage, StoredOffsets, RawOffsets
<1>6. CASE Commit
  <2>1. /\ db'.next = pos /\ lastCommitted' = lastCommitted /\ acked' = acked
        /\ pc' = "publish"
    BY <1>6 DEF Commit
  <2>2. db.next <= pos
    BY <1>0, <1>6 DEF Commit, LinkInv, StoredOffsets, RawOffsets
  <2>. QED
    BY <1>0, <2>1, <2>2 DEF AckInv, AckedCommitted, StoredOffsets, RawOffsets
<1>7. CASE Publish
  BY <1>0, <1>7 DEF Publish, LinkInv, AckInv, AckedCommitted, storage, StoredOffsets, RawOffsets
<1>8. ASSUME NEW w \in Waiters, EndWait(w) PROVE AckInv'
  <2>1. waiting[w] \in Int
    BY DEF TypeOK, Offsets
  <2>2. waiting[w] < db.next
    BY <1>0, <1>8, <2>1 DEF EndWait, AckInv, StoredOffsets, RawOffsets
  <2>. QED
    BY <1>8, <2>2 DEF EndWait, AckInv, AckedCommitted, storage
<1>9. CASE Produce \/ Expire \/ Flush \/ Stop
  BY <1>1, <1>9 DEF Produce, Expire, Flush, Stop, storage
<1>10. CASE EnterBatch \/ ProcessOne \/ PartitionEof \/ EndBatch
  BY <1>1, <1>10 DEF EnterBatch, ProcessOne, PartitionEof, EndBatch, storage
<1>11. CASE Crash \/ Destroy
  BY <1>2, <1>11 DEF Crash, Destroy, storage
<1>12. ASSUME NEW w \in Waiters, NEW o \in Offsets, BeginWait(w, o) PROVE AckInv'
  BY <1>1, <1>12 DEF BeginWait, storage
<1>13. CASE UNCHANGED vars
  BY <1>1, <1>13 DEF vars
<1>. QED
  BY <1>3, <1>4, <1>5, <1>6, <1>7, <1>8, <1>9, <1>10, <1>11, <1>12, <1>13, SeedsAreRaw
     DEF Next, ConsumerStep

\* OK is the answer to waitforcommit only when the message is in RocksDB, since
\* setLastCommittedOffset comes after the write.
THEOREM AnsweredIsCommitted == Spec => []AckedCommitted
<1>1. Init => AckInv
  BY DEF Init, AckInv, AckedCommitted, OffsetInvalid
<1>2. AckInv => AckedCommitted
  BY DEF AckInv
<1>. QED
  BY <1>1, <1>2, Inductive, AckStep, PTL DEF Spec

\* The consumer stops lagging at the end of the partition only.
LEMMA ReadyStep == TypeOK /\ ReadyInv /\ [Next]_vars => ReadyInv'
<1> SUFFICES ASSUME TypeOK, ReadyInv, [Next]_vars PROVE ReadyInv'
  OBVIOUS
<1> USE DEF OffsetBeginning
<1>0. startHi \in Nat /\ hi \in Nat /\ pos \in RawOffsets /\ MaxOffset \in Nat
  BY ConsumerAssumption DEF TypeOK
<1>1. CASE UNCHANGED <<hi, startHi, lagging, pos>>
  BY <1>1 DEF ReadyInv, ReadyMeansRead
<1>2. CASE Produce
  BY <1>0, <1>2 DEF Produce, ReadyInv, ReadyMeansRead
<1>3. ASSUME Vanish PROVE ReadyInv'
  BY <1>0, <1>3 DEF Vanish, ReadyInv, ReadyMeansRead, broker
<1>4. CASE Start
  BY <1>0, <1>4 DEF Start, ReadyInv, ReadyMeansRead, broker
<1>5. CASE ProcessOne
  <2>1. startHi' = startHi /\ hi' = hi /\ lagging' = lagging /\ pos' = Position + 1
    BY <1>5 DEF ProcessOne, broker
  <2>2. ~lagging => Position = pos
    BY <1>0 DEF Position, ReadyInv, ReadyMeansRead, RawOffsets
  <2>. QED
    BY <1>0, <2>1, <2>2 DEF ReadyInv, ReadyMeansRead, RawOffsets
<1>6. CASE PartitionEof
  BY <1>0, <1>6 DEF PartitionEof, ReadyInv, ReadyMeansRead, broker
<1>. QED
  BY <1>1, <1>2, <1>3, <1>4, <1>5, <1>6
  DEF Next, ConsumerStep, vars, broker, Expire, Flush, CommitRawOffset, Crash, LosePower, Destroy,
      Stop, EnterBatch, EndBatch, Commit, Publish, EndWait, BeginWait

\* ready answers 1 only after every message that existed at start up was read:
\* isLagging_ is cleared at ERR__PARTITION_EOF and nowhere else.
THEOREM ReadyAfterRead == Spec => []ReadyMeansRead
<1>1. Init => ReadyInv
  BY DEF Init, ReadyInv, ReadyMeansRead
<1>2. ReadyInv => ReadyMeansRead
  BY DEF ReadyInv
<1>. QED
  BY <1>1, <1>2, TypeCorrect, ReadyStep, PTL DEF Spec

\* While the process runs, its committed offset never moves back.
THEOREM CommittedOffsetGrows == Spec => OffsetMonotone
<1>1. TypeOK /\ LinkInv /\ [Next]_vars => [pc # "none" /\ pc' # "none" => db'.next >= db.next]_vars
  <2> SUFFICES ASSUME TypeOK, LinkInv, Next, pc # "none", pc' # "none"
               PROVE  db'.next >= db.next
    BY DEF vars
  <2>0. db.next \in Int /\ db.next <= db.next /\ pos \in RawOffsets /\ from \in RawOffsets
    BY DEF TypeOK, Contents, StoredOffsets, RawOffsets, OffsetBeginning, OffsetInvalid
  <2>1. CASE db' = db
    BY <2>0, <2>1
  <2>2. CASE Commit
    <3>1. db'.next = pos
      BY <2>2 DEF Commit
    <3>2. pos \in Int /\ from \in Int
      BY <2>0 DEF RawOffsets, OffsetBeginning
    <3>3. pc = "commit"
      BY <2>2 DEF Commit
    <3>4. from <= pos /\ from >= 0 /\ (from = db.next \/ db.next < 0)
      BY <3>3 DEF LinkInv
    <3>. QED
      BY ONLY <2>0, <3>1, <3>2, <3>4
  <2>. QED
    BY <2>1, <2>2
    DEF Next, ConsumerStep, storage, Produce, Expire, Flush, CommitRawOffset, Crash, LosePower,
        Destroy, Vanish, Start, Stop, EnterBatch, ProcessOne, PartitionEof, EndBatch, Publish,
        EndWait, BeginWait
<1>. QED
  BY <1>1, Inductive, PTL DEF Spec, OffsetMonotone

-----------------------------------------------------------------------------
(***************************************************************************)
(* SmyteId: ids generated from kafka messages.                             *)
(***************************************************************************)

Acceptable == {m \in Inputs : CanGenerate(m.offset, m.timestamp, m.shard)}

\* Only messages that pass the CHECKs of generateFromKafka have an id.
LEMMA OnlyAcceptable == IdsSpec => [](messages \subseteq Acceptable)
<1>1. IdsInit => messages \subseteq Acceptable
  BY DEF IdsInit
<1>2. messages \subseteq Acceptable /\ [IdsNext]_messages => (messages \subseteq Acceptable)'
  BY DEF IdsNext, Assign, Acceptable
<1>. QED
  BY <1>1, <1>2, PTL DEF IdsSpec

\* A field that is shifted in comes out again.
LEMMA DivMod ==
  ASSUME NEW a \in Nat, NEW n \in Nat \ {0}, NEW b \in 0..(n - 1)
  PROVE  (a * n + b) \div n = a /\ (a * n + b) % n = b
<1>1. /\ (a * n + b) \div n \in Int /\ (a * n + b) % n \in 0..(n - 1)
      /\ a * n + b = n * ((a * n + b) \div n) + ((a * n + b) % n)
  BY Z3
<1> DEFINE q == (a * n + b) \div n
           r == (a * n + b) % n
<1>2. n * (a - q) = r - b /\ r - b < n /\ b - r < n
  BY <1>1, Z3
<1> HIDE DEF q, r
<1>. QED
  BY <1>2, Z3

\* A digit below n, shifted by k, and a rest below k are below n * k.
LEMMA DigitBound ==
  ASSUME NEW n \in Nat, NEW k \in Nat, NEW d \in 0..(n - 1), NEW b \in 0..(k - 1)
  PROVE  d * k + b \in 0..(n * k - 1)
<1>1. d * k \in Nat /\ n * k \in Nat
  BY Z3
<1>2. (d + 1) * k <= n * k
  BY Z3
<1>3. (d + 1) * k = d * k + k
  BY Z3
<1>. QED
  BY <1>1, <1>2, <1>3

\* What is read off three fields that are packed into a number.
LEMMA Packed ==
  ASSUME kMachineSize # 0, NEW s \in 0..(kTimestampSize - 1),
         NEW u \in 0..(kUniqueSize - 1), NEW b \in 0..(kMachineSize - 1)
  PROVE  /\ (s * kUniqueSize + u) * kMachineSize + b \in 0..(kTimestampSize * kUniqueSize * kMachineSize - 1)
         /\ ((s * kUniqueSize + u) * kMachineSize + b) % kMachineSize = b
         /\ ((s * kUniqueSize + u) * kMachineSize + b) \div kMachineSize = s * kUniqueSize + u
         /\ ((s * kUniqueSize + u) * kMachineSize + b) \div (kUniqueSize * kMachineSize) = s
<1>0. kTimestampSize \in Nat /\ kUniqueSize \in Nat \ {0} /\ kMachineSize \in Nat \ {0}
  BY SizesAssumption
<1> DEFINE h == s * kUniqueSize + u
<1>1. h \in 0..(kTimestampSize * kUniqueSize - 1) /\ h \in Nat /\ kTimestampSize * kUniqueSize \in Nat
  <2>1. h \in 0..(kTimestampSize * kUniqueSize - 1)
    BY <1>0, DigitBound, Zenon
  <2>2. kTimestampSize * kUniqueSize \in Nat
    BY <1>0, Z3
  <2>. QED
    BY <2>1, <2>2
<1>2. h * kMachineSize + b \in 0..((kTimestampSize * kUniqueSize) * kMachineSize - 1)
  <2> HIDE DEF h
  <2>. QED
    BY <1>0, <1>1, DigitBound
<1>3. (h * kMachineSize + b) % kMachineSize = b /\ (h * kMachineSize + b) \div kMachineSize = h
  <2> HIDE DEF h
  <2>. QED
    BY <1>0, <1>1, DivMod
<1>4. kUniqueSize * kMachineSize \in Nat \ {0} /\ u * kMachineSize + b \in 0..(kUniqueSize * kMachineSize - 1)
  <2>1. kUniqueSize * kMachineSize \in Nat \ {0}
    BY <1>0, Z3
  <2>2. u * kMachineSize + b \in 0..(kUniqueSize * kMachineSize - 1)
    BY <1>0, DigitBound
  <2>. QED
    BY <2>1, <2>2
<1>5. h * kMachineSize + b = s * (kUniqueSize * kMachineSize) + (u * kMachineSize + b)
  BY <1>0, Z3
<1>6. (s * (kUniqueSize * kMachineSize) + (u * kMachineSize + b)) \div (kUniqueSize * kMachineSize) = s
  <2>1. s \in Nat
    OBVIOUS
  <2> DEFINE n == kUniqueSize * kMachineSize
             c == u * kMachineSize + b
  <2>2. n \in Nat \ {0} /\ c \in 0..(n - 1)
    BY <1>4
  <2> HIDE DEF n, c
  <2>3. (s * n + c) \div n = s
    BY <2>1, <2>2, DivMod
  <2>. QED
    BY <2>3 DEF n, c
<1>. QED
  BY <1>2, <1>3, <1>5, <1>6

\* The fields of an id: the machine is one of the last kVirtualShardCount.
LEMMA IdFields ==
  ASSUME NEW m \in Acceptable
  PROVE  /\ Id(m) \in 0..(kTimestampSize * kUniqueSize * kMachineSize - 1)
         /\ Machine(Id(m)) = kMachineBase + m.shard
         /\ Timestamp(Id(m)) = m.timestamp
         /\ Id(m) \div kMachineSize
              = (m.timestamp - kTimestampEpoch) * kUniqueSize + (m.offset % kUniqueSize)
<1>1. CanGenerate(m.offset, m.timestamp, m.shard)
  BY DEF Acceptable
<1> DEFINE s == m.timestamp - kTimestampEpoch
           u == m.offset % kUniqueSize
           b == kMachineBase + m.shard
<1>2. kMachineSize \in Nat \ {0} /\ kMachineBase \in Nat /\ kMachineSize = kMachineBase + kVirtualShardCount
  <2>1. PICK k \in 1..kMachineSize : kMachineSize = k * kVirtualShardCount
    BY SizesAssumption
  <2>2. k * kVirtualShardCount >= kVirtualShardCount
    BY <2>1, SizesAssumption, Z3
  <2>. QED
    BY <2>1, <2>2, SizesAssumption DEF kMachineBase
<1>3. s \in 0..(kTimestampSize - 1)
  BY <1>1 DEF CanGenerate
<1>4. u \in 0..(kUniqueSize - 1)
  BY <1>1, SizesAssumption, Z3 DEF CanGenerate
<1>5. b \in 0..(kMachineSize - 1)
  BY <1>1, <1>2, SizesAssumption DEF CanGenerate
<1>6. Id(m) = (s * kUniqueSize + u) * kMachineSize + b
  <2>1. m.shard \in Int
    BY <1>1, SizesAssumption DEF CanGenerate
  <2> DEFINE h == (s * kUniqueSize + u) * kMachineSize
  <2>2. h \in Int
    BY <1>2, <1>3, <1>4, SizesAssumption, Z3
  <2>3. Id(m) = h + kMachineBase + m.shard
    BY DEF Id, GenerateFromKafka
  <2> HIDE DEF h
  <2>4. h + kMachineBase + m.shard = h + (kMachineBase + m.shard)
    BY <2>1, <2>2, <1>2
  <2>. QED
    BY <2>3, <2>4 DEF h
<1> HIDE DEF s, u, b
<1>7. /\ Id(m) \in 0..(kTimestampSize * kUniqueSize * kMachineSize - 1)
      /\ Id(m) % kMachineSize = b
      /\ Id(m) \div kMachineSize = s * kUniqueSize + u
      /\ Id(m) \div (kUniqueSize * kMachineSize) = s
  <2> DEFINE x == (s * kUniqueSize + u) * kMachineSize + b
  <2>1. /\ x \in 0..(kTimestampSize * kUniqueSize * kMachineSize - 1)
        /\ x % kMachineSize = b
        /\ x \div kMachineSize = s * kUniqueSize + u
        /\ x \div (kUniqueSize * kMachineSize) = s
    BY <1>2, <1>3, <1>4, <1>5, Packed
  <2>. QED
    BY <2>1, <1>6, Zenon
<1>8. s + kTimestampEpoch = m.timestamp
  <2>1. m.timestamp \in Int
    BY InputsAssumption DEF Acceptable
  <2>. QED
    BY <2>1, SizesAssumption DEF s
<1>. QED
  BY <1>7, <1>8 DEF Machine, Timestamp, s, u, b

\* The ids of two messages that generateFromKafka accepts: the fields are
\* recovered, the order is that of the timestamps, and equal ids agree.
LEMMA TwoIds ==
  ASSUME NEW m \in Acceptable, NEW n \in Acceptable
  PROVE  /\ FieldsRecovered(m)
         /\ m.timestamp < n.timestamp => Id(m) < Id(n)
         /\ Id(m) = Id(n) => /\ m.timestamp = n.timestamp /\ m.shard = n.shard
                             /\ m.offset % kUniqueSize = n.offset % kUniqueSize
<1>1. \A i \in Acceptable :
        /\ i.timestamp \in Int /\ i.offset \in Nat /\ i.shard \in 0..(kVirtualShardCount - 1)
        /\ i.offset % kUniqueSize \in 0..(kUniqueSize - 1)
  BY InputsAssumption, SizesAssumption, Z3 DEF CanGenerate, Acceptable
<1>2. /\ kMachineBase \in Nat
      /\ \E k \in Nat : kMachineBase = k * kVirtualShardCount
  <2>1. PICK k \in 1..kMachineSize : kMachineSize = k * kVirtualShardCount
    BY SizesAssumption
  <2>2. kMachineBase = (k - 1) * kVirtualShardCount /\ k - 1 \in Nat
    BY <2>1, SizesAssumption, Z3 DEF kMachineBase
  <2>3. (k - 1) * kVirtualShardCount \in Nat
    BY <2>2, SizesAssumption, Z3
  <2>. QED
    BY <2>2, <2>3
<1>3. GetVirtualShard(Id(m)) = m.shard
  <2>1. Machine(Id(m)) >= kMachineBase
    BY IdFields, <1>1, <1>2, SizesAssumption
  <2>2. (kMachineBase + m.shard) % kVirtualShardCount = m.shard
    <3>1. PICK k \in Nat : kMachineBase = k * kVirtualShardCount
      BY <1>2
    <3>2. (k * kVirtualShardCount + m.shard) % kVirtualShardCount = m.shard
      BY <1>1, SizesAssumption, DivMod, Zenon
    <3>. QED
      BY <3>1, <3>2, Zenon
  <2>. QED
    BY <2>1, <2>2, <1>1, <1>2, IdFields, SizesAssumption DEF GetVirtualShard
<1>4. FieldsRecovered(m)
  <2>1. Machine(Id(m)) >= kMachineBase
    BY IdFields, <1>1, <1>2, SizesAssumption
  <2>. QED
    BY <1>3, <2>1, IdFields DEF FieldsRecovered, IsGeneratedFromKafka
<1>5. ASSUME m.timestamp < n.timestamp PROVE Id(m) < Id(n)
  <2> DEFINE k == kUniqueSize * kMachineSize
  <2>1. k \in Nat \ {0}
    BY SizesAssumption, Z3
  <2>2. Id(m) \div k < Id(n) \div k
    <3>1. /\ Id(m) \div k + kTimestampEpoch = m.timestamp
          /\ Id(n) \div k + kTimestampEpoch = n.timestamp
      BY IdFields DEF Timestamp
    <3>2. Id(m) \in Int /\ Id(n) \in Int
      BY IdFields
    <3> HIDE DEF k
    <3>3. Id(m) \div k \in Int /\ Id(n) \div k \in Int
      BY <2>1, <3>2, Z3
    <3>. QED
      BY <1>5, <3>1, <3>3, SizesAssumption
  <2>3. Id(m) \in Nat /\ Id(n) \in Nat
    BY IdFields
  <2> HIDE DEF k
  <2>4. ASSUME NEW a \in Nat, NEW b \in Nat, a \div k < b \div k PROVE a < b
    BY <2>1, <2>4, Z3
  <2>. QED
    BY <2>2, <2>3, <2>4
<1>6. ASSUME Id(m) = Id(n)
      PROVE  /\ m.timestamp = n.timestamp /\ m.shard = n.shard
             /\ m.offset % kUniqueSize = n.offset % kUniqueSize
  <2>1. m.timestamp = n.timestamp
    BY <1>6, IdFields
  <2>2. kMachineBase + m.shard = kMachineBase + n.shard
    BY <1>6, IdFields
  <2>3. m.shard = n.shard
    BY <2>2, <1>1, <1>2, SizesAssumption
  <2>4. (m.timestamp - kTimestampEpoch) * kUniqueSize + (m.offset % kUniqueSize)
          = (m.timestamp - kTimestampEpoch) * kUniqueSize + (n.offset % kUniqueSize)
    BY <1>6, <2>1, IdFields
  <2>5. (m.timestamp - kTimestampEpoch) * kUniqueSize \in Int
    BY <1>1, SizesAssumption, Z3
  <2>6. m.offset % kUniqueSize = n.offset % kUniqueSize
    <3>1. \A p, a, b \in Int : p + a = p + b => a = b
      OBVIOUS
    <3>2. m.offset % kUniqueSize \in Int /\ n.offset % kUniqueSize \in Int
      BY <1>1, SizesAssumption, Z3
    <3>. QED
      BY <2>4, <2>5, <3>1, <3>2, Zenon
  <2>. QED
    BY <2>1, <2>3, <2>6
<1>. QED
  BY <1>4, <1>5, <1>6

\* Ids are faithful to their messages: the timestamp and the virtual shard are
\* recovered, ids sort by time, and equal ids have equal fields.
THEOREM IdsAreFaithful == IdsSpec => []IdsFaithful
<1>1. messages \subseteq Acceptable => IdsFaithful
  BY TwoIds, Zenon DEF IdsFaithful
<1>. QED
  BY <1>1, OnlyAcceptable, PTL
============================================================================
