---------------------- MODULE KafkaStoreConsumerProofs ----------------------
(***************************************************************************)
(* The messages of the files are applied in order and once, and init finds *)
(* a pair that fits its file, for all files, batch sizes and crashes.      *)
(***************************************************************************)
EXTENDS KafkaStoreConsumer, TLAPS, SequenceTheorems, WellFoundedInduction

\* The offsets from a up to but not including b.
Span(a, b) == [i \in 1..(b - a) |-> a + i - 1]

\* What the files are: the open file ends where the next one starts.
FileInv ==
  /\ db = [kafka |-> db.kafka, file |-> db.file, origin |-> db.origin, applied |-> db.applied]
  /\ db.file \in Nat \cup {OffsetInvalid}
  /\ pc # "none" => /\ current \in Nat /\ nextFile \in Nat
                    /\ reader => current \in Starts /\ nextFile = End(current)
  /\ pc = "read" => reader
  /\ pc \in {"download", "metadata", "data"} => ~reader
  /\ pc = "data" => nextFile \in Starts

\* The messages of the batch are the ones from the committed offset up to the
\* next one.
OrderInv ==
  /\ db.kafka \in Nat \cup {OffsetInvalid} /\ db.origin \in Nat
  /\ db.kafka >= 0 => db.origin <= db.kafka /\ db.applied = Span(db.origin, db.kafka)
  /\ pc # "none" => /\ db.kafka \in Nat /\ next \in Nat /\ db.kafka <= next
                    /\ batch = Span(db.kafka, next)

\* The committed offset is in the committed file, or at the start of a file
\* that is not there yet, and the next message is in the file that is open.
PairInv ==
  /\ db.kafka >= 0 => /\ 0 <= db.file /\ db.file <= db.kafka
                      /\ db.file \in Starts => db.kafka < End(db.file)
                      /\ fatal # "check"
  /\ pc # "none" => /\ reader => current <= next /\ next < nextFile
                    /\ ~reader => next = nextFile

\* Spans that meet make a span.
LEMMA SpanConcat ==
  ASSUME NEW a \in Nat, NEW b \in Nat, NEW c \in Nat, a <= b, b <= c
  PROVE  Span(a, b) \o Span(b, c) = Span(a, c)
<1> DEFINE s == Span(a, b)
           t == Span(b, c)
           u == Span(a, c)
<1>1. /\ s \in Seq(Nat) /\ Len(s) = b - a /\ \A i \in 1..(b - a) : s[i] = a + i - 1
      /\ t \in Seq(Nat) /\ Len(t) = c - b /\ \A i \in 1..(c - b) : t[i] = b + i - 1
      /\ u \in Seq(Nat) /\ Len(u) = c - a /\ \A i \in 1..(c - a) : u[i] = a + i - 1
  BY DEF Span
<1> HIDE DEF s, t, u
<1>2. /\ s \o t \in Seq(Nat) /\ Len(s \o t) = Len(s) + Len(t)
      /\ \A i \in 1..(Len(s) + Len(t)) : (s \o t)[i] = IF i <= Len(s) THEN s[i] ELSE t[i - Len(s)]
  BY <1>1, ConcatProperties, Zenon
<1>3. Len(s \o t) = Len(u)
  BY <1>1, <1>2
<1>4. ASSUME NEW i \in 1..Len(s \o t)
      PROVE  (s \o t)[i] = u[i]
  <2>1. CASE i <= b - a
    BY <1>1, <1>2, <2>1
  <2>2. CASE i > b - a
    <3>1. (s \o t)[i] = t[i - (b - a)] /\ i - (b - a) \in 1..(c - b)
      <4>1. i \in 1..(Len(s) + Len(t)) /\ ~(i <= Len(s))
        BY <1>1, <1>3, <2>2
      <4>2. (s \o t)[i] = t[i - Len(s)]
        BY <1>2, <4>1, Zenon
      <4>. QED
        BY <4>1, <4>2, <1>1
    <3>. QED
      BY <1>1, <1>3, <3>1
  <2>. QED
    BY <2>1, <2>2
<1>5. s \o t = u
  BY <1>1, <1>2, <1>3, <1>4, SeqEqual, Zenon
<1>. QED
  BY <1>5 DEF s, t, u

\* An offset more at the end of a span.
LEMMA SpanAppend ==
  ASSUME NEW a \in Nat, NEW b \in Nat, a <= b
  PROVE  Append(Span(a, b), b) = Span(a, b + 1)
<1> DEFINE s == Span(a, b)
           u == Span(a, b + 1)
<1>1. /\ s \in Seq(Nat) /\ Len(s) = b - a /\ \A i \in 1..(b - a) : s[i] = a + i - 1
      /\ u \in Seq(Nat) /\ Len(u) = b + 1 - a /\ \A i \in 1..(b + 1 - a) : u[i] = a + i - 1
  BY DEF Span
<1> HIDE DEF s, u
<1>2. /\ Append(s, b) \in Seq(Nat) /\ Len(Append(s, b)) = Len(s) + 1
      /\ \A i \in 1..Len(s) : Append(s, b)[i] = s[i]
      /\ Append(s, b)[Len(s) + 1] = b
  BY <1>1, AppendProperties
<1>3. Len(Append(s, b)) = Len(u)
  BY <1>1, <1>2
<1>4. \A i \in 1..Len(Append(s, b)) : Append(s, b)[i] = u[i]
  BY <1>1, <1>2
<1>5. Append(s, b) = u
  BY <1>1, <1>2, <1>3, <1>4, SeqEqual, Zenon
<1>. QED
  BY <1>5 DEF s, u

\* A span without offsets is empty.
LEMMA SpanEmpty ==
  ASSUME NEW a \in Nat
  PROVE  Span(a, a) = <<>>
BY DEF Span

\* A file ends behind its start.
LEMMA EndAfterStart ==
  ASSUME NEW s \in Starts
  PROVE  End(s) \in Nat /\ End(s) > s
<1> DEFINE T == {e \in Starts \cup {Total} : e > s}
<1>1. T \subseteq Nat /\ T # {} /\ s \in Nat
  <2>1. s \in Nat /\ Total \in T
    BY StoreAssumption
  <2>2. Starts \cup {Total} \subseteq Nat
    BY StoreAssumption
  <2>. QED
    BY <2>1, <2>2, Zenon
<1>2. \E x \in T : \A y \in T : ~(<<y, x>> \in OpToRel(<, Nat))
  BY <1>1, NatLessThanWellFounded, WFMin
<1>3. \E x \in T : \A y \in T : ~(<<y, x>> \in {p \in Nat \X Nat : p[1] < p[2]})
  BY <1>2, Zenon DEF OpToRel
<1>4. \E x \in T : \A y \in T : x <= y
  <2> HIDE DEF T
  <2>1. PICK x \in T : \A y \in T : ~(<<y, x>> \in {p \in Nat \X Nat : p[1] < p[2]})
    BY <1>3
  <2>2. ASSUME NEW y \in T PROVE x <= y
    <3>1. x \in Nat /\ y \in Nat
      BY <1>1
    <3>2. ~(<<y, x>> \in {p \in Nat \X Nat : p[1] < p[2]})
      BY <2>1
    <3>. QED
      BY <3>1, <3>2
  <2>. QED
    BY <2>2
<1>5. Min(T) \in T
  <2> HIDE DEF T
  <2>. QED
    BY <1>4 DEF Min
<1>. QED
  BY <1>1, <1>5 DEF End

\* Opening a file moves nextFile to the end of the file.
LEMMA OpenFile ==
  ASSUME NEW s \in Starts
  PROVE  s \in Nat /\ s + Count(s) = End(s) /\ End(s) \in Nat /\ s < End(s)
<1>1. s \in Nat
  BY StoreAssumption
<1>. QED
  BY <1>1, EndAfterStart DEF Count

\* Files are opened by init and consumeBatch, and closed by their last message.
LEMMA FileStep == FileInv /\ [Next]_vars => FileInv'
<1> SUFFICES ASSUME FileInv, [Next]_vars PROVE FileInv'
  OBVIOUS
<1> USE DEF FileInv, files
<1>1. CASE UNCHANGED vars
  BY <1>1 DEF vars
<1>2. CASE Upload
  BY <1>2 DEF Upload
<1>3. CASE Crash
  BY <1>3 DEF Crash
<1>4. CASE Stop
  BY <1>4 DEF Stop
<1>5. CASE Destroy
  BY <1>5 DEF Destroy
<1>6. ASSUME NEW k \in Seeds, Seed(k) PROVE FileInv'
  BY <1>6 DEF Seed
<1>7. ASSUME NEW d \in BOOLEAN, Start(d) PROVE FileInv'
  <2>1. CASE PairUnfit(d) \/ ReaderNull(d)
    BY <1>7, <2>1 DEF Start
  <2>2. CASE ~(PairUnfit(d) \/ ReaderNull(d))
    <3>1. /\ db' = db /\ pc' = "loop" /\ reader' = d /\ current' = db.file
          /\ nextFile' = IF d THEN db.file + Count(db.file) ELSE db.file
          /\ d => db.file \in Starts
      BY <1>7, <2>2 DEF Start, Available
    <3>2. db.file \in Nat
      BY <2>2 DEF PairUnfit, OffsetInvalid
    <3>. QED
      BY <3>1, <3>2, OpenFile
  <2>. QED
    BY <2>1, <2>2
<1>8. CASE ExpireCredential
  BY <1>8 DEF ExpireCredential
<1>9. CASE EnterBatch
  BY <1>9 DEF EnterBatch
<1>10. CASE ExitLoop
  BY <1>10 DEF ExitLoop
<1>11. CASE DownloadStopped
  BY <1>11 DEF DownloadStopped
<1>12. CASE EndBatch
  BY <1>12 DEF EndBatch
<1>13. ASSUME NEW status \in {"ok", "error"}, Download(status) PROVE FileInv'
  <2>1. CASE BeginDownload(status)
    BY <2>1 DEF BeginDownload
  <2>2. CASE DownloadMetadata(status)
    BY <2>2 DEF DownloadMetadata, GetObject, Available
  <2>3. CASE DownloadData(status)
    BY <2>3, OpenFile DEF DownloadData
  <2>. QED
    BY <1>13, <2>1, <2>2, <2>3 DEF Download
<1>14. CASE ReadOne
  BY <1>14 DEF ReadOne
<1>15. CASE Commit
  <2>1. /\ pc # "none" /\ pc' = "loop" /\ UNCHANGED files
        /\ db' = [kafka |-> next, file |-> IF reader THEN current ELSE nextFile,
                  origin |-> db.origin, applied |-> db.applied \o batch]
    BY <1>15, Zenon DEF Commit
  <2>. QED
    BY <2>1
<1>. QED
  BY <1>1, <1>2, <1>3, <1>4, <1>5, <1>6, <1>7, <1>8, <1>9, <1>10, <1>11, <1>12, <1>13, <1>14, <1>15
     DEF Next, ConsumerStep

\* Everything that the consumer thread does except for reading and committing
\* leaves the offsets alone.
LEMMA OrderStep == FileInv /\ OrderInv /\ [Next]_vars => OrderInv'
<1> SUFFICES ASSUME FileInv, OrderInv, [Next]_vars PROVE OrderInv'
  OBVIOUS
<1> USE DEF OrderInv, files
<1>1. CASE UNCHANGED vars
  BY <1>1 DEF vars
<1>2. CASE Upload
  BY <1>2 DEF Upload
<1>3. CASE Crash
  BY <1>3 DEF Crash
<1>4. CASE Stop
  BY <1>4 DEF Stop
<1>5. CASE Destroy
  BY <1>5 DEF Destroy
<1>6. ASSUME NEW k \in Seeds, Seed(k) PROVE OrderInv'
  <2>1. k \in Nat
    BY StoreAssumption
  <2>. QED
    BY <1>6, <2>1, SpanEmpty DEF Seed
<1>7. ASSUME NEW d \in BOOLEAN, Start(d) PROVE OrderInv'
  <2>1. db' = db /\ batch' = <<>>
    BY <1>7 DEF Start
  <2>2. CASE pc' = "none"
    BY <2>1, <2>2
  <2>3. CASE pc' # "none"
    <3>1. next' = db.kafka /\ ~PairUnfit(d)
      BY <1>7, <2>3 DEF Start
    <3>2. db.kafka \in Nat
      BY <3>1 DEF FileInv, PairUnfit, OffsetInvalid
    <3>. QED
      BY <2>1, <3>1, <3>2, SpanEmpty
  <2>. QED
    BY <2>2, <2>3
<1>8. CASE ExpireCredential
  BY <1>8 DEF ExpireCredential
<1>9. CASE EnterBatch
  BY <1>9 DEF EnterBatch
<1>10. CASE ExitLoop
  BY <1>10 DEF ExitLoop
<1>11. CASE DownloadStopped
  BY <1>11 DEF DownloadStopped
<1>12. CASE EndBatch
  BY <1>12 DEF EndBatch
<1>13. ASSUME NEW status \in {"ok", "error"}, Download(status) PROVE OrderInv'
  <2>1. pc # "none" /\ UNCHANGED <<db, next, batch>>
    BY <1>13 DEF Download, BeginDownload, DownloadMetadata, DownloadData
  <2>. QED
    BY <2>1
<1>14. CASE ReadOne
  <2>1. /\ pc # "none" /\ db' = db /\ next' = next + 1
        /\ batch' = Append(batch, next)
    BY <1>14 DEF ReadOne
  <2>2. batch' = Span(db.kafka, next + 1)
    BY <2>1, SpanAppend
  <2>. QED
    BY <2>1, <2>2
<1>15. CASE Commit
  <2>1. /\ pc # "none" /\ UNCHANGED next /\ batch' = <<>>
        /\ db' = [kafka |-> next, file |-> IF reader THEN current ELSE nextFile,
                  origin |-> db.origin, applied |-> db.applied \o batch]
    BY <1>15, Zenon DEF Commit, FileInv
  <2>2. db.applied \o batch = Span(db.origin, next)
    <3>1. db.kafka >= 0 /\ db.kafka \in Nat /\ next \in Nat /\ db.kafka <= next
      BY <2>1
    <3>2. Span(db.origin, db.kafka) \o Span(db.kafka, next) = Span(db.origin, next)
      BY <3>1, SpanConcat
    <3>. QED
      BY <2>1, <3>1, <3>2
  <2>. QED
    BY <2>1, <2>2, SpanEmpty
<1>. QED
  BY <1>1, <1>2, <1>3, <1>4, <1>5, <1>6, <1>7, <1>8, <1>9, <1>10, <1>11, <1>12, <1>13, <1>14, <1>15
     DEF Next, ConsumerStep

\* The offsets are as OrderInv says in every state.
LEMMA OrderHolds == Spec => [](FileInv /\ OrderInv)
<1>1. Init => FileInv /\ OrderInv
  BY DEF Init, FileInv, OrderInv, OffsetInvalid
<1>. QED
  BY <1>1, FileStep, OrderStep, PTL DEF Spec

\* Every message from the first offset on is applied once and in order.
THEOREM AppliedInOrder == Spec => []InOrderOnce
<1>1. OrderInv => InOrderOnce
  BY DEF OrderInv, InOrderOnce, Span
<1>. QED
  BY <1>1, OrderHolds, PTL

\* The pair and the reader move together.
LEMMA PairStep ==
  ASSUME \A k \in Seeds : k < End(0)
  PROVE  FileInv /\ OrderInv /\ PairInv /\ [Next]_vars => PairInv'
<1> SUFFICES ASSUME FileInv, OrderInv, PairInv, [Next]_vars PROVE PairInv'
  OBVIOUS
<1> USE DEF PairInv, files
<1>1. CASE UNCHANGED vars
  BY <1>1 DEF vars
<1>2. CASE Upload
  BY <1>2 DEF Upload
<1>3. CASE Crash
  BY <1>3 DEF Crash
<1>4. CASE Stop
  BY <1>4 DEF Stop
<1>5. CASE Destroy
  BY <1>5 DEF Destroy
<1>6. ASSUME NEW k \in Seeds, Seed(k) PROVE PairInv'
  <2>1. k \in Nat /\ k < End(0)
    BY StoreAssumption
  <2>2. /\ db' = [kafka |-> k, file |-> 0, origin |-> k, applied |-> <<>>]
        /\ fatal' = "ok" /\ pc = "none" /\ UNCHANGED pc
    BY <1>6 DEF Seed
  <2>. QED
    BY <2>1, <2>2
<1>7. ASSUME NEW d \in BOOLEAN, Start(d) PROVE PairInv'
  <2>0. db' = db /\ pc = "none" /\ (d => db.file \in Starts)
    BY <1>7 DEF Start, Available
  <2>1. CASE PairUnfit(d)
    <3>1. pc' = "none"
      BY <1>7, <2>1 DEF Start
    <3>2. ~(db.kafka >= 0)
      <4>1. SUFFICES ASSUME db.kafka >= 0 PROVE FALSE
        OBVIOUS
      <4>2. db.kafka \in Nat /\ db.file \in Nat
        BY <4>1 DEF FileInv, OrderInv, OffsetInvalid
      <4>3. d /\ db.file + Count(db.file) <= db.kafka
        BY <2>1, <4>1, <4>2 DEF PairUnfit
      <4>. QED
        BY <2>0, <4>1, <4>2, <4>3, OpenFile
    <3>. QED
      BY <2>0, <3>1, <3>2
  <2>2. CASE ~PairUnfit(d) /\ ReaderNull(d)
    BY <1>7, <2>0, <2>2 DEF Start
  <2>3. CASE ~PairUnfit(d) /\ ~ReaderNull(d)
    <3>1. /\ fatal' = "ok" /\ reader' = d /\ current' = db.file /\ next' = db.kafka
          /\ nextFile' = IF d THEN db.file + Count(db.file) ELSE db.file
      BY <1>7, <2>3 DEF Start
    <3>2. db.file \in Nat /\ db.kafka \in Nat /\ db.file <= db.kafka
      BY <2>3 DEF PairUnfit, FileInv, OrderInv, OffsetInvalid
    <3>3. CASE d
      BY <2>0, <2>3, <3>1, <3>2, <3>3, OpenFile DEF PairUnfit
    <3>4. CASE ~d
      BY <2>0, <2>3, <3>1, <3>2, <3>4 DEF ReaderNull
    <3>. QED
      BY <3>3, <3>4
  <2>. QED
    BY <2>1, <2>2, <2>3
<1>8. CASE ExpireCredential
  BY <1>8 DEF ExpireCredential
<1>9. CASE EnterBatch
  BY <1>9 DEF EnterBatch
<1>10. CASE ExitLoop
  BY <1>10 DEF ExitLoop
<1>11. CASE DownloadStopped
  BY <1>11 DEF DownloadStopped
<1>12. CASE EndBatch
  BY <1>12 DEF EndBatch
<1>13. ASSUME NEW status \in {"ok", "error"}, Download(status) PROVE PairInv'
  <2>1. CASE BeginDownload(status)
    BY <2>1 DEF BeginDownload
  <2>2. CASE DownloadMetadata(status)
    BY <2>2 DEF DownloadMetadata
  <2>3. CASE DownloadData(status)
    <3>1. ~reader /\ nextFile \in Starts /\ next = nextFile
      BY <2>3 DEF DownloadData, FileInv
    <3>. QED
      BY <2>3, <3>1, OpenFile DEF DownloadData
  <2>. QED
    BY <1>13, <2>1, <2>2, <2>3 DEF Download
<1>14. CASE ReadOne
  <2>1. /\ reader /\ nextFile \in Nat /\ next \in Nat /\ current \in Nat
        /\ current <= next /\ next < nextFile
    BY <1>14 DEF ReadOne, FileInv, OrderInv
  <2>2. next' = next + 1 /\ UNCHANGED <<db, fatal, current, nextFile>>
    BY <1>14 DEF ReadOne
  <2>3. CASE next + 1 >= nextFile
    <3>1. ~reader' /\ pc' = "commit"
      BY <1>14, <2>2, <2>3 DEF ReadOne
    <3>. QED
      BY <2>1, <2>2, <2>3, <3>1
  <2>4. CASE ~(next + 1 >= nextFile)
    <3>1. UNCHANGED <<reader, pc>>
      BY <1>14, <2>2, <2>4 DEF ReadOne
    <3>. QED
      BY <2>1, <2>2, <2>4, <3>1
  <2>. QED
    BY <2>3, <2>4
<1>15. CASE Commit
  <2>1. /\ pc # "none" /\ UNCHANGED <<files, fatal>>
        /\ db' = [kafka |-> next, file |-> IF reader THEN current ELSE nextFile,
                  origin |-> db.origin, applied |-> db.applied \o batch]
    BY <1>15, Zenon DEF Commit, FileInv
  <2>2. db.kafka \in Nat /\ next \in Nat /\ current \in Nat /\ nextFile \in Nat
    BY <2>1 DEF FileInv, OrderInv
  <2>3. CASE reader
    BY <2>1, <2>2, <2>3 DEF FileInv
  <2>4. CASE ~reader
    BY <2>1, <2>2, <2>4, OpenFile
  <2>. QED
    BY <2>3, <2>4
<1>. QED
  BY <1>1, <1>2, <1>3, <1>4, <1>5, <1>6, <1>7, <1>8, <1>9, <1>10, <1>11, <1>12, <1>13, <1>14, <1>15
     DEF Next, ConsumerStep

\* If initial_offset_one_off is an offset of the first file, the CHECKs of init
\* hold at every restart, whenever the consumer stopped or crashed.
THEOREM RestartAlwaysPossible ==
  ASSUME \A k \in Seeds : k < End(0)
  PROVE  Spec => []RestartPossible
<1>1. Init => PairInv
  BY DEF Init, PairInv, OffsetInvalid
<1>2. PairInv => RestartPossible
  BY DEF PairInv, RestartPossible
<1>3. FileInv /\ OrderInv /\ PairInv /\ [Next]_vars => PairInv'
  BY PairStep
<1>. QED
  BY <1>1, <1>2, <1>3, OrderHolds, PTL DEF Spec

\* Under the same condition, the CHECK_EQs of consumeBatch hold: a file is opened
\* at its first message and closed behind its last one.
THEOREM ReaderAlwaysInFile ==
  ASSUME \A k \in Seeds : k < End(0)
  PROVE  Spec => []ReaderInFile
<1>1. Init => PairInv
  BY DEF Init, PairInv, OffsetInvalid
<1>2. PairInv => ReaderInFile
  BY DEF PairInv, ReaderInFile
<1>3. FileInv /\ OrderInv /\ PairInv /\ [Next]_vars => PairInv'
  BY PairStep
<1>. QED
  BY <1>1, <1>2, <1>3, OrderHolds, PTL DEF Spec
=============================================================================
