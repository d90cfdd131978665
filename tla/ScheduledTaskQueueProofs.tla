---------------------- MODULE ScheduledTaskQueueProofs ----------------------
(***************************************************************************)
(* Proofs about ScheduledTaskQueue for every set of threads, keys and      *)
(* bounds: its types (no wrap-around of the unsigned counter included),    *)
(* the counter bound, no early execution, completion at most once across   *)
(* crashes, and no lost task when keys are not reused.                     *)
(***************************************************************************)
EXTENDS ScheduledTaskQueue, FiniteSetTheorems, TLAPS

\* The types without the claim that the counter is not negative.
WeakTypes ==
  /\ db \in [TaskKeys -> Nat]
  /\ completed \subseteq TaskKeys \X Nat
  /\ pending \subseteq Puts
  /\ outstanding \in Int
  /\ run \in BOOLEAN
  /\ pc \in {"none", "loop", "scan", "process", "write", "count", "sleep", "exited"}
  /\ maxTs \in Nat
  /\ tasks \subseteq TaskKeys
  /\ value \in [TaskKeys -> Nat]
  /\ done \subseteq tasks
  /\ clock \in 0..MaxClock
  /\ nextVer \in Nat \ {0}
  /\ crashes \in 0..MaxCrashes

\* Completed tasks that are deleted but not subtracted yet.
Unsettled == IF pc = "count" THEN Cardinality(done) ELSE 0

\* The counter covers stored tasks, Puts on their way and unsettled deletions.
CountInv ==
  /\ IsFiniteSet(pending)
  /\ pc = "none" => outstanding = 0 /\ pending = {}
  /\ pc # "none" =>
       outstanding >= Cardinality(StoredBelow(Int64Max)) + Cardinality(pending) + Unsettled

\* The batch in hand: scanned below a bound that has passed, and only the
\* execution thread deletes.
BatchInv ==
  /\ maxTs <= clock + 1
  /\ \A k \in tasks : k[1] < maxTs
  /\ tasks # {} => pc \in {"process", "write", "count"}
  /\ pc \in {"process", "write"} => tasks \subseteq Stored
  /\ pc = "process" => done = {}

\* Versions are fresh, and what is completed is neither stored nor pending.
VersionInv ==
  /\ \A k \in TaskKeys : db[k] < nextVer /\ value[k] < nextVer
  /\ \A e \in completed : e[2] < nextVer
  /\ \A p \in pending : p.ver < nextVer /\ p.ver # 0
  /\ \A p, q \in pending : p.ver = q.ver => p = q
  /\ \A p \in pending : p.ver # db[p.key] /\ p.ver # value[p.key]
  /\ \A p \in pending : <<p.key, p.ver>> \notin completed
  /\ CompletedOnce

\* Without reuse a key has one Put or one stored task, and what the processor
\* was given is what is stored.
ReuseInv ==
  ~ReuseKeys =>
    /\ \A p \in pending : db[p.key] = 0
    /\ \A p, q \in pending : p.key = q.key => p = q
    /\ pc \in {"process", "write"} => \A k \in tasks : value[k] = db[k]

IndInv == WeakTypes /\ CountInv /\ BatchInv /\ VersionInv /\ ReuseInv
-----------------------------------------------------------------------------
(* Counting lemmas.                                                        *)

\* There are finitely many task keys.
LEMMA KeysFinite == IsFiniteSet(TaskKeys)
BY FS_Product, KeysAssumption DEF TaskKeys

\* A scan counts finitely many keys.
LEMMA StoredFinite ==
  ASSUME NEW n
  PROVE  /\ IsFiniteSet(StoredBelow(n))
         /\ Cardinality(StoredBelow(n)) \in Nat
<1>1. StoredBelow(n) \in SUBSET TaskKeys
  BY DEF StoredBelow, Stored
<1>2. QED
  BY <1>1, KeysFinite, FS_Subset, FS_CardinalityType

\* Committing the Puts B to the stored keys S stores at most |S| + |B| keys.
LEMMA CommitBound ==
  ASSUME NEW S, IsFiniteSet(S), NEW B, IsFiniteSet(B),
         NEW T, T \subseteq S \cup {p.key : p \in B}
  PROVE  Cardinality(T) <= Cardinality(S) + Cardinality(B)
<1> DEFINE K == {p.key : p \in B}
           f == [p \in B |-> p.key]
<1>1. f \in Surjection(B, K)
  BY DEF Surjection
<1>2. IsFiniteSet(K) /\ Cardinality(K) <= Cardinality(B)
  BY <1>1, FS_Surjection
<1>3. IsFiniteSet(S \cup K)
      /\ Cardinality(S \cup K) = Cardinality(S) + Cardinality(K) - Cardinality(S \cap K)
  BY <1>2, FS_Union
<1>4. IsFiniteSet(S \cap K)
  BY <1>2, FS_Intersection
<1>5. Cardinality(T) <= Cardinality(S \cup K)
  BY <1>3, FS_Subset, T \in SUBSET (S \cup K)
<1>6. IsFiniteSet(T)
  BY <1>3, FS_Subset, T \in SUBSET (S \cup K)
<1>7. /\ Cardinality(S) \in Nat /\ Cardinality(K) \in Nat /\ Cardinality(B) \in Nat
      /\ Cardinality(S \cap K) \in Nat /\ Cardinality(S \cup K) \in Nat
      /\ Cardinality(T) \in Nat
  BY <1>2, <1>3, <1>4, <1>6, FS_CardinalityType
<1>8. QED
  BY <1>2, <1>3, <1>5, <1>7

\* Adding one element adds at most one.
LEMMA AddCount ==
  ASSUME NEW S, IsFiniteSet(S), NEW x
  PROVE  /\ IsFiniteSet(S \cup {x})
         /\ Cardinality(S \cup {x}) <= Cardinality(S) + 1
         /\ Cardinality(S) \in Nat /\ Cardinality(S \cup {x}) \in Nat
<1>1. Cardinality(S) \in Nat
  BY FS_CardinalityType
<1>2. IsFiniteSet(S \cup {x})
      /\ Cardinality(S \cup {x}) = IF x \in S THEN Cardinality(S) ELSE Cardinality(S) + 1
  BY FS_AddElement
<1>3. QED
  BY <1>1, <1>2

\* Removing a part of a finite set takes its size off.
LEMMA RemoveCount ==
  ASSUME NEW S, IsFiniteSet(S), NEW T, T \subseteq S
  PROVE  /\ IsFiniteSet(S \ T) /\ IsFiniteSet(T)
         /\ Cardinality(S \ T) = Cardinality(S) - Cardinality(T)
         /\ Cardinality(S) \in Nat /\ Cardinality(T) \in Nat /\ Cardinality(S \ T) \in Nat
<1>1. T \in SUBSET S /\ S \cap T = T
  OBVIOUS
<1>2. IsFiniteSet(T)
  BY <1>1, FS_Subset
<1>3. IsFiniteSet(S \ T) /\ Cardinality(S \ T) = Cardinality(S) - Cardinality(S \cap T)
  BY FS_Difference
<1>4. Cardinality(S) \in Nat /\ Cardinality(T) \in Nat
  BY <1>2, FS_CardinalityType
<1>5. Cardinality(S \ T) \in Nat
  BY <1>3, FS_CardinalityType
<1>6. Cardinality(S \cap T) = Cardinality(T)
  BY <1>1
<1>7. QED
  BY <1>2, <1>3, <1>4, <1>5, <1>6

\* Settling d deletions of a batch that adds at most b keys keeps the counter above.
LEMMA SettleArithmetic ==
  ASSUME NEW out \in Int, NEW stored \in Nat, NEW rest \in Nat, NEW puts \in Nat,
         NEW b \in Nat, NEW d \in Nat, NEW new \in Nat,
         out >= stored + puts, new <= rest + b, rest = stored - d
  PROVE  out >= new + (puts - b) + d
OBVIOUS
-----------------------------------------------------------------------------
(* Operators of the model.                                                 *)

\* After Apply a key holds its Put if there is one and what it held otherwise.
LEMMA ApplyValue ==
  ASSUME WeakTypes, NEW B, B \subseteq pending
  PROVE  /\ Apply(B) \in [TaskKeys -> Nat]
         /\ \A k \in TaskKeys :
              \/ /\ \A p \in B : p.key # k
                 /\ Apply(B)[k] = db[k]
              \/ \E p \in B : p.key = k /\ Apply(B)[k] = p.ver
<1>1. ASSUME NEW k \in TaskKeys, \E p \in B : p.key = k
      PROVE  /\ (CHOOSE p \in B : p.key = k) \in B
             /\ (CHOOSE p \in B : p.key = k).key = k
  BY <1>1
<1>2. \A p \in B : p.ver \in Nat
  BY DEF WeakTypes, Puts
<1>3. ASSUME NEW k \in TaskKeys
      PROVE  /\ \/ /\ \A p \in B : p.key # k
                   /\ Apply(B)[k] = db[k]
                \/ \E p \in B : p.key = k /\ Apply(B)[k] = p.ver
             /\ Apply(B)[k] \in Nat
  <2>1. CASE \E p \in B : p.key = k
    BY <2>1, <1>1, <1>2 DEF Apply
  <2>2. CASE ~ \E p \in B : p.key = k
    BY <2>2 DEF Apply, WeakTypes
  <2>3. QED
    BY <2>1, <2>2
<1>4. Apply(B) = [k \in TaskKeys |-> Apply(B)[k]]
  BY DEF Apply
<1>5. QED
  BY <1>3, <1>4

\* A write batch is a part of the pending Puts.
LEMMA BatchOfPending == ASSUME NEW t PROVE BatchOf(t) \subseteq pending
BY DEF BatchOf

\* Committing a batch empties no key.
LEMMA ApplyKeeps ==
  ASSUME IndInv, NEW t
  PROVE  \A k \in TaskKeys : Apply(BatchOf(t))[k] = db[k] \/ Apply(BatchOf(t))[k] # 0
<1>1. WeakTypes /\ BatchOf(t) \subseteq pending
  BY BatchOfPending DEF IndInv
<1>2. \A p \in BatchOf(t) : p.ver # 0
  BY <1>1 DEF IndInv, VersionInv
<1>3. \A k \in TaskKeys :
        \/ Apply(BatchOf(t))[k] = db[k]
        \/ \E p \in BatchOf(t) : p.key = k /\ Apply(BatchOf(t))[k] = p.ver
  BY <1>1, ApplyValue
<1>4. QED
  BY <1>2, <1>3

\* Crash and Join leave an empty memory.
LEMMA VanishStep == IndInv /\ Vanish /\ crashes' \in 0..MaxCrashes => IndInv'
<1> SUFFICES ASSUME IndInv, Vanish, crashes' \in 0..MaxCrashes
             PROVE  IndInv'
  OBVIOUS
<1>1. WeakTypes'
  <2>1. run' \in BOOLEAN /\ pc' = "none" /\ pending' = {} /\ tasks' = {} /\ done' = {}
    BY DEF Vanish
  <2>2. value' \in [TaskKeys -> Nat] /\ maxTs' \in Nat /\ outstanding' \in Int
    BY DEF Vanish
  <2>3. UNCHANGED <<db, completed, clock, nextVer>>
    BY DEF Vanish
  <2>4. QED
    BY <2>1, <2>2, <2>3 DEF IndInv, WeakTypes
<1>2. CountInv'
  BY FS_EmptySet DEF Vanish, CountInv
<1>3. BatchInv'
  BY DEF IndInv, WeakTypes, Vanish, BatchInv
<1>4. VersionInv'
  BY DEF IndInv, WeakTypes, Vanish, VersionInv, CompletedOnce, Stored
<1>5. ReuseInv'
  BY DEF Vanish, ReuseInv
<1>6. QED
  BY <1>1, <1>2, <1>3, <1>4, <1>5 DEF IndInv
-----------------------------------------------------------------------------
(* Every step preserves the inductive invariant.                           *)

\* scheduleWithWriteBatch counts the Put it adds.
LEMMA ScheduleStep ==
  ASSUME IndInv, NEW t \in Threads, NEW k \in TaskKeys, ScheduleWithWriteBatch(t, k)
  PROVE  IndInv'
<1> DEFINE put == [thread |-> t, key |-> k, ver |-> nextVer]
           kept == {p \in pending : p.thread # t \/ p.key # k}
<1> USE DEF IndInv
<1>1. /\ pending' = kept \cup {put} /\ put \in Puts
      /\ outstanding' = outstanding + 1
      /\ nextVer' = nextVer + 1
      /\ pc # "none"
      /\ UNCHANGED <<db, completed, run, pc, maxTs, tasks, value, done, clock, crashes>>
  BY ThreadsAssumption DEF ScheduleWithWriteBatch, batchVars, WeakTypes, Puts, MaySchedule
<1>2. WeakTypes'
  BY <1>1 DEF WeakTypes
<1>3. CountInv'
  <2>1. IsFiniteSet(kept) /\ Cardinality(kept) <= Cardinality(pending)
        /\ Cardinality(kept) \in Nat /\ Cardinality(pending) \in Nat
    BY FS_Subset, FS_CardinalityType, kept \in SUBSET pending DEF CountInv
  <2>2. IsFiniteSet(pending') /\ Cardinality(pending') <= Cardinality(kept) + 1
        /\ Cardinality(pending') \in Nat
    BY <1>1, <2>1, AddCount
  <2>3. StoredBelow(Int64Max)' = StoredBelow(Int64Max) /\ Unsettled' = Unsettled
    BY <1>1 DEF StoredBelow, Stored, Unsettled
  <2>4. Cardinality(StoredBelow(Int64Max)) \in Nat
    BY StoredFinite
  <2>5. Unsettled \in Nat
    BY KeysFinite, FS_Subset, FS_CardinalityType, done \in SUBSET TaskKeys
    DEF Unsettled, WeakTypes
  <2>6. QED
    BY <1>1, <2>1, <2>2, <2>3, <2>4, <2>5 DEF CountInv, WeakTypes
<1>4. BatchInv'
  BY <1>1 DEF BatchInv, WeakTypes, Stored
<1>5. VersionInv'
  BY <1>1 DEF VersionInv, WeakTypes, Puts, CompletedOnce, Stored
<1>6. ReuseInv'
  BY <1>1 DEF ReuseInv, WeakTypes, Puts, ScheduleWithWriteBatch, Outstanding, Stored
<1>7. QED
  BY <1>2, <1>3, <1>4, <1>5, <1>6

\* The Unsettled part of the counter is a natural number.
LEMMA UnsettledType == WeakTypes => Unsettled \in Nat /\ Cardinality(done) \in Nat
<1> SUFFICES ASSUME WeakTypes PROVE Cardinality(done) \in Nat
  BY DEF Unsettled
<1>1. done \in SUBSET TaskKeys
  BY DEF WeakTypes
<1>2. QED
  BY <1>1, KeysFinite, FS_Subset, FS_CardinalityType

\* A commit moves Puts that are already counted into the column family.
LEMMA CommitStep ==
  ASSUME IndInv, NEW c \in Clients, CommitBatch(c)
  PROVE  IndInv'
<1> DEFINE B == BatchOf(c)
<1> USE DEF IndInv
<1>1. /\ db' = Apply(B) /\ pending' = pending \ B /\ B \subseteq pending /\ B # {}
      /\ UNCHANGED <<completed, outstanding, run, pc, maxTs, tasks, value, done,
                     clock, nextVer, crashes>>
  BY BatchOfPending DEF CommitBatch, batchVars, boundVars
<1>2. /\ db' \in [TaskKeys -> Nat]
      /\ \A k \in TaskKeys :
           \/ /\ \A p \in B : p.key # k
              /\ db'[k] = db[k]
           \/ \E p \in B : p.key = k /\ db'[k] = p.ver
  BY <1>1, ApplyValue
<1> HIDE DEF B
<1>3. \A p \in pending : p.key \in TaskKeys /\ p.ver \in Nat
  BY DEF WeakTypes, Puts
<1>4. WeakTypes'
  BY <1>1, <1>2 DEF WeakTypes
<1>5. CountInv'
  <2>1. StoredBelow(Int64Max)' \subseteq StoredBelow(Int64Max) \cup {p.key : p \in B}
    BY <1>2 DEF StoredBelow, Stored
  <2>2. /\ IsFiniteSet(pending') /\ IsFiniteSet(B)
        /\ Cardinality(pending') = Cardinality(pending) - Cardinality(B)
        /\ Cardinality(pending) \in Nat /\ Cardinality(B) \in Nat
    BY <1>1, RemoveCount DEF CountInv
  <2>3. Cardinality(StoredBelow(Int64Max)')
          <= Cardinality(StoredBelow(Int64Max)) + Cardinality(B)
    BY <2>1, <2>2, CommitBound, StoredFinite
  <2>4. Cardinality(StoredBelow(Int64Max)) \in Nat /\ Cardinality(StoredBelow(Int64Max)') \in Nat
    BY StoredFinite, KeysFinite, FS_Subset, FS_CardinalityType,
       StoredBelow(Int64Max)' \in SUBSET TaskKeys
    DEF StoredBelow, Stored
  <2>5. pc # "none" /\ Unsettled' = Unsettled
    BY <1>1 DEF CountInv, Unsettled
  <2>6. QED
    BY <1>1, <2>2, <2>3, <2>4, <2>5, UnsettledType DEF CountInv, WeakTypes
<1>6. BatchInv'
  <2>1. Stored \subseteq Stored'
    BY <1>1, <1>2 DEF Stored, VersionInv
  <2>2. QED
    BY <1>1, <2>1 DEF BatchInv
<1>7. VersionInv'
  <2>1. \A k \in TaskKeys : db'[k] < nextVer
    BY <1>1, <1>2, <1>3 DEF VersionInv
  <2>2. \A p \in pending' : p.ver # db'[p.key]
    BY <1>1, <1>2, <1>3 DEF VersionInv
  <2>3. CompletedOnce'
    BY <1>1, <1>2, <1>3 DEF VersionInv, CompletedOnce, Stored
  <2>4. QED
    BY <1>1, <2>1, <2>2, <2>3 DEF VersionInv
<1>8. ReuseInv'
  <2> SUFFICES ASSUME ~ReuseKeys
               PROVE  /\ \A p \in pending' : db'[p.key] = 0
                      /\ \A p, q \in pending' : p.key = q.key => p = q
                      /\ pc' \in {"process", "write"} => \A k \in tasks' : value'[k] = db'[k]
    BY DEF ReuseInv
  <2>1. \A p \in pending' : db'[p.key] = 0
    BY <1>1, <1>2, <1>3 DEF ReuseInv
  <2>2. pc \in {"process", "write"} => \A k \in tasks : value[k] = db'[k]
    <3> SUFFICES ASSUME pc \in {"process", "write"}, NEW k \in tasks PROVE value[k] = db'[k]
      OBVIOUS
    <3>1. k \in TaskKeys /\ db[k] # 0
      BY DEF BatchInv, Stored
    <3>2. db'[k] = db[k]
      BY <1>1, <1>2, <3>1 DEF ReuseInv
    <3>3. QED
      BY <3>2 DEF ReuseInv
  <2>3. QED
    BY <1>1, <2>1, <2>2 DEF ReuseInv
<1>9. QED
  BY <1>4, <1>5, <1>6, <1>7, <1>8

\* An abandoned batch only makes the counter too large.
LEMMA AbandonStep ==
  ASSUME IndInv, NEW c \in Clients, AbandonBatch(c)
  PROVE  IndInv'
<1> DEFINE B == BatchOf(c)
<1> USE DEF IndInv
<1>1. /\ pending' = pending \ B /\ B \subseteq pending /\ B # {}
      /\ UNCHANGED <<db, completed, outstanding, run, pc, maxTs, tasks, value, done,
                     clock, nextVer, crashes>>
  BY BatchOfPending DEF AbandonBatch, batchVars, boundVars
<1> HIDE DEF B
<1>2. WeakTypes'
  BY <1>1 DEF WeakTypes
<1>3. CountInv'
  <2>1. /\ IsFiniteSet(pending')
        /\ Cardinality(pending') = Cardinality(pending) - Cardinality(B)
        /\ Cardinality(pending) \in Nat /\ Cardinality(B) \in Nat
    BY <1>1, RemoveCount DEF CountInv
  <2>2. StoredBelow(Int64Max)' = StoredBelow(Int64Max) /\ Unsettled' = Unsettled
    BY <1>1 DEF StoredBelow, Stored, Unsettled
  <2>3. pc # "none"
    BY <1>1 DEF CountInv
  <2>4. QED
    BY <1>1, <2>1, <2>2, <2>3, StoredFinite, UnsettledType DEF CountInv, WeakTypes
<1>4. BatchInv'
  BY <1>1 DEF BatchInv, Stored
<1>5. VersionInv'
  BY <1>1 DEF VersionInv, CompletedOnce, Stored
<1>6. ReuseInv'
  BY <1>1 DEF ReuseInv
<1>7. QED
  BY <1>2, <1>3, <1>4, <1>5, <1>6

\* start() counts what is stored when nothing is pending.
LEMMA StartStep == ASSUME IndInv, Start PROVE IndInv'
<1> USE DEF IndInv
<1>1. /\ pc = "none" /\ pc' = "loop" /\ run' = TRUE
      /\ outstanding' = Cardinality(StoredBelow(Int64Max))
      /\ UNCHANGED <<db, completed, pending, maxTs, tasks, value, done, clock, nextVer, crashes>>
  BY DEF Start, AccurateCount, batchVars, boundVars
<1>2. WeakTypes'
  <2>1. run' \in BOOLEAN
    BY <1>1
  <2>2. QED
    BY <1>1, <2>1, StoredFinite DEF WeakTypes
<1>3. CountInv'
  <2>1. pending' = {} /\ IsFiniteSet(pending') /\ Cardinality(pending') = 0 /\ Unsettled' = 0
    BY <1>1, FS_EmptySet DEF CountInv, Unsettled
  <2>2. StoredBelow(Int64Max)' = StoredBelow(Int64Max)
    BY <1>1 DEF StoredBelow, Stored
  <2>3. QED
    BY <1>1, <2>1, <2>2, StoredFinite DEF CountInv
<1>4. BatchInv'
  BY <1>1 DEF BatchInv
<1>5. VersionInv'
  BY <1>1 DEF VersionInv, CompletedOnce, Stored
<1>6. ReuseInv'
  BY <1>1 DEF ReuseInv
<1>7. QED
  BY <1>2, <1>3, <1>4, <1>5, <1>6

\* A step that changes neither the database, nor the counter, nor the batches
\* preserves the counting and version invariants.
LEMMA QuietStep ==
  ASSUME IndInv, UNCHANGED <<db, completed, pending, outstanding, value, nextVer>>,
         pc # "none", pc' # "none", pc # "count", pc' # "count"
  PROVE  CountInv' /\ VersionInv'
<1> USE DEF IndInv
<1>1. StoredBelow(Int64Max)' = StoredBelow(Int64Max) /\ Unsettled' = 0 /\ Unsettled = 0
  BY DEF StoredBelow, Stored, Unsettled
<1>2. CountInv'
  BY <1>1 DEF CountInv
<1>3. VersionInv'
  BY DEF VersionInv, CompletedOnce, Stored
<1>4. QED
  BY <1>2, <1>3

\* A scan bound stays at most one past the clock while the clock advances.
LEMMA BoundKept == ASSUME NEW b \in Nat, NEW t \in Nat, NEW u \in Nat, b <= t + 1, t <= u
                   PROVE  b <= u + 1
  OBVIOUS

\* stop() and the clock change nothing the invariant counts.
LEMMA StopTickStep == ASSUME IndInv, Stop \/ Tick PROVE IndInv'
<1> USE DEF IndInv
<1>1. /\ UNCHANGED <<db, completed, pending, outstanding, pc, maxTs, tasks, value, done,
                     nextVer, crashes>>
      /\ clock' \in 0..MaxClock /\ clock <= clock'
  BY BoundsAssumption DEF Stop, Tick, batchVars, boundVars, WeakTypes
<1>2. run' \in BOOLEAN
  <2>1. run' = FALSE \/ run' = run
    BY DEF Stop, Tick
  <2>2. QED
    BY <2>1 DEF WeakTypes
<1>3. WeakTypes'
  BY <1>1, <1>2 DEF WeakTypes
<1>4. CountInv' /\ VersionInv'
  BY <1>1 DEF CountInv, VersionInv, CompletedOnce, StoredBelow, Stored, Unsettled
<1>5. BatchInv'
  <2>1. maxTs \in Nat /\ maxTs' = maxTs /\ maxTs <= clock + 1
    BY <1>1 DEF WeakTypes, BatchInv
  <2>2. clock \in Nat /\ clock' \in Nat /\ clock <= clock'
    BY <1>1, BoundsAssumption DEF WeakTypes
  <2>5. maxTs' <= clock' + 1
    BY <2>1, <2>2, BoundKept
  <2>3. Stored' = Stored
    BY <1>1 DEF Stored
  <2>4. QED
    BY <1>1, <2>5, <2>3 DEF BatchInv
<1>6. ReuseInv'
  BY <1>1 DEF ReuseInv
<1>7. QED
  BY <1>3, <1>4, <1>5, <1>6

\* Entering a round, leaving the loop and sleeping.
LEMMA LoopStep == ASSUME IndInv, BeginRound \/ ExitLoop \/ Sleep PROVE IndInv'
<1> USE DEF IndInv
<1>1. /\ UNCHANGED <<db, completed, pending, outstanding, run, tasks, value, done, clock,
                     nextVer, crashes>>
      /\ pc \in {"loop", "sleep"} /\ pc' \in {"scan", "exited", "loop"}
      /\ maxTs' \in Nat /\ maxTs' <= clock + 1
  BY BoundsAssumption
  DEF BeginRound, ExitLoop, Sleep, batchVars, boundVars, WeakTypes, BatchInv
<1>2. WeakTypes'
  BY <1>1 DEF WeakTypes
<1>3. CountInv' /\ VersionInv'
  BY <1>1, QuietStep
<1>4. BatchInv' /\ ReuseInv'
  BY <1>1 DEF BatchInv, ReuseInv, WeakTypes
<1>5. QED
  BY <1>2, <1>3, <1>4

\* The scan copies values that are stored and due.
LEMMA ScanStep == ASSUME IndInv, ScanPendingTasks PROVE IndInv'
<1> USE DEF IndInv
<1>1. /\ UNCHANGED <<db, completed, pending, outstanding, run, maxTs, done, clock,
                     nextVer, crashes>>
      /\ pc = "scan" /\ tasks = {} /\ done = {}
  BY DEF ScanPendingTasks, boundVars, BatchInv, WeakTypes
<1>2. PICK T \in SUBSET StoredBelow(maxTs) :
        /\ tasks' = T
        /\ value' = [k \in TaskKeys |-> IF k \in T THEN db[k] ELSE 0]
        /\ pc' = IF T = {} THEN "sleep" ELSE "process"
  BY DEF ScanPendingTasks
<1>3. T \subseteq TaskKeys /\ T \subseteq Stored /\ \A k \in T : k[1] < maxTs
  BY DEF StoredBelow, Stored
<1>4. WeakTypes'
  BY <1>1, <1>2, <1>3 DEF WeakTypes
<1>5. CountInv'
  BY <1>1, <1>2 DEF CountInv, StoredBelow, Stored, Unsettled
<1>6. BatchInv'
  BY <1>1, <1>2, <1>3 DEF BatchInv, Stored
<1>7. VersionInv'
  <2>1. \A p \in pending : p.key \in TaskKeys
    BY DEF WeakTypes, Puts
  <2>2. \A k \in TaskKeys : value'[k] = db[k] \/ value'[k] = 0
    BY <1>2
  <2>3. QED
    <3>1. CompletedOnce'
      BY <1>1 DEF VersionInv, CompletedOnce, Stored
    <3>2. \A k \in TaskKeys : db'[k] < nextVer' /\ value'[k] < nextVer'
      BY <1>1, <2>2 DEF VersionInv, WeakTypes
    <3>3. \A p \in pending' : p.ver # db'[p.key] /\ p.ver # value'[p.key]
      BY <1>1, <2>1, <2>2 DEF VersionInv
    <3>4. QED
      BY <1>1, <3>1, <3>2, <3>3 DEF VersionInv
<1>8. ReuseInv'
  BY <1>1, <1>2, <1>3 DEF ReuseInv
<1>9. QED
  BY <1>4, <1>5, <1>6, <1>7, <1>8

\* The processor only marks tasks of its batch.
LEMMA ProcessStep ==
  ASSUME IndInv, NEW D, ProcessPendingTasks(D)
  PROVE  IndInv'
<1> USE DEF IndInv
<1>1. /\ UNCHANGED <<db, completed, pending, outstanding, run, maxTs, tasks, value, clock,
                     nextVer, crashes>>
      /\ pc = "process" /\ pc' = "write" /\ done' \subseteq tasks
  BY DEF ProcessPendingTasks, boundVars
<1>2. WeakTypes'
  BY <1>1 DEF WeakTypes
<1>3. CountInv' /\ VersionInv'
  BY <1>1, QuietStep
<1>4. BatchInv' /\ ReuseInv'
  BY <1>1 DEF BatchInv, ReuseInv, Stored
<1>5. QED
  BY <1>2, <1>3, <1>4

\* Results, follow-up Puts and Deletes reach the database together.
LEMMA WriteStep == ASSUME IndInv, WriteResults PROVE IndInv'
<1> DEFINE B == BatchOf(Worker)
           mid == Apply(B)
           S == StoredBelow(Int64Max)
<1> USE DEF IndInv
<1>1. /\ db' = [k \in TaskKeys |-> IF k \in done THEN 0 ELSE mid[k]]
      /\ completed' = completed \cup {<<k, value[k]>> : k \in done}
      /\ pending' = pending \ B /\ B \subseteq pending
      /\ pc = "write" /\ pc' = "count"
      /\ UNCHANGED <<outstanding, run, maxTs, tasks, value, done, clock, nextVer, crashes>>
  BY BatchOfPending DEF WriteResults, batchVars, boundVars
<1>2. /\ mid \in [TaskKeys -> Nat]
      /\ \A k \in TaskKeys :
           \/ /\ \A p \in B : p.key # k
              /\ mid[k] = db[k]
           \/ \E p \in B : p.key = k /\ mid[k] = p.ver
  BY <1>1, ApplyValue
<1> HIDE DEF B, mid
<1>3. \A p \in pending : p.key \in TaskKeys /\ p.ver \in Nat
  BY DEF WeakTypes, Puts
<1>4. done \subseteq TaskKeys /\ done \subseteq Stored /\ done \subseteq tasks
  BY <1>1 DEF WeakTypes, BatchInv
<1>5. WeakTypes'
  BY <1>1, <1>2, <1>4 DEF WeakTypes
<1>6. CountInv'
  <2>1. done \subseteq S
    <3>1. \A k \in done : k[1] \in Nat /\ k[1] < maxTs
      BY <1>4, KeysAssumption DEF BatchInv, TaskKeys
    <3>2. maxTs <= Int64Max
      BY BoundsAssumption DEF BatchInv, WeakTypes
    <3>3. QED
      BY <1>4, <3>1, <3>2, BoundsAssumption DEF StoredBelow, WeakTypes
  <2>2. /\ IsFiniteSet(S \ done) /\ Cardinality(S \ done) = Cardinality(S) - Cardinality(done)
        /\ Cardinality(S) \in Nat /\ Cardinality(done) \in Nat
    BY <2>1, StoredFinite, RemoveCount
  <2>3. /\ IsFiniteSet(pending') /\ IsFiniteSet(B)
        /\ Cardinality(pending') = Cardinality(pending) - Cardinality(B)
        /\ Cardinality(pending) \in Nat /\ Cardinality(B) \in Nat
    BY <1>1, RemoveCount DEF CountInv
  <2>4. S' \subseteq (S \ done) \cup {p.key : p \in B}
    BY <1>1, <1>2 DEF StoredBelow, Stored
  <2>5. Cardinality(S') <= Cardinality(S \ done) + Cardinality(B)
    BY <2>2, <2>3, <2>4, CommitBound
  <2>6. Cardinality(S') \in Nat
    BY KeysFinite, FS_Subset, FS_CardinalityType, S' \in SUBSET TaskKeys
    DEF StoredBelow, Stored
  <2>7. Unsettled = 0 /\ Unsettled' = Cardinality(done)
    BY <1>1 DEF Unsettled
  <2> HIDE DEF S
  <2>8. outstanding >= Cardinality(S) + Cardinality(pending)
    <3>1. outstanding >= Cardinality(S) + Cardinality(pending) + Unsettled
      BY <1>1 DEF CountInv, S
    <3>2. QED
      BY <2>2, <2>3, <2>7, <3>1
  <2>9. outstanding' >= Cardinality(S') + Cardinality(pending') + Unsettled'
    <3>1. outstanding \in Int /\ outstanding' = outstanding
      BY <1>1 DEF WeakTypes
    <3>2. Cardinality(S \ done) \in Nat
      BY <2>2, FS_CardinalityType
    <3>3. outstanding >= Cardinality(S') + (Cardinality(pending) - Cardinality(B)) + Cardinality(done)
      BY <2>2, <2>3, <2>5, <2>6, <2>8, <3>1, <3>2, SettleArithmetic
    <3>4. QED
      BY <2>3, <2>7, <3>1, <3>3
  <2>10. QED
    BY <1>1, <2>3, <2>9 DEF CountInv, S
<1>7. BatchInv'
  BY <1>1 DEF BatchInv
<1>8. VersionInv'
  <2>1. \A k \in TaskKeys : mid[k] < nextVer
    BY <1>1, <1>2, <1>3 DEF VersionInv
  <2>2. \A k \in TaskKeys : db'[k] < nextVer
    BY <1>1, <1>2, <2>1 DEF WeakTypes
  <2>3. ASSUME NEW p \in pending' PROVE p.ver # db'[p.key] /\ p.ver # 0
    <3>1. p \in pending /\ p \notin B /\ p.key \in TaskKeys
      BY <1>1, <1>3
    <3>2. p.ver # 0 /\ p.ver # db[p.key]
      BY <3>1 DEF VersionInv
    <3>3. \A q \in B : q.ver # p.ver
      BY <1>1, <3>1 DEF VersionInv
    <3>5. p.ver # mid[p.key]
      BY <1>2, <3>1, <3>2, <3>3
    <3>4. QED
      BY <1>1, <3>1, <3>2, <3>5
  <2>4. \A p \in pending' : <<p.key, p.ver>> \notin completed'
    BY <1>1, <1>3 DEF VersionInv
  <2>5. \A e \in completed' : e[2] < nextVer
    <3>1. \A k \in done : value[k] < nextVer
      BY <1>4 DEF VersionInv
    <3>2. \A e \in completed : e[2] < nextVer
      BY DEF VersionInv
    <3>3. \A e \in {<<k, value[k]>> : k \in done} : e[2] < nextVer
      BY <3>1
    <3>4. completed' = completed \cup {<<k, value[k]>> : k \in done}
      BY <1>1
    <3>5. QED
      BY <3>2, <3>3, <3>4
  <2>6. CompletedOnce'
    BY <1>1, <1>2, <1>3 DEF VersionInv, CompletedOnce, Stored
  <2>7. QED
    BY <1>1, <2>2, <2>3, <2>4, <2>5, <2>6 DEF VersionInv
<1>9. ReuseInv'
  <2> SUFFICES ASSUME ~ReuseKeys
               PROVE  /\ \A p \in pending' : db'[p.key] = 0
                      /\ \A p, q \in pending' : p.key = q.key => p = q
    BY <1>1 DEF ReuseInv
  <2>1. \A p, q \in pending : p.key = q.key => p = q
    BY DEF ReuseInv
  <2>2. ASSUME NEW p \in pending' PROVE db'[p.key] = 0
    <3>1. p \in pending /\ p \notin B /\ p.key \in TaskKeys /\ db[p.key] = 0
      BY <1>1, <1>3 DEF ReuseInv
    <3>2. \A q \in B : q.key # p.key
      BY <1>1, <2>1, <3>1
    <3>3. mid[p.key] = 0
      BY <1>2, <3>1, <3>2
    <3>4. QED
      BY <1>1, <3>1, <3>3
  <2>3. QED
    BY <1>1, <2>1, <2>2
<1>10. QED
  BY <1>5, <1>6, <1>7, <1>8, <1>9

\* Settling the counter leaves it above what is stored and pending.
LEMMA FinishStep == ASSUME IndInv, FinishBatch PROVE IndInv'
<1> USE DEF IndInv
<1>1. /\ UNCHANGED <<db, completed, pending, run, maxTs, clock, nextVer, crashes>>
      /\ outstanding' = outstanding - Cardinality(done)
      /\ value' = [k \in TaskKeys |-> 0] /\ tasks' = {} /\ done' = {}
      /\ pc = "count" /\ pc' \in {"scan", "sleep"}
  BY DEF FinishBatch, boundVars
<1>2. WeakTypes'
  BY <1>1, UnsettledType DEF WeakTypes
<1>3. CountInv'
  <2>1. StoredBelow(Int64Max)' = StoredBelow(Int64Max)
        /\ Unsettled = Cardinality(done) /\ Unsettled' = 0
    BY <1>1 DEF StoredBelow, Stored, Unsettled
  <2>2. Cardinality(pending) \in Nat
    BY FS_CardinalityType DEF CountInv
  <2>3. /\ outstanding \in Int /\ Cardinality(done) \in Nat
        /\ Cardinality(StoredBelow(Int64Max)) \in Nat
    BY StoredFinite, UnsettledType DEF WeakTypes
  <2>4. outstanding >= Cardinality(StoredBelow(Int64Max)) + Cardinality(pending) + Cardinality(done)
    BY <1>1, <2>1 DEF CountInv
  <2>5. outstanding' >= Cardinality(StoredBelow(Int64Max)) + Cardinality(pending)
    BY <1>1, <2>2, <2>3, <2>4
  <2>6. outstanding' >= Cardinality(StoredBelow(Int64Max)') + Cardinality(pending') + Unsettled'
    BY <1>1, <2>1, <2>2, <2>3, <2>5
  <2>7. QED
    BY <1>1, <2>6 DEF CountInv
<1>4. BatchInv' /\ ReuseInv'
  BY <1>1 DEF BatchInv, ReuseInv
<1>5. VersionInv'
  <2>1. CompletedOnce'
    BY <1>1 DEF VersionInv, CompletedOnce, Stored
  <2>2. \A k \in TaskKeys : db'[k] < nextVer' /\ value'[k] < nextVer'
    BY <1>1 DEF VersionInv, WeakTypes
  <2>3. \A p \in pending : p.key \in TaskKeys
    BY DEF WeakTypes, Puts
  <2>4. \A p \in pending' : p.ver # db'[p.key] /\ p.ver # value'[p.key]
    BY <1>1, <2>3 DEF VersionInv
  <2>5. QED
    BY <1>1, <2>1, <2>2, <2>4 DEF VersionInv
<1>6. QED
  BY <1>2, <1>3, <1>4, <1>5

\* The invariant holds initially.
LEMMA InitInv == Init => IndInv
<1> SUFFICES ASSUME Init PROVE IndInv
  OBVIOUS
<1> USE DEF Init
<1>1. run \in BOOLEAN
  OBVIOUS
<1>2. WeakTypes
  <2>1. db \in [TaskKeys -> Nat] /\ value \in [TaskKeys -> Nat]
    OBVIOUS
  <2>2. completed \subseteq TaskKeys \X Nat /\ pending \subseteq Puts
        /\ tasks \subseteq TaskKeys /\ done \subseteq tasks
    OBVIOUS
  <2>3. outstanding \in Int /\ maxTs \in Nat /\ nextVer \in Nat \ {0}
        /\ clock \in 0..MaxClock /\ crashes \in 0..MaxCrashes
    BY BoundsAssumption
  <2>4. pc \in {"none", "loop", "scan", "process", "write", "count", "sleep", "exited"}
    OBVIOUS
  <2>5. QED
    BY <1>1, <2>1, <2>2, <2>3, <2>4 DEF WeakTypes
<1>3. CountInv
  BY FS_EmptySet DEF CountInv
<1>4. BatchInv /\ ReuseInv
  BY DEF BatchInv, ReuseInv
<1>5. VersionInv
  BY DEF VersionInv, CompletedOnce, Stored
<1>6. QED
  BY <1>2, <1>3, <1>4, <1>5 DEF IndInv

\* Every step of the specification preserves the invariant.
LEMMA NextInv == IndInv /\ [Next]_vars => IndInv'
<1> SUFFICES ASSUME IndInv, [Next]_vars PROVE IndInv'
  OBVIOUS
<1>1. ASSUME NEW t \in Threads, NEW k \in TaskKeys, ScheduleWithWriteBatch(t, k) PROVE IndInv'
  BY <1>1, ScheduleStep
<1>2. ASSUME NEW c \in Clients, CommitBatch(c) \/ AbandonBatch(c) PROVE IndInv'
  BY <1>2, CommitStep, AbandonStep
<1>3. CASE Start
  BY <1>3, StartStep
<1>4. CASE Join
  BY <1>4, VanishStep DEF Join, IndInv, WeakTypes
<1>5. CASE Crash
  <2>1. crashes' \in 0..MaxCrashes
    BY <1>5, BoundsAssumption DEF Crash, IndInv, WeakTypes
  <2>2. QED
    BY <1>5, <2>1, VanishStep DEF Crash
<1>6. CASE Stop \/ Tick
  BY <1>6, StopTickStep
<1>7. CASE BeginRound \/ ExitLoop \/ Sleep
  BY <1>7, LoopStep
<1>8. CASE ScanPendingTasks
  BY <1>8, ScanStep
<1>9. ASSUME NEW D \in SUBSET tasks, ProcessPendingTasks(D) PROVE IndInv'
  BY <1>9, ProcessStep
<1>10. CASE WriteResults
  BY <1>10, WriteStep
<1>11. CASE FinishBatch
  BY <1>11, FinishStep
<1>12. CASE UNCHANGED vars
  BY <1>12 DEF vars, IndInv, WeakTypes, CountInv, BatchInv, VersionInv, ReuseInv,
               CompletedOnce, StoredBelow, Stored, Unsettled
<1>13. QED
  BY <1>1, <1>2, <1>3, <1>4, <1>5, <1>6, <1>7, <1>8, <1>9, <1>10, <1>11, <1>12
  DEF Next, WorkerStep

\* The inductive invariant is an invariant of the specification.
LEMMA IndInvInvariant == Spec => []IndInv
BY InitInv, NextInv, PTL DEF Spec
-----------------------------------------------------------------------------
(* What the specification promises.                                        *)

\* The variables keep their types; the unsigned counter never wraps below zero.
THEOREM TypeCorrect == Spec => []TypeOK
<1>1. IndInv => TypeOK
  <2> SUFFICES ASSUME IndInv PROVE TypeOK
    OBVIOUS
  <2>1. Cardinality(StoredBelow(Int64Max)) \in Nat /\ Cardinality(pending) \in Nat
    BY StoredFinite, FS_CardinalityType DEF IndInv, CountInv
  <2>2. outstanding \in Nat
    BY <2>1, UnsettledType DEF IndInv, CountInv, WeakTypes
  <2>3. QED
    BY <2>2 DEF TypeOK, IndInv, WeakTypes
<1>2. QED
  BY <1>1, IndInvInvariant, PTL

\* outstandingTaskCount() is never below the number of stored tasks.
THEOREM CountNeverTooSmall == Spec => []CountCoversStored
<1>1. IndInv => CountCoversStored
  <2> SUFFICES ASSUME IndInv PROVE CountCoversStored
    OBVIOUS
  <2>1. Cardinality(StoredBelow(Int64Max)) \in Nat /\ Cardinality(pending) \in Nat
    BY StoredFinite, FS_CardinalityType DEF IndInv, CountInv
  <2>2. Unsettled \in Nat /\ outstanding \in Int
    BY UnsettledType DEF IndInv, WeakTypes
  <2>3. pc # "none" =>
          outstanding >= Cardinality(StoredBelow(Int64Max)) + Cardinality(pending) + Unsettled
    BY DEF IndInv, CountInv
  <2>4. QED
    BY <2>1, <2>2, <2>3 DEF CountCoversStored
<1>2. QED
  BY <1>1, IndInvInvariant, PTL

\* The processor never sees a task before its scheduled time.
THEOREM NoEarlyTask == Spec => []NeverEarly
<1>1. IndInv => NeverEarly
  <2> SUFFICES ASSUME IndInv, NEW k \in tasks PROVE k[1] <= clock
    BY DEF NeverEarly
  <2>1. k[1] \in Nat
    BY KeysAssumption DEF IndInv, WeakTypes, TaskKeys
  <2>2. maxTs \in Nat /\ clock \in Nat
    BY BoundsAssumption DEF IndInv, WeakTypes
  <2>3. k[1] < maxTs /\ maxTs <= clock + 1
    BY DEF IndInv, BatchInv
  <2>4. QED
    BY <2>1, <2>2, <2>3
<1>2. QED
  BY <1>1, IndInvInvariant, PTL

\* Across crashes, a task whose results are durable is never stored again.
THEOREM ResultsOnce == Spec => []CompletedOnce
<1>1. IndInv => CompletedOnce
  BY DEF IndInv, VersionInv
<1>2. QED
  BY <1>1, IndInvInvariant, PTL

\* When no outstanding key is scheduled again, a task leaves the database only
\* together with the results of its processing.
THEOREM TasksNotLost == ~ReuseKeys /\ Spec => NoTaskLost
<1> DEFINE Kept == \A k \in TaskKeys :
                     db[k] # 0 /\ db'[k] = 0 => <<k, db[k]>> \in completed'
<1> SUFFICES ASSUME ~ReuseKeys PROVE Spec => NoTaskLost
  OBVIOUS
<1>1. ASSUME IndInv, [Next]_vars PROVE [Kept]_vars
  <2>1. ASSUME NEW c \in Clients, CommitBatch(c) PROVE Kept
    BY <1>1, <2>1, ApplyKeeps DEF CommitBatch
  <2>2. CASE WriteResults
    <3>1. \A k \in TaskKeys : Apply(BatchOf(Worker))[k] = db[k] \/ Apply(BatchOf(Worker))[k] # 0
      BY <1>1, ApplyKeeps
    <3>2. ASSUME NEW k \in TaskKeys, db[k] # 0, k \notin done PROVE db'[k] # 0
      BY <2>2, <3>1, <3>2 DEF WriteResults
    <3>3. ASSUME NEW k \in done PROVE <<k, db[k]>> \in completed'
      BY <1>1, <2>2 DEF WriteResults, IndInv, ReuseInv, WeakTypes
    <3>4. QED
      BY <3>2, <3>3
  <2>3. CASE UNCHANGED db
    BY <2>3
  <2>4. QED
    BY <1>1, <2>1, <2>2, <2>3
    DEF Next, WorkerStep, vars, ScheduleWithWriteBatch, AbandonBatch, Start, Stop, Join, Crash,
        Vanish, BeginRound, ExitLoop, ScanPendingTasks, ProcessPendingTasks, FinishBatch, Sleep,
        Tick
<1>2. IndInv /\ [Next]_vars => [Kept]_vars
  BY <1>1
<1>3. QED
  BY <1>2, IndInvInvariant, PTL DEF Spec, NoTaskLost
=============================================================================
