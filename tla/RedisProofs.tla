---------------------------- MODULE RedisProofs ----------------------------
(***************************************************************************)
(* Two handlers of the redis pipeline.                                     *)
(* TransactionalRedisHandler: MULTI and EXEC are all or nothing, for any   *)
(* number of connections and commands.                                     *)
(* OrderedRedisMessageAdapter implements a connection that answers in      *)
(* order, and its CHECKs hold, for any number of requests.                 *)
(***************************************************************************)
EXTENDS TransactionalRedisHandler, OrderedRedisMessageAdapter, TLAPS
-----------------------------------------------------------------------------
(* TransactionalRedisHandler: the inductive invariant. *)

\* Ids of the queued commands.
Ids(c) == {queued[c][i].id : i \in DOMAIN queued[c]}

\* Ids that the first n commands of the queue put in the batch.
PutIds(c, n) == {queued[c][i].id : i \in {j \in 1..n : queued[c][j].kind = "put"}}

\* What the handler of connection c remembers between its steps.
HandlerOK(c) ==
  /\ ~inTransaction[c] => queued[c] = <<>> /\ executing[c] = -1
  /\ rejected[c] => errorEncountered[c]
  /\ executing[c] = -1 => batch[c] = {}
  /\ written[c] => executing[c] = Len(queued[c])
  /\ executing[c] >= 0 =>
       /\ ~errorEncountered[c]
       /\ batch[c] = PutIds(c, executing[c])
       /\ \A i \in 1..executing[c] : queued[c][i].kind # "fail"

HandlerInv == \A c \in Connections : HandlerOK(c)

\* A command belongs to one transaction.
OwnerInv ==
  /\ data \subseteq 1..received
  /\ \A c \in Connections : Ids(c) \subseteq 1..received
  /\ \A c, d \in Connections : c # d => Ids(c) \cap Ids(d) = {}
  /\ \A t \in finished :
       /\ t.puts \subseteq 1..received
       /\ \A c \in Connections : t.puts \cap Ids(c) = {}

\* It is not in RocksDB before the write of its EXEC, and with all the others
\* of its batch after it.
StoredInv ==
  \A c \in Connections :
    /\ ~written[c] => Ids(c) \cap data = {}
    /\ written[c] => QueuedIds(c, {"put", "fail"}) \subseteq data
-----------------------------------------------------------------------------
(* Types. *)

\* A transaction holds ids of its queue, and is a record of the right type.
LEMMA TransactionType ==
  ASSUME TypeOK, NEW c \in Connections, NEW o \in Outcomes
  PROVE  /\ Transaction(c, o) \in Transactions
         /\ Transaction(c, o).puts = QueuedIds(c, {"put", "fail"})
         /\ Transaction(c, o).outcome = o
         /\ Transaction(c, o).clean = ~rejected[c]
<1>1. \A i \in DOMAIN queued[c] : queued[c][i] \in Commands
  BY DEF TypeOK
<1>2. QueuedIds(c, {"put", "fail"}) \subseteq 1..MaxCommands
  BY <1>1 DEF QueuedIds, Commands
<1>3. QueuedIds(c, {"setmeta"}) \subseteq 1..MaxCommands
  BY <1>1 DEF QueuedIds, Commands
<1>4. (~rejected[c]) \in BOOLEAN
  BY DEF TypeOK
<1>. QED
  BY <1>2, <1>3, <1>4 DEF Transaction, Transactions

\* A handler that forgets its transaction is well typed.
LEMMA ResetType ==
  ASSUME TypeOK, NEW c \in Connections, ResetTransactionState(c),
         data' \subseteq 1..MaxCommands, meta' \subseteq 1..MaxCommands,
         finished' \subseteq Transactions, received' \in 0..MaxCommands
  PROVE  TypeOK'
<1> USE HandlerAssumption
<1>1. /\ inTransaction' \in [Connections -> BOOLEAN]
      /\ errorEncountered' \in [Connections -> BOOLEAN]
      /\ rejected' \in [Connections -> BOOLEAN]
      /\ written' \in [Connections -> BOOLEAN]
  BY Zenon DEF TypeOK, ResetTransactionState
<1>2. queued' \in [Connections -> Seq(Commands)]
  BY DEF TypeOK, ResetTransactionState
<1>3. executing' \in [Connections -> Int]
  BY DEF TypeOK, ResetTransactionState
<1>4. \A d \in Connections : executing'[d] \in -1..Len(queued'[d])
  BY DEF TypeOK, ResetTransactionState
<1>5. batch' \in [Connections -> SUBSET (1..MaxCommands)]
  BY DEF TypeOK, ResetTransactionState
<1>. QED
  BY <1>1, <1>2, <1>3, <1>4, <1>5, Zenon DEF TypeOK

\* Types are preserved by every step.
LEMMA TypeStep == TypeOK /\ [Next]_vars => TypeOK'
<1> SUFFICES ASSUME TypeOK, [Next]_vars PROVE TypeOK'
  OBVIOUS
<1> USE HandlerAssumption
<1>1. ASSUME NEW c \in Connections, Read(c) PROVE received' \in 1..MaxCommands
  BY <1>1 DEF Read, TypeOK
<1>2. ASSUME NEW c \in Connections, Multi(c) PROVE TypeOK'
  <2>1. inTransaction' \in [Connections -> BOOLEAN]
    BY <1>2, Zenon DEF Multi, TypeOK
  <2>. QED
    BY <1>1, <1>2, <2>1 DEF Multi, TypeOK, database
<1>3. ASSUME NEW c \in Connections, ProtocolError(c) \/ NestedMulti(c) PROVE TypeOK'
  <2>1. Read(c) /\ UNCHANGED <<handler, database, finished>>
    BY <1>3 DEF ProtocolError, NestedMulti
  <2>. QED
    BY <1>1, <2>1 DEF TypeOK, handler, database
<1>4. ASSUME NEW c \in Connections, Reject(c) PROVE TypeOK'
  <2>1. /\ errorEncountered' \in [Connections -> BOOLEAN]
        /\ rejected' \in [Connections -> BOOLEAN]
    BY <1>4, Zenon DEF Reject, TypeOK
  <2>. QED
    BY <1>1, <1>4, <2>1 DEF Reject, TypeOK, database
<1>5. ASSUME NEW c \in Connections, NEW k \in Kinds, Queue(c, k) PROVE TypeOK'
  <2>1. [id |-> received + 1, kind |-> k] \in Commands
    BY <1>1, <1>5 DEF Queue, Read, Commands, TypeOK
  <2>2. queued' \in [Connections -> Seq(Commands)]
    BY <1>5, <2>1 DEF Queue, TypeOK
  <2>3. \A d \in Connections : executing'[d] \in -1..Len(queued'[d])
    BY <1>5 DEF Queue, Read, Idle, TypeOK
  <2>. QED
    BY <1>1, <1>5, <2>2, <2>3 DEF Queue, TypeOK, database
<1>6. ASSUME NEW c \in Connections, NEW k \in Kinds, Immediate(c, k) PROVE TypeOK'
  <2>1. data' \subseteq 1..MaxCommands /\ meta' \subseteq 1..MaxCommands
    BY <1>6 DEF Immediate, Read, TypeOK
  <2>. QED
    BY <1>1, <1>6, <2>1 DEF Immediate, TypeOK, handler
<1>7. ASSUME NEW c \in Connections,
             ExecWithoutMulti(c) \/ ExecDiscard(c) \/ ExecFail(c) \/ ExecReply(c) \/ Reconnect(c)
      PROVE  TypeOK'
  <2>1. ResetTransactionState(c)
    BY <1>7 DEF ExecWithoutMulti, ExecDiscard, ExecFail, ExecReply, Reconnect
  <2>2. received' \in 0..MaxCommands
    <3>1. received' = received \/ Read(c)
      BY <1>7 DEF ExecWithoutMulti, ExecDiscard, ExecFail, ExecReply, Reconnect
    <3>. QED
      BY <1>1, <3>1 DEF TypeOK
  <2>3. finished' \subseteq Transactions
    <3>1. finished' = finished \/ \E o \in Outcomes : finished' = finished \cup {Transaction(c, o)}
      BY <1>7, Zenon
      DEF ExecWithoutMulti, ExecDiscard, ExecFail, ExecReply, Reconnect, Outcomes
    <3>. QED
      BY <3>1, TransactionType DEF TypeOK
  <2>4. data' \subseteq 1..MaxCommands /\ meta' \subseteq 1..MaxCommands
    BY <1>7, Zenon DEF ExecWithoutMulti, ExecDiscard, ExecFail, ExecReply, Reconnect, database, TypeOK
  <2>. QED
    BY <2>1, <2>2, <2>3, <2>4, ResetType
<1>8. ASSUME NEW c \in Connections, ExecBegin(c) PROVE TypeOK'
  <2>1. executing' \in [Connections -> Int]
    BY <1>8 DEF ExecBegin, TypeOK
  <2>2. \A d \in Connections : executing'[d] \in -1..Len(queued'[d])
    BY <1>8 DEF ExecBegin, TypeOK
  <2>. QED
    BY <1>1, <1>8, <2>1, <2>2 DEF ExecBegin, TypeOK, database
<1>9. ASSUME NEW c \in Connections, ExecOne(c) PROVE TypeOK'
  <2> DEFINE cmd == queued[c][executing[c] + 1]
  <2>1. cmd.id \in 1..MaxCommands
    <3>1. executing[c] + 1 \in 1..Len(queued[c]) /\ queued[c] \in Seq(Commands)
      BY <1>9 DEF ExecOne, TypeOK
    <3>2. cmd \in Commands
      BY <3>1
    <3>. QED
      BY <3>2 DEF Commands
  <2>2. /\ batch' = [batch EXCEPT ![c] = IF cmd.kind = "put" THEN @ \cup {cmd.id} ELSE @]
        /\ meta' = IF cmd.kind = "setmeta" THEN meta \cup {cmd.id} ELSE meta
    BY <1>9 DEF ExecOne
  <2> HIDE DEF cmd
  <2>5. (IF cmd.kind = "put" THEN batch[c] \cup {cmd.id} ELSE batch[c]) \subseteq 1..MaxCommands
    BY <2>1 DEF TypeOK
  <2>6. batch' \in [Connections -> SUBSET (1..MaxCommands)]
    BY <2>2, <2>5, Zenon DEF TypeOK
  <2>7. meta' \subseteq 1..MaxCommands
    BY <2>1, <2>2 DEF TypeOK
  <2>3. executing' \in [Connections -> Int]
    BY <1>9 DEF ExecOne, TypeOK
  <2>4. \A d \in Connections : executing'[d] \in -1..Len(queued'[d])
    BY <1>9 DEF ExecOne, TypeOK
  <2>. QED
    BY <1>9, <2>3, <2>4, <2>6, <2>7 DEF ExecOne, TypeOK
<1>10. CASE Crash
  <2>1. \A c \in Connections : Transaction(c, "crashed") \in Transactions
    BY TransactionType DEF Outcomes
  <2>2. finished' \subseteq Transactions
    BY <1>10, <2>1, Zenon DEF Crash, TypeOK
  <2>3. /\ inTransaction' \in [Connections -> BOOLEAN]
        /\ errorEncountered' \in [Connections -> BOOLEAN]
        /\ rejected' \in [Connections -> BOOLEAN]
        /\ written' \in [Connections -> BOOLEAN]
    BY <1>10, Zenon DEF Crash
  <2>4. /\ queued' \in [Connections -> Seq(Commands)]
        /\ executing' \in [Connections -> Int]
        /\ \A d \in Connections : executing'[d] \in -1..Len(queued'[d])
        /\ batch' \in [Connections -> SUBSET (1..MaxCommands)]
    BY <1>10 DEF Crash
  <2>. QED
    BY <1>10, <2>2, <2>3, <2>4, Zenon DEF Crash, TypeOK, database
<1>11. CASE UNCHANGED vars
  BY <1>11 DEF vars, handler, database, TypeOK
<1>12. ASSUME NEW c \in Connections, ExecWrite(c) PROVE TypeOK'
  <2>1. CASE ResetTransactionState(c) /\ data' = data
                /\ finished' = finished \cup {Transaction(c, "write error")}
    <3>1. finished' \subseteq Transactions
      <4>1. "write error" \in Outcomes
        BY DEF Outcomes
      <4>2. Transaction(c, "write error") \in Transactions
        BY <4>1, TransactionType
      <4>3. finished \subseteq Transactions
        BY DEF TypeOK
      <4>. QED
        BY <2>1, <4>2, <4>3, Zenon
    <3>2. /\ data' \subseteq 1..MaxCommands /\ meta' \subseteq 1..MaxCommands
          /\ received' \in 0..MaxCommands
      BY <1>12, <2>1 DEF ExecWrite, TypeOK
    <3>. QED
      BY <2>1, <3>1, <3>2, ResetType
  <2>2. CASE /\ data' = data \cup batch[c]
             /\ written' = [written EXCEPT ![c] = TRUE]
             /\ UNCHANGED <<inTransaction, errorEncountered, queued, rejected, executing, batch, finished>>
    <3>1. written' \in [Connections -> BOOLEAN]
      BY <2>2, Zenon DEF TypeOK
    <3>2. data' \subseteq 1..MaxCommands
      BY <2>2 DEF TypeOK
    <3>. QED
      BY <1>12, <2>2, <3>1, <3>2 DEF ExecWrite, TypeOK
  <2>. QED
    BY <1>12, <2>1, <2>2 DEF ExecWrite
<1>. QED
  BY <1>2, <1>3, <1>4, <1>5, <1>6, <1>7, <1>8, <1>9, <1>10, <1>11, <1>12 DEF Next

\* The types are those of TypeOK.
THEOREM TypeCorrect == Spec => []TypeOK
<1>1. Init => TypeOK
  BY HandlerAssumption DEF Init, TypeOK
<1>. QED
  BY <1>1, TypeStep, PTL DEF Spec
-----------------------------------------------------------------------------
(* The state of the handlers. *)

\* A handler none of whose state changes stays as it is.
LEMMA HandlerFrame ==
  ASSUME NEW d, HandlerOK(d),
         inTransaction'[d] = inTransaction[d], errorEncountered'[d] = errorEncountered[d],
         queued'[d] = queued[d], rejected'[d] = rejected[d], executing'[d] = executing[d],
         batch'[d] = batch[d], written'[d] = written[d]
  PROVE  HandlerOK(d)'
  BY DEF HandlerOK, PutIds

\* A handler without a transaction is in order.
LEMMA HandlerReset ==
  ASSUME NEW d, ~inTransaction'[d], ~errorEncountered'[d], queued'[d] = <<>>, ~rejected'[d],
         executing'[d] = -1, batch'[d] = {}, ~written'[d]
  PROVE  HandlerOK(d)'
  BY DEF HandlerOK

\* Every step leaves every handler in order.
LEMMA HandlerStep == TypeOK /\ HandlerInv /\ [Next]_vars => HandlerInv'
<1> SUFFICES ASSUME TypeOK, HandlerInv, [Next]_vars, NEW d \in Connections PROVE HandlerOK(d)'
  BY DEF HandlerInv
<1>0. HandlerOK(d)
  BY DEF HandlerInv
<1>1. CASE UNCHANGED handler
  BY <1>0, <1>1, HandlerFrame DEF handler
<1>2. ASSUME NEW c \in Connections, ResetTransactionState(c) PROVE HandlerOK(d)'
  <2>1. CASE d = c
    BY <1>2, <2>1, HandlerReset DEF ResetTransactionState, TypeOK
  <2>2. CASE d # c
    BY <1>0, <1>2, <2>2, HandlerFrame DEF ResetTransactionState, TypeOK
  <2>. QED
    BY <2>1, <2>2
<1>3. CASE Crash
  BY <1>3, HandlerReset DEF Crash
<1>4. ASSUME NEW c \in Connections, Multi(c) PROVE HandlerOK(d)'
  <2>1. CASE d = c
    BY <1>0, <1>4, <2>1 DEF Multi, Read, Idle, HandlerOK, TypeOK
  <2>2. CASE d # c
    BY <1>0, <1>4, <2>2, HandlerFrame DEF Multi, TypeOK
  <2>. QED
    BY <2>1, <2>2
<1>5. ASSUME NEW c \in Connections, Reject(c) PROVE HandlerOK(d)'
  <2>1. CASE d = c
    BY <1>0, <1>5, <2>1 DEF Reject, Read, Idle, HandlerOK, TypeOK
  <2>2. CASE d # c
    BY <1>0, <1>5, <2>2, HandlerFrame DEF Reject, TypeOK
  <2>. QED
    BY <2>1, <2>2
<1>6. ASSUME NEW c \in Connections, NEW k \in Kinds, Queue(c, k) PROVE HandlerOK(d)'
  <2>1. CASE d = c
    BY <1>0, <1>6, <2>1 DEF Queue, Read, Idle, HandlerOK, TypeOK
  <2>2. CASE d # c
    BY <1>0, <1>6, <2>2, HandlerFrame DEF Queue, TypeOK
  <2>. QED
    BY <2>1, <2>2
<1>7. ASSUME NEW c \in Connections, ExecBegin(c) PROVE HandlerOK(d)'
  <2>1. CASE d = c
    BY <1>0, <1>7, <2>1 DEF ExecBegin, Read, Idle, HandlerOK, PutIds, TypeOK
  <2>2. CASE d # c
    BY <1>0, <1>7, <2>2, HandlerFrame DEF ExecBegin, TypeOK
  <2>. QED
    BY <2>1, <2>2
<1>8. ASSUME NEW c \in Connections, ExecOne(c) PROVE HandlerOK(d)'
  <2>1. CASE d = c
    <3>1. /\ executing[c] \in Nat /\ executing'[c] = executing[c] + 1
          /\ UNCHANGED <<inTransaction, errorEncountered, queued, rejected>>
          /\ queued[c][executing[c] + 1].kind # "fail"
      BY <1>8 DEF ExecOne, TypeOK
    <3>2. batch'[c] = IF queued[c][executing[c] + 1].kind = "put"
                        THEN batch[c] \cup {queued[c][executing[c] + 1].id}
                        ELSE batch[c]
      BY <1>8 DEF ExecOne, TypeOK
    <3>3. PutIds(c, executing[c] + 1) =
            IF queued[c][executing[c] + 1].kind = "put"
              THEN PutIds(c, executing[c]) \cup {queued[c][executing[c] + 1].id}
              ELSE PutIds(c, executing[c])
      BY <3>1 DEF PutIds
    <3>4. batch'[c] = PutIds(c, executing[c] + 1)
      <4>1. batch[c] = PutIds(c, executing[c])
        BY <1>0, <2>1, <3>1 DEF HandlerOK
      <4>. QED
        BY <3>2, <3>3, <4>1, Zenon
    <3>5. batch'[c] = PutIds(c, executing[c])'
      BY <3>1, <3>4 DEF PutIds
    <3>6. \A i \in 1..executing'[c] : queued'[c][i].kind # "fail"
      BY <1>0, <2>1, <3>1 DEF HandlerOK
    <3>7. inTransaction[c] /\ ~errorEncountered[c] /\ executing'[c] >= 0
      BY <1>0, <2>1, <3>1 DEF HandlerOK
    <3>8. ~written'[c]
      BY <1>0, <1>8, <2>1 DEF ExecOne, HandlerOK, TypeOK
    <3>9. inTransaction'[c] /\ ~errorEncountered'[c] /\ ~rejected'[c] /\ executing'[c] # -1
      <4>1. ~rejected[c]
        BY <1>0, <2>1, <3>7 DEF HandlerOK
      <4>. QED
        BY <3>1, <3>7, <4>1
    <3>. QED
      BY <2>1, <3>5, <3>6, <3>8, <3>9, Zenon DEF HandlerOK
  <2>2. CASE d # c
    BY <1>0, <1>8, <2>2, HandlerFrame DEF ExecOne, TypeOK
  <2>. QED
    BY <2>1, <2>2
<1>9. CASE UNCHANGED vars
  BY <1>1, <1>9 DEF vars, handler
<1>10. ASSUME NEW c \in Connections, ExecWrite(c) PROVE HandlerOK(d)'
  <2>1. CASE ResetTransactionState(c)
    BY <1>2, <2>1
  <2>2. CASE /\ written' = [written EXCEPT ![c] = TRUE]
             /\ UNCHANGED <<inTransaction, errorEncountered, queued, rejected, executing, batch>>
    <3>1. CASE d = c
      <4>1. executing[c] = Len(queued[c]) /\ executing'[c] = Len(queued'[c])
        BY <1>10, <2>2 DEF ExecWrite
      <4>2. PutIds(d, executing[d])' = PutIds(d, executing[d])
        BY <2>2 DEF PutIds
      <4>. QED
        BY <1>0, <2>2, <3>1, <4>1, <4>2 DEF HandlerOK
    <3>2. CASE d # c
      BY <1>0, <2>2, <3>2, HandlerFrame DEF TypeOK
    <3>. QED
      BY <3>1, <3>2
  <2>. QED
    BY <1>10, <2>1, <2>2 DEF ExecWrite
<1>. QED
  BY <1>1, <1>2, <1>3, <1>4, <1>5, <1>6, <1>7, <1>8, <1>9, <1>10
  DEF Next, ProtocolError, NestedMulti, Immediate, ExecWithoutMulti, ExecDiscard, ExecFail, ExecReply,
      Reconnect

\* Outside a transaction nothing is queued, so no command of an earlier
\* transaction runs in a later one: every way out of a transaction, the errors
\* included, resets the handler.
THEOREM NoLeftOvers == Spec => []NothingLeftOver
<1>1. Init => HandlerInv
  BY HandlerReset DEF Init, HandlerInv, HandlerOK
<1>2. HandlerInv => NothingLeftOver
  BY DEF HandlerInv, HandlerOK, NothingLeftOver
<1>. QED
  BY <1>1, <1>2, TypeCorrect, HandlerStep, PTL DEF Spec
-----------------------------------------------------------------------------
(* Who owns a command. *)

\* What a transaction put in its batch was queued by it.
LEMMA PutsQueued ==
  ASSUME NEW c, NEW K PROVE QueuedIds(c, K) \subseteq Ids(c)
  BY DEF QueuedIds, Ids

\* A finished transaction holds commands of its connection.
LEMMA TransactionPuts ==
  ASSUME TypeOK, NEW c \in Connections, NEW o \in Outcomes
  PROVE  Transaction(c, o).puts \subseteq Ids(c)
<1>1. Transaction(c, o).puts = QueuedIds(c, {"put", "fail"})
  BY TransactionType
<1>. QED
  BY <1>1, PutsQueued

\* The outcomes of a transaction by name.
LEMMA OutcomeNames ==
  "committed" \in Outcomes /\ "crashed" \in Outcomes /\ "failed" \in Outcomes
    /\ "write error" \in Outcomes /\ "discarded" \in Outcomes
  BY DEF Outcomes

\* A step that queues nothing keeps the commands where they are, as long as it
\* writes what was received, and finishes transactions that let go of theirs.
LEMMA OwnerFrame ==
  ASSUME OwnerInv, received \in Nat, received' \in Nat, received <= received',
         data' \subseteq 1..received',
         \A c \in Connections : Ids(c)' \subseteq Ids(c),
         \A t \in finished' \ finished :
            /\ t.puts \subseteq 1..received
            /\ \A c \in Connections : t.puts \cap Ids(c)' = {}
  PROVE  OwnerInv'
<1>1. 1..received \subseteq 1..received'
  OBVIOUS
<1>2. \A t \in finished' :
        /\ t.puts \subseteq 1..received'
        /\ \A c \in Connections : t.puts \cap Ids(c)' = {}
  <2> TAKE t \in finished'
  <2>1. CASE t \in finished
    BY <1>1, <2>1, Zenon DEF OwnerInv
  <2>2. CASE t \notin finished
    BY <1>1, <2>2, Zenon
  <2>. QED
    BY <2>1, <2>2
<1>3. \A c \in Connections : Ids(c)' \subseteq 1..received'
  BY <1>1, Zenon DEF OwnerInv
<1>4. \A c, d \in Connections : c # d => Ids(c)' \cap Ids(d)' = {}
  BY Zenon DEF OwnerInv
<1>. QED
  BY <1>2, <1>3, <1>4, Zenon DEF OwnerInv

\* The handler that resets its state lets go of its commands, and of no others.
LEMMA ResetIds ==
  ASSUME TypeOK, NEW c \in Connections, ResetTransactionState(c)
  PROVE  /\ Ids(c)' = {} /\ ~written'[c]
         /\ \A d \in Connections : d # c => /\ Ids(d)' = Ids(d) /\ written'[d] = written[d]
                                            /\ \A K : QueuedIds(d, K)' = QueuedIds(d, K)
<1>1. /\ queued'[c] = <<>> /\ ~written'[c]
      /\ \A d \in Connections : d # c => queued'[d] = queued[d] /\ written'[d] = written[d]
  BY DEF ResetTransactionState, TypeOK
<1>. QED
  BY <1>1 DEF Ids, QueuedIds

\* What EXEC is about to write is all that the transaction put in its batch.
LEMMA BatchIsPuts ==
  ASSUME TypeOK, HandlerInv, NEW c \in Connections, executing[c] = Len(queued[c])
  PROVE  /\ batch[c] = QueuedIds(c, {"put", "fail"})
         /\ ~rejected[c]
<1>0. queued[c] \in Seq(Commands) /\ Len(queued[c]) \in Nat /\ DOMAIN queued[c] = 1..Len(queued[c])
  BY DEF TypeOK
<1>1. /\ HandlerOK(c) /\ executing[c] >= 0
  BY <1>0 DEF HandlerInv
<1>2. /\ batch[c] = PutIds(c, Len(queued[c]))
      /\ \A i \in 1..Len(queued[c]) : queued[c][i].kind # "fail"
      /\ ~rejected[c]
  BY <1>1 DEF HandlerOK
<1>3. {j \in 1..Len(queued[c]) : queued[c][j].kind = "put"} =
        {j \in DOMAIN queued[c] : queued[c][j].kind \in {"put", "fail"}}
  BY <1>0, <1>2
<1>. QED
  BY <1>2, <1>3, Zenon DEF PutIds, QueuedIds

\* A transaction that ends lets go of its commands.
LEMMA OwnerEnd ==
  ASSUME TypeOK, OwnerInv, NEW c \in Connections, ResetTransactionState(c),
         received' \in Nat, received <= received', data' = data,
         finished' = finished \/ \E o \in Outcomes : finished' = finished \cup {Transaction(c, o)}
  PROVE  OwnerInv'
<1>1. \A t \in finished' \ finished : t.puts \subseteq Ids(c)
  BY TransactionPuts
<1>2. Ids(c)' = {} /\ \A d \in Connections : d # c => Ids(d)' = Ids(d)
  BY ResetIds
<1>3. \A d \in Connections : Ids(d)' \subseteq Ids(d) /\ Ids(c) \cap Ids(d)' = {}
  BY <1>2, Zenon DEF OwnerInv
<1>4. Ids(c) \subseteq 1..received
  BY DEF OwnerInv
<1>5. received \in Nat
  BY DEF TypeOK
<1>6. data' \subseteq 1..received'
  BY <1>5 DEF OwnerInv
<1>. QED
  BY <1>1, <1>3, <1>4, <1>5, <1>6, OwnerFrame

\* The same for what is stored: the other handlers keep their commands.
LEMMA StoredEnd ==
  ASSUME TypeOK, StoredInv, NEW c \in Connections, ResetTransactionState(c), data' = data
  PROVE  StoredInv'
  BY ResetIds, Zenon DEF StoredInv

\* The steps that end a transaction without a write: EXEC with an answer, and
\* the end of the connection.
LEMMA EndSteps ==
  ASSUME TypeOK, NEW c \in Connections,
         \/ ExecWithoutMulti(c) \/ ExecDiscard(c) \/ ExecFail(c) \/ ExecReply(c) \/ Reconnect(c)
         \/ ExecWrite(c) /\ ResetTransactionState(c)
  PROVE  /\ ResetTransactionState(c) /\ data' = data
         /\ received' \in Nat /\ received <= received'
         /\ finished' = finished \/ \E o \in Outcomes : finished' = finished \cup {Transaction(c, o)}
<1>1. CASE ExecWrite(c) /\ ResetTransactionState(c)
  <2>1. ~written'[c]
    BY <1>1, ResetIds
  <2>2. [written EXCEPT ![c] = TRUE][c] = TRUE
    BY DEF TypeOK
  <2>3. data' = data /\ finished' = finished \cup {Transaction(c, "write error")}
    BY <1>1, <2>1, <2>2 DEF ExecWrite
  <2>4. received' \in Nat /\ received <= received'
    <3>1. received' = received
      BY <1>1 DEF ExecWrite
    <3>2. received \in Nat
      BY DEF TypeOK
    <3>. QED
      BY ONLY <3>1, <3>2
  <2>. QED
    BY <1>1, <2>3, <2>4, OutcomeNames, Zenon
<1>2. CASE ~(ExecWrite(c) /\ ResetTransactionState(c))
  <2>1. ResetTransactionState(c) /\ data' = data /\ (Read(c) \/ received' = received)
    BY <1>2, Zenon DEF ExecWithoutMulti, ExecDiscard, ExecFail, ExecReply, Reconnect, database
  <2>2. received' \in Nat /\ received <= received'
    BY <2>1 DEF Read, TypeOK
  <2>3. finished' = finished \/ \E o \in Outcomes : finished' = finished \cup {Transaction(c, o)}
    BY <1>2, OutcomeNames, Zenon DEF ExecWithoutMulti, ExecDiscard, ExecFail, ExecReply, Reconnect
  <2>. QED
    BY <2>1, <2>2, <2>3, Zenon
<1>. QED
  BY <1>1, <1>2

\* The write of EXEC: what every transaction owns stays as it is.
LEMMA WriteOwner ==
  ASSUME TypeOK, HandlerInv, NEW c \in Connections, ExecWrite(c), ~ResetTransactionState(c)
  PROVE  /\ data' = data \cup batch[c] /\ batch[c] = QueuedIds(c, {"put", "fail"})
         /\ batch[c] \subseteq Ids(c) /\ ~rejected[c]
         /\ finished' = finished /\ received' = received
         /\ \A d : Ids(d)' = Ids(d) /\ \A K : QueuedIds(d, K)' = QueuedIds(d, K)
         /\ written'[c] /\ \A d \in Connections : d # c => written'[d] = written[d]
<1>1. /\ data' = data \cup batch[c] /\ written' = [written EXCEPT ![c] = TRUE]
      /\ executing[c] = Len(queued[c])
      /\ finished' = finished /\ received' = received /\ queued' = queued
  BY DEF ExecWrite
<1>2. batch[c] = QueuedIds(c, {"put", "fail"}) /\ ~rejected[c]
  BY <1>1, BatchIsPuts
<1>3. batch[c] \subseteq Ids(c)
  BY <1>2, PutsQueued
<1>4. \A d : Ids(d)' = Ids(d) /\ \A K : QueuedIds(d, K)' = QueuedIds(d, K)
  BY <1>1 DEF Ids, QueuedIds
<1>5. written'[c] /\ \A d \in Connections : d # c => written'[d] = written[d]
  BY <1>1 DEF TypeOK
<1>. QED
  BY <1>1, <1>2, <1>3, <1>4, <1>5

\* The command that is queued is new.
LEMMA QueueOwner ==
  ASSUME TypeOK, OwnerInv, NEW c \in Connections, NEW k \in Kinds, Queue(c, k)
  PROVE  /\ received' = received + 1 /\ data' = data /\ finished' = finished /\ written' = written
         /\ Ids(c)' = Ids(c) \cup {received + 1}
         /\ \A d \in Connections : d # c => /\ Ids(d)' = Ids(d)
                                            /\ \A K : QueuedIds(d, K)' = QueuedIds(d, K)
         /\ received + 1 \notin data /\ \A t \in finished : received + 1 \notin t.puts
         /\ \A d \in Connections : received + 1 \notin Ids(d)
<1>1. /\ received' = received + 1 /\ data' = data /\ finished' = finished /\ written' = written
      /\ queued' = [queued EXCEPT ![c] = Append(@, [id |-> received + 1, kind |-> k])]
  BY DEF Queue, Read, database
<1>2. Ids(c)' = Ids(c) \cup {received + 1}
  <2>1. queued'[c] = Append(queued[c], [id |-> received + 1, kind |-> k])
        /\ queued[c] \in Seq(Commands)
    BY <1>1 DEF TypeOK
  <2>. QED
    BY <2>1 DEF Ids
<1>3. \A d \in Connections : d # c => queued'[d] = queued[d]
  BY <1>1 DEF TypeOK
<1>4. \A d \in Connections : d # c => Ids(d)' = Ids(d) /\ \A K : QueuedIds(d, K)' = QueuedIds(d, K)
  BY <1>3 DEF Ids, QueuedIds
<1>5. received + 1 \notin 1..received
  BY DEF TypeOK
<1>. QED
  BY <1>1, <1>2, <1>4, <1>5, Zenon DEF OwnerInv

\* The steps of a handler between which its queue stays as it is.
LEMMA QuietSteps ==
  ASSUME TypeOK, NEW c \in Connections,
         \/ ProtocolError(c) \/ NestedMulti(c) \/ Multi(c) \/ Reject(c) \/ ExecBegin(c) \/ ExecOne(c)
  PROVE  /\ queued' = queued /\ data' = data /\ finished' = finished /\ written' = written
         /\ received' \in Nat /\ received <= received'
<1>1. received \in Nat
  BY DEF TypeOK
<1>2. Read(c) \/ received' = received
  BY DEF ProtocolError, NestedMulti, Multi, Reject, ExecBegin, ExecOne
<1>3. queued' = queued /\ data' = data /\ finished' = finished /\ written' = written
  BY DEF ProtocolError, NestedMulti, Multi, Reject, ExecBegin, ExecOne, handler, database
<1>. QED
  BY <1>1, <1>2, <1>3 DEF Read

\* Every step leaves a command with the transaction that queued it.
LEMMA OwnerStep == TypeOK /\ HandlerInv /\ OwnerInv /\ [Next]_vars => OwnerInv'
<1> SUFFICES ASSUME TypeOK, HandlerInv, OwnerInv, [Next]_vars PROVE OwnerInv'
  OBVIOUS
<1>0. received \in Nat
  BY DEF TypeOK
<1>1. ASSUME queued' = queued, data' \subseteq 1..received', finished' = finished,
             received' \in Nat, received <= received'
      PROVE  OwnerInv'
  <2>1. \A c : Ids(c)' = Ids(c)
    BY <1>1 DEF Ids
  <2>. QED
    BY <1>0, <1>1, <2>1, OwnerFrame
<1>2. ASSUME queued' = queued, data' = data, finished' = finished,
             received' \in Nat, received <= received'
      PROVE  OwnerInv'
  <2>1. data' \subseteq 1..received'
    BY <1>0, <1>2 DEF OwnerInv
  <2>. QED
    BY <1>1, <1>2, <2>1
<1>3. ASSUME NEW c \in Connections,
             \/ ProtocolError(c) \/ NestedMulti(c) \/ Multi(c) \/ Reject(c) \/ ExecBegin(c) \/ ExecOne(c)
      PROVE  OwnerInv'
  BY <1>2, <1>3, QuietSteps
<1>4. ASSUME NEW c \in Connections,
             \/ ExecWithoutMulti(c) \/ ExecDiscard(c) \/ ExecFail(c) \/ ExecReply(c) \/ Reconnect(c)
             \/ ExecWrite(c) /\ ResetTransactionState(c)
      PROVE  OwnerInv'
  BY <1>4, EndSteps, OwnerEnd
<1>5. ASSUME NEW c \in Connections, ExecWrite(c), ~ResetTransactionState(c) PROVE OwnerInv'
  <2>1. /\ data' = data \cup batch[c] /\ batch[c] \subseteq Ids(c)
        /\ finished' = finished /\ received' = received
        /\ \A d : Ids(d)' = Ids(d)
    BY <1>5, WriteOwner
  <2>2. data' \subseteq 1..received'
    BY <2>1 DEF OwnerInv
  <2>. QED
    BY <1>0, <2>1, <2>2, OwnerFrame
<1>6. ASSUME NEW c \in Connections, NEW k \in Kinds, Queue(c, k) PROVE OwnerInv'
  <2>1. /\ received' = received + 1 /\ data' = data /\ finished' = finished
        /\ Ids(c)' = Ids(c) \cup {received + 1}
        /\ \A d \in Connections : d # c => Ids(d)' = Ids(d)
        /\ \A t \in finished : received + 1 \notin t.puts
        /\ \A d \in Connections : received + 1 \notin Ids(d)
    BY <1>6, QueueOwner
  <2>2. 1..received \subseteq 1..received' /\ received + 1 \in 1..received'
    BY <1>0, <2>1
  <2>3. \A d \in Connections : Ids(d)' \subseteq 1..received'
    BY <2>1, <2>2 DEF OwnerInv
  <2>4. ASSUME NEW d \in Connections, NEW e \in Connections, d # e
        PROVE  Ids(d)' \cap Ids(e)' = {}
    BY <2>1, <2>4 DEF OwnerInv
  <2>5. ASSUME NEW t \in finished', NEW d \in Connections PROVE t.puts \cap Ids(d)' = {}
    BY <2>1 DEF OwnerInv
  <2>6. \A t \in finished' : t.puts \subseteq 1..received'
    BY <2>1, <2>2, Zenon DEF OwnerInv
  <2>7. data' \subseteq 1..received'
    BY <2>1, <2>2, Zenon DEF OwnerInv
  <2>. QED
    BY <2>3, <2>4, <2>5, <2>6, <2>7, Zenon DEF OwnerInv
<1>7. ASSUME NEW c \in Connections, NEW k \in Kinds, Immediate(c, k) PROVE OwnerInv'
  <2>1. /\ received' = received + 1 /\ finished' = finished /\ queued' = queued
        /\ data' \subseteq data \cup {received + 1}
    BY <1>7 DEF Immediate, Read, handler
  <2>2. data' \subseteq 1..received'
    BY <1>0, <2>1 DEF OwnerInv
  <2>3. received' \in Nat /\ received <= received'
    BY <1>0, <2>1
  <2>. QED
    BY <1>1, <2>1, <2>2, <2>3
<1>8. CASE Crash
  <2>1. \A c \in Connections : Ids(c)' = {}
    BY <1>8 DEF Crash, Ids
  <2>2. \A t \in finished' \ finished : t.puts \subseteq 1..received
    <3>1. \A c \in Connections : Transaction(c, "crashed").puts \subseteq 1..received
      BY TransactionPuts, OutcomeNames DEF OwnerInv
    <3>. QED
      BY <1>8, <3>1, Zenon DEF Crash
  <2>3. received' = received /\ data' \subseteq 1..received'
    BY <1>8 DEF Crash, database, OwnerInv
  <2>. QED
    BY <1>0, <2>1, <2>2, <2>3, OwnerFrame
<1>9. CASE UNCHANGED vars
  BY <1>0, <1>2, <1>9 DEF vars, handler, database
<1>. QED
  BY <1>3, <1>4, <1>5, <1>6, <1>7, <1>8, <1>9 DEF Next

\* Every step leaves a transaction in RocksDB as a whole, or not at all.
LEMMA StoredStep ==
  TypeOK /\ HandlerInv /\ OwnerInv /\ StoredInv /\ [Next]_vars => StoredInv'
<1> SUFFICES ASSUME TypeOK, HandlerInv, OwnerInv, StoredInv, [Next]_vars PROVE StoredInv'
  OBVIOUS
<1>1. ASSUME queued' = queued, data' = data, written' = written PROVE StoredInv'
  BY <1>1 DEF StoredInv, Ids, QueuedIds
<1>2. ASSUME NEW c \in Connections,
             \/ ProtocolError(c) \/ NestedMulti(c) \/ Multi(c) \/ Reject(c) \/ ExecBegin(c) \/ ExecOne(c)
      PROVE  StoredInv'
  BY <1>1, <1>2, QuietSteps
<1>3. ASSUME NEW c \in Connections,
             \/ ExecWithoutMulti(c) \/ ExecDiscard(c) \/ ExecFail(c) \/ ExecReply(c) \/ Reconnect(c)
             \/ ExecWrite(c) /\ ResetTransactionState(c)
      PROVE  StoredInv'
  BY <1>3, EndSteps, StoredEnd
<1>4. ASSUME NEW c \in Connections, ExecWrite(c), ~ResetTransactionState(c) PROVE StoredInv'
  <2>1. /\ data' = data \cup batch[c] /\ batch[c] = QueuedIds(c, {"put", "fail"})
        /\ batch[c] \subseteq Ids(c)
        /\ \A d : Ids(d)' = Ids(d) /\ \A K : QueuedIds(d, K)' = QueuedIds(d, K)
        /\ written'[c] /\ \A d \in Connections : d # c => written'[d] = written[d]
    BY <1>4, WriteOwner
  <2> SUFFICES ASSUME NEW d \in Connections
               PROVE  /\ ~written'[d] => Ids(d)' \cap data' = {}
                      /\ written'[d] => QueuedIds(d, {"put", "fail"})' \subseteq data'
    BY DEF StoredInv
  <2>2. CASE d = c
    BY <2>1, <2>2, Zenon
  <2>3. CASE d # c
    <3>1. Ids(d) \cap Ids(c) = {}
      BY <2>3 DEF OwnerInv
    <3>. QED
      BY <2>1, <2>3, <3>1, Zenon DEF StoredInv
  <2>. QED
    BY <2>2, <2>3
<1>5. ASSUME NEW c \in Connections, NEW k \in Kinds, Queue(c, k) PROVE StoredInv'
  <2>1. /\ data' = data /\ written' = written
        /\ Ids(c)' = Ids(c) \cup {received + 1}
        /\ \A d \in Connections : d # c => /\ Ids(d)' = Ids(d)
                                           /\ \A K : QueuedIds(d, K)' = QueuedIds(d, K)
        /\ received + 1 \notin data
    BY <1>5, QueueOwner
  <2>2. ~written[c]
    BY <1>5 DEF Queue, Read, Idle, HandlerInv, HandlerOK, TypeOK
  <2> SUFFICES ASSUME NEW d \in Connections
               PROVE  /\ ~written'[d] => Ids(d)' \cap data' = {}
                      /\ written'[d] => QueuedIds(d, {"put", "fail"})' \subseteq data'
    BY DEF StoredInv
  <2>3. CASE d = c
    BY <2>1, <2>2, <2>3 DEF StoredInv
  <2>4. CASE d # c
    BY <2>1, <2>4, Zenon DEF StoredInv
  <2>. QED
    BY <2>3, <2>4
<1>6. ASSUME NEW c \in Connections, NEW k \in Kinds, Immediate(c, k) PROVE StoredInv'
  <2>1. /\ queued' = queued /\ written' = written
        /\ data \subseteq data' /\ data' \subseteq data \cup {received + 1}
    BY <1>6 DEF Immediate, handler
  <2>2. \A d : Ids(d)' = Ids(d) /\ \A K : QueuedIds(d, K)' = QueuedIds(d, K)
    BY <2>1 DEF Ids, QueuedIds
  <2>3. \A d \in Connections : received + 1 \notin Ids(d)
    <3>1. received + 1 \notin 1..received
      BY DEF TypeOK
    <3>. QED
      BY <3>1, Zenon DEF OwnerInv
  <2>. QED
    BY <2>1, <2>2, <2>3, Zenon DEF StoredInv
<1>7. CASE Crash
  <2>1. \A c \in Connections : queued'[c] = <<>> /\ ~written'[c]
    BY <1>7 DEF Crash
  <2>2. \A c \in Connections : Ids(c)' = {}
    BY <2>1 DEF Ids
  <2>. QED
    BY <2>1, <2>2, Zenon DEF StoredInv
<1>8. CASE UNCHANGED vars
  BY <1>1, <1>8 DEF vars, handler, database
<1>. QED
  BY <1>2, <1>3, <1>4, <1>5, <1>6, <1>7, <1>8 DEF Next
-----------------------------------------------------------------------------
(* All or nothing. *)

\* What the answer to a transaction says of its updates.
Settled(t, D) ==
  /\ t.puts \subseteq D \/ t.puts \cap D = {}
  /\ t.outcome = "committed" => t.puts \subseteq D
  /\ t.outcome \in {"discarded", "failed", "write error"} => t.puts \cap D = {}
  /\ ~t.clean => t.outcome # "committed" /\ t.puts \cap D = {}

SettledInv == \A t \in finished : Settled(t, data)

\* The two properties of finished transactions in one.
LEMMA SettledIsBoth == AllOrNothing /\ RejectedNotCommitted <=> SettledInv
  BY DEF AllOrNothing, RejectedNotCommitted, SettledInv, Settled

\* A step that writes nothing that a finished transaction owns, and finishes
\* transactions as their outcomes say, keeps them so.
LEMMA SettledFrame ==
  ASSUME \A t \in finished : Settled(t, data), NEW N, data' = data \cup N,
         \A t \in finished : t.puts \cap N = {},
         \A t \in finished' \ finished : Settled(t, data')
  PROVE  \A t \in finished' : Settled(t, data')
<1> SUFFICES ASSUME NEW t \in finished, t \in finished' PROVE Settled(t, data')
  OBVIOUS
<1>1. Settled(t, data) /\ t.puts \cap N = {}
  OBVIOUS
<1>. QED
  BY <1>1 DEF Settled

\* A transaction that ends without an answer, or with an error before its write.
LEMMA EndUnwritten ==
  ASSUME TypeOK, HandlerInv, StoredInv, NEW c \in Connections, NEW o \in Outcomes,
         ~written[c], o # "committed"
  PROVE  Settled(Transaction(c, o), data)
<1>1. /\ Transaction(c, o).outcome = o
      /\ Transaction(c, o).puts \subseteq Ids(c)
  BY TransactionType, TransactionPuts
<1>2. Ids(c) \cap data = {}
  BY DEF StoredInv
<1>3. Transaction(c, o).puts \cap data = {}
  BY <1>1, <1>2
<1>. QED
  BY <1>1, <1>3 DEF Settled

\* A transaction that ends after its write, with its results or with a crash.
LEMMA EndWritten ==
  ASSUME TypeOK, HandlerInv, StoredInv, NEW c \in Connections, NEW o \in {"committed", "crashed"},
         written[c]
  PROVE  Settled(Transaction(c, o), data)
<1>1. o \in Outcomes
  BY OutcomeNames
<1>2. /\ Transaction(c, o).outcome = o
      /\ Transaction(c, o).puts = QueuedIds(c, {"put", "fail"})
      /\ Transaction(c, o).clean = ~rejected[c]
  BY <1>1, TransactionType
<1>3. executing[c] = Len(queued[c])
  BY DEF HandlerInv, HandlerOK
<1>4. ~rejected[c]
  BY <1>3, BatchIsPuts
<1>5. Transaction(c, o).puts \subseteq data
  BY <1>2 DEF StoredInv
<1>. QED
  BY <1>2, <1>4, <1>5 DEF Settled

\* Every step keeps the finished transactions settled.
LEMMA SettledStep ==
  TypeOK /\ HandlerInv /\ OwnerInv /\ StoredInv /\ SettledInv /\ [Next]_vars => SettledInv'
<1> SUFFICES ASSUME TypeOK, HandlerInv, OwnerInv, StoredInv, \A t \in finished : Settled(t, data),
                    [Next]_vars
             PROVE  \A t \in finished' : Settled(t, data')
  BY DEF SettledInv, Settled
<1>1. CASE data' = data /\ finished' = finished
  BY <1>1
<1>2. ASSUME data' = data, NEW t, finished' = finished \cup {t}, Settled(t, data)
      PROVE  \A u \in finished' : Settled(u, data')
  BY <1>2
<1>3. \A c \in Connections : executing[c] # Len(queued[c]) \/ Idle(c) => ~written[c]
  BY DEF HandlerInv, HandlerOK, Idle, TypeOK
<1>4. CASE Crash
  <2>1. \A c \in Connections : Settled(Transaction(c, "crashed"), data)
    <3> TAKE c \in Connections
    <3>1. CASE written[c]
      BY <3>1, EndWritten
    <3>2. CASE ~written[c]
      BY <3>2, EndUnwritten, OutcomeNames
    <3>. QED
      BY <3>1, <3>2
  <2>2. \A t \in finished' : t \in finished \/ \E c \in Connections : t = Transaction(c, "crashed")
    BY <1>4, Zenon DEF Crash
  <2>3. data' = data
    BY <1>4 DEF Crash, database
  <2>. QED
    BY <2>1, <2>2, <2>3, Zenon
<1>5. ASSUME NEW c \in Connections, NEW k \in Kinds, Immediate(c, k)
      PROVE  \A t \in finished' : Settled(t, data')
  <2>1. finished' = finished /\ (data' = data \/ data' = data \cup {received + 1})
    BY <1>5 DEF Immediate
  <2>2. \A t \in finished : t.puts \cap {received + 1} = {}
    <3>1. received + 1 \notin 1..received
      BY DEF TypeOK
    <3>. QED
      BY <3>1, Zenon DEF OwnerInv
  <2>3. CASE data' = data \cup {received + 1}
    <3>1. finished' \ finished = {}
      BY <2>1
    <3>. QED
      BY <2>2, <2>3, <3>1, SettledFrame, Zenon
  <2>. QED
    BY <1>1, <2>1, <2>3
<1>6. ASSUME NEW c \in Connections, ExecWrite(c), ~ResetTransactionState(c)
      PROVE  \A t \in finished' : Settled(t, data')
  <2>1. data' = data \cup batch[c] /\ batch[c] \subseteq Ids(c) /\ finished' = finished
    BY <1>6, WriteOwner
  <2>2. \A t \in finished : t.puts \cap batch[c] = {}
    BY <2>1, Zenon DEF OwnerInv
  <2>3. finished' \ finished = {}
    BY <2>1
  <2>. QED
    BY <2>1, <2>2, <2>3, SettledFrame, Zenon
<1>7. ASSUME NEW c \in Connections, ExecWrite(c), ResetTransactionState(c)
      PROVE  \A t \in finished' : Settled(t, data')
  <2>1. ~written[c] /\ data' = data
    BY <1>7, EndSteps DEF ExecWrite
  <2>2. finished' = finished \/ finished' = finished \cup {Transaction(c, "write error")}
    BY <1>7 DEF ExecWrite
  <2>3. Settled(Transaction(c, "write error"), data)
    BY <2>1, EndUnwritten, OutcomeNames
  <2>. QED
    BY <1>1, <1>2, <2>1, <2>2, <2>3
<1>8. ASSUME NEW c \in Connections, ExecDiscard(c) PROVE \A t \in finished' : Settled(t, data')
  <2>1. ~written[c] /\ data' = data
    BY <1>3, <1>8 DEF ExecDiscard, Read, database
  <2>2. Settled(Transaction(c, "discarded"), data)
    BY <2>1, EndUnwritten, OutcomeNames
  <2>. QED
    BY <1>2, <1>8, <2>1, <2>2 DEF ExecDiscard
<1>9. ASSUME NEW c \in Connections, ExecFail(c) PROVE \A t \in finished' : Settled(t, data')
  <2>1. ~written[c] /\ data' = data
    <3>1. executing[c] \in 0..(Len(queued[c]) - 1) /\ data' = data
      BY <1>9 DEF ExecFail, database
    <3>2. Len(queued[c]) \in Nat
      BY DEF TypeOK
    <3>. QED
      BY <1>3, <3>1, <3>2
  <2>2. Settled(Transaction(c, "failed"), data)
    BY <2>1, EndUnwritten, OutcomeNames
  <2>. QED
    BY <1>2, <1>9, <2>1, <2>2 DEF ExecFail
<1>10. ASSUME NEW c \in Connections, ExecReply(c) PROVE \A t \in finished' : Settled(t, data')
  <2>1. Settled(Transaction(c, "committed"), data)
    BY <1>10, EndWritten DEF ExecReply
  <2>. QED
    BY <1>2, <1>10, <2>1 DEF ExecReply, database
<1>11. ASSUME NEW c \in Connections,
              \/ ProtocolError(c) \/ NestedMulti(c) \/ Multi(c) \/ Reject(c) \/ ExecBegin(c) \/ ExecOne(c)
              \/ ExecWithoutMulti(c) \/ Reconnect(c) \/ \E k \in Kinds : Queue(c, k)
       PROVE  \A t \in finished' : Settled(t, data')
  BY <1>1, <1>11
  DEF ProtocolError, NestedMulti, Multi, Reject, ExecBegin, ExecOne, ExecWithoutMulti, Reconnect,
      Queue, database
<1>12. CASE UNCHANGED vars
  BY <1>1, <1>12 DEF vars, database
<1>. QED
  BY <1>4, <1>5, <1>6, <1>7, <1>8, <1>9, <1>10, <1>11, <1>12 DEF Next

\* Handlers in order, commands with one owner, batches stored as a whole and
\* transactions settled are an inductive invariant.
LEMMA HandlerInvariance ==
  Spec => [](TypeOK /\ HandlerInv /\ OwnerInv /\ StoredInv /\ SettledInv)
<1>1. Init => HandlerInv
  BY HandlerReset DEF Init, HandlerInv, HandlerOK
<1>2. Init => OwnerInv /\ StoredInv /\ SettledInv
  <2> SUFFICES ASSUME Init PROVE OwnerInv /\ StoredInv /\ SettledInv
    OBVIOUS
  <2>1. /\ data = {} /\ finished = {}
        /\ \A c \in Connections : queued[c] = <<>> /\ ~written[c]
    BY DEF Init
  <2>2. ASSUME NEW c \in Connections PROVE Ids(c) = {}
    <3>1. DOMAIN queued[c] = {}
      BY <2>1
    <3>. QED
      BY <3>1, Zenon DEF Ids
  <2>. QED
    BY <2>1, <2>2, Zenon DEF OwnerInv, StoredInv, SettledInv
<1>. QED
  BY <1>1, <1>2, TypeCorrect, TypeStep, HandlerStep, OwnerStep, StoredStep, SettledStep, PTL DEF Spec

\* For any number of connections and commands, and whenever the process dies,
\* the updates a transaction put in its batch are in RocksDB all or none: all
\* if EXEC answered with results, none if it answered with an error.  EXEC
\* makes one write, after the last of its commands and before its answer.
THEOREM TransactionsAtomic == Spec => []AllOrNothing
  BY HandlerInvariance, SettledIsBoth, PTL

\* A transaction one of whose commands was rejected never reaches RocksDB: EXEC
\* looks at errorEncountered_ first, and every rejection sets it.
THEOREM RejectedNeverCommitted == Spec => []RejectedNotCommitted
  BY HandlerInvariance, SettledIsBoth, PTL
-----------------------------------------------------------------------------
(* OrderedRedisMessageAdapter: the inductive invariant. *)

LOCAL INSTANCE WellFoundedInduction

\* The deque holds the requests that follow the answered ones, in order.
SlotInv ==
  /\ Len(out) = startKey
  /\ startKey + Len(pending) <= MaxRequests
  /\ \A i \in 1..Len(pending) : pending[i].key = startKey + i - 1

\* The unanswered slots of the deque are the running commands.
RunningInv ==
  /\ \A i \in 1..Len(pending) : pending[i].val = AsyncResult <=> startKey + i - 1 \in running
  /\ \A k \in running : startKey <= k /\ k < startKey + Len(pending)

\* The oldest slot of the deque is unanswered.
HeadInv == pending # <<>> => pending[1].val = AsyncResult

AdapterInv == AdapterTypeOK /\ SlotInv /\ RunningInv /\ HeadInv /\ ~aborted
-----------------------------------------------------------------------------
(* The prefix of answered messages. *)

\* A set of naturals that is not empty has a least member.
LEMMA LeastNatural ==
  ASSUME NEW S, S \subseteq Nat, S # {} PROVE \E n \in S : \A m \in S : n <= m
<1>1. \E n \in S : \A m \in S : ~(<<m, n>> \in OpToRel(<, Nat))
  BY NatLessThanWellFounded, WFMin
<1>2. PICK n \in S : \A m \in S : ~(<<m, n>> \in OpToRel(<, Nat))
  BY <1>1
<1>3. \A m \in S : ~(m < n)
  BY <1>2, Zenon DEF OpToRel
<1>4. \A m \in S : m \in Int
  OBVIOUS
<1>5. ASSUME NEW m \in S PROVE n <= m
  <2>1. m \in Int /\ n \in Int /\ ~(m < n)
    BY <1>3, <1>4
  <2>. QED
    BY <2>1
<1>. QED
  BY <1>5

\* Answered finds the end of the longest prefix of answered messages.
LEMMA AnsweredPrefix ==
  ASSUME NEW q, Len(q) \in Nat
  PROVE  /\ Answered(q) \in 0..Len(q)
         /\ \A i \in 1..Answered(q) : q[i].val # AsyncResult
         /\ Answered(q) < Len(q) => q[Answered(q) + 1].val = AsyncResult
<1> DEFINE P(n) == /\ \A i \in 1..n : q[i].val # AsyncResult
                   /\ n < Len(q) => q[n + 1].val = AsyncResult
<1>1. \E n \in 0..Len(q) : P(n)
  <2> DEFINE S == {i \in 1..Len(q) : q[i].val = AsyncResult}
  <2>1. CASE S = {}
    <3>1. P(Len(q))
      BY <2>1
    <3>. QED
      BY <3>1
  <2>2. CASE S # {}
    <3>1. PICK n \in S : \A m \in S : n <= m
      <4>1. S \subseteq Nat
        OBVIOUS
      <4> HIDE DEF S
      <4>. QED
        BY <2>2, <4>1, LeastNatural
    <3>2. P(n - 1) /\ n - 1 \in 0..Len(q)
      BY <3>1
    <3>. QED
      BY <3>2
  <2>. QED
    BY <2>1, <2>2
<1>2. Answered(q) = CHOOSE n \in 0..Len(q) : P(n)
  BY DEF Answered
<1>3. Answered(q) \in 0..Len(q) /\ P(Answered(q))
  <2> HIDE DEF P
  <2>. QED
    BY <1>1, <1>2, Zenon
<1>. QED
  BY <1>3
-----------------------------------------------------------------------------
(* write(). *)

\* q after write() stored the answer v in its slot i.
Stored(q, i, v) == [q EXCEPT ![i].val = v]

\* The slot of a message gets its answer, and nothing else changes.
LEMMA StoredSlots ==
  ASSUME NEW q \in Seq(Messages), NEW i \in 1..Len(q), NEW v \in Answers
  PROVE  /\ Stored(q, i, v) \in Seq(Messages)
         /\ Len(Stored(q, i, v)) = Len(q)
         /\ \A j \in 1..Len(q) : /\ Stored(q, i, v)[j].key = q[j].key
                                 /\ Stored(q, i, v)[j].val = IF j = i THEN v ELSE q[j].val
<1>1. \A j \in 1..Len(q) : q[j] \in Messages
  OBVIOUS
<1>2. [q[i] EXCEPT !.val = v] \in Messages
  BY <1>1 DEF Messages
<1>3. Stored(q, i, v) = [q EXCEPT ![i] = [q[i] EXCEPT !.val = v]]
  BY DEF Stored
<1>4. /\ [q[i] EXCEPT !.val = v].key = q[i].key
      /\ [q[i] EXCEPT !.val = v].val = v
  BY <1>1 DEF Messages
<1> DEFINE m == [q[i] EXCEPT !.val = v]
<1> HIDE DEF m
<1>5. Stored(q, i, v) = [q EXCEPT ![i] = m] /\ m \in Messages /\ m.key = q[i].key /\ m.val = v
  BY <1>2, <1>3, <1>4 DEF m
<1>. QED
  BY <1>5

\* A write() whose CHECKs hold sends the answered prefix of the deque.
LEMMA WriteEffect ==
  ASSUME NEW q \in Seq(Messages), NEW k, NEW v \in Answers, Write(q, k, v),
         NEW i \in 1..Len(q), i = k - startKey + 1, q[i].key = k, q[i].val = AsyncResult
  PROVE  /\ out' = out \o SubSeq(Stored(q, i, v), 1, Answered(Stored(q, i, v)))
         /\ pending' = SubSeq(Stored(q, i, v), Answered(Stored(q, i, v)) + 1, Len(q))
         /\ startKey' = startKey + Answered(Stored(q, i, v))
         /\ aborted' = aborted
<1>1. Len(Stored(q, i, v)) = Len(q)
  BY StoredSlots
<1>. QED
  BY <1>1 DEF Write, Stored

\* Sending the answered prefix of the outputs q.
Sends(q, n) ==
  /\ out' = out \o SubSeq(q, 1, n)
  /\ pending' = SubSeq(q, n + 1, Len(q))
  /\ startKey' = startKey + n

\* What is left of a sequence behind its first n elements.
LEMMA RestIs ==
  ASSUME NEW S, NEW q \in Seq(S), NEW n \in 0..Len(q)
  PROVE  /\ SubSeq(q, n + 1, Len(q)) \in Seq(S)
         /\ Len(SubSeq(q, n + 1, Len(q))) = Len(q) - n
         /\ \A j \in 1..(Len(q) - n) : SubSeq(q, n + 1, Len(q))[j] = q[n + j]
  OBVIOUS

\* What is sent answers the oldest requests in their order, and what is kept is
\* in order.
LEMMA SendPrefix ==
  ASSUME NEW q \in Seq(Messages), NEW n \in 0..Len(q), Sends(q, n),
         startKey \in Nat, out \in Seq([key: Keys, val: Answers]), Len(out) = startKey,
         startKey + Len(q) <= MaxRequests,
         \A j \in 1..Len(q) : q[j].key = startKey + j - 1,
         \A j \in 1..n : q[j].val # AsyncResult,
         n < Len(q) => q[n + 1].val = AsyncResult,
         \A j \in 1..Len(q) : q[j].val = AsyncResult <=> startKey + j - 1 \in running',
         \A k \in running' : k \in Int /\ startKey <= k /\ k < startKey + Len(q)
  PROVE  /\ startKey' \in 0..MaxRequests /\ pending' \in Seq(Messages)
         /\ out' \in Seq([key: Keys, val: Answers])
         /\ SlotInv' /\ RunningInv' /\ HeadInv'
         /\ startKey' + Len(pending') = startKey + Len(q)
         /\ Abstract!Send
<1> USE AdapterAssumption
<1> DEFINE s == SubSeq(q, 1, n)
           p == SubSeq(q, n + 1, Len(q))
           T == [key: Keys, val: Answers]
<1>0. /\ Len(q) \in Nat /\ n \in Nat /\ n <= Len(q) /\ MaxRequests \in Nat /\ Len(out) \in Nat
      /\ startKey \in Nat
      /\ \A j \in 1..Len(q) : q[j] \in Messages
      /\ \A j \in 1..n : j \in 1..Len(q)
  OBVIOUS
<1>1. \A j \in 1..n : q[j] \in T
  <2> TAKE j \in 1..n
  <2>1. q[j] \in Messages /\ q[j].val # AsyncResult
    BY <1>0
  <2>. QED
    BY <2>1 DEF Messages
<1>2. out' = out \o s /\ pending' = p /\ startKey' = startKey + n
  BY DEF Sends
<1> HIDE DEF T
<1>3. s \in Seq(T) /\ Len(s) = n /\ \A j \in 1..n : s[j] = q[j]
  BY <1>0, <1>1
<1>4. /\ p \in Seq(Messages) /\ Len(p) = Len(q) - n
      /\ \A j \in 1..(Len(q) - n) : p[j] = q[n + j]
  BY RestIs
<1> HIDE DEF s, p
<1>5. out \in Seq(T)
  BY DEF T
<1>6. /\ out' \in Seq(T) /\ Len(out') = startKey + n
      /\ \A j \in 1..(startKey + n) : out'[j] = IF j <= startKey THEN out[j] ELSE s[j - startKey]
  <2>1. /\ out \o s \in Seq(T)
        /\ Len(out \o s) = Len(out) + Len(s)
        /\ \A j \in 1..(Len(out) + Len(s)) :
             (out \o s)[j] = IF j <= Len(out) THEN out[j] ELSE s[j - Len(out)]
    BY ONLY <1>3, <1>5
  <2>2. Len(out) = startKey /\ Len(s) = n /\ out' = out \o s
    BY <1>2, <1>3
  <2>. QED
    BY <2>1, <2>2, Zenon
<1>7. startKey' \in 0..MaxRequests /\ startKey' + Len(pending') = startKey + Len(q)
  <2>1. startKey' = startKey + n /\ Len(pending') = Len(q) - n
    BY <1>2, <1>4
  <2>2. startKey + n \in 0..MaxRequests
    BY <1>0
  <2>3. (startKey + n) + (Len(q) - n) = startKey + Len(q)
    BY <1>0
  <2>. QED
    BY <2>1, <2>2, <2>3
<1>8. \A j \in 1..Len(pending') : pending'[j] = q[n + j] /\ n + j \in 1..Len(q)
  BY ONLY <1>0, <1>2, <1>4
<1>9. SlotInv'
  <2>1. \A j \in 1..Len(pending') : pending'[j].key = startKey' + j - 1
    <3> TAKE j \in 1..Len(pending')
    <3>1. pending'[j].key = startKey + (n + j) - 1
      BY <1>8
    <3>. QED
      BY <1>0, <1>2, <3>1
  <2>. QED
    BY <1>2, <1>6, <1>7, <2>1 DEF SlotInv
<1>10. RunningInv'
  <2>1. ASSUME NEW j \in 1..Len(pending')
        PROVE  pending'[j].val = AsyncResult <=> startKey' + j - 1 \in running'
    <3>1. startKey' + j - 1 = startKey + (n + j) - 1
      BY <1>0, <1>2
    <3>2. pending'[j] = q[n + j] /\ n + j \in 1..Len(q)
      BY <1>8
    <3>3. q[n + j].val = AsyncResult <=> startKey + (n + j) - 1 \in running'
      BY <3>2
    <3>. QED
      BY <3>1, <3>2, <3>3
  <2>2. ASSUME NEW k \in running' PROVE startKey' <= k /\ k < startKey' + Len(pending')
    <3>1. k \in Int /\ k - startKey + 1 \in 1..Len(q) /\ startKey + (k - startKey + 1) - 1 = k
      BY <1>0
    <3>2. q[k - startKey + 1].val = AsyncResult
      BY <3>1
    <3>3. ~(k - startKey + 1 \in 1..n)
      BY <3>2
    <3>. QED
      BY ONLY <1>0, <1>2, <1>7, <3>1, <3>3
  <2>. QED
    BY <2>1, <2>2 DEF RunningInv
<1>11. HeadInv'
  <2>1. pending' # <<>> => n < Len(q) /\ pending'[1] = q[n + 1]
    BY ONLY <1>0, <1>2, <1>4
  <2>. QED
    BY <2>1 DEF HeadInv
<1>12. Abstract!Send
  <2>1. ASSUME NEW j \in (Len(out) + 1)..Len(out')
        PROVE  out'[j].key = j - 1 /\ out'[j].val \in Answers
    <3>1. j - startKey \in 1..n /\ startKey + (j - startKey) - 1 = j - 1
      BY <1>0, <1>6
    <3>2. out'[j] = q[j - startKey]
      BY <1>0, <1>3, <1>6, <3>1
    <3>3. q[j - startKey].key = j - 1
      BY <1>0, <3>1
    <3>4. q[j - startKey].val \in Answers
      BY <1>1, <3>1 DEF T
    <3>. QED
      BY <3>2, <3>3, <3>4
  <2>2. \A j \in 1..Len(out) : out'[j] = out[j]
    BY <1>0, <1>6
  <2>3. Len(out') >= Len(out) /\ Len(out') <= startKey' + Len(pending')
    <3>1. Len(out') = Len(out) + n /\ startKey' + Len(pending') = Len(out) + Len(q)
      BY <1>6, <1>7
    <3>. QED
      BY ONLY <1>0, <3>1
  <2>. QED
    BY <2>1, <2>2, <2>3 DEF Abstract!Send
<1>. QED
  BY <1>2, <1>4, <1>6, <1>7, <1>9, <1>10, <1>11, <1>12 DEF T
-----------------------------------------------------------------------------
(* The steps. *)

\* Every request gets a free slot.
LEMMA NextSlot ==
  ASSUME AdapterInv, startKey + Len(pending) < MaxRequests, NEW q,
         q = Append(pending, Message(NextKey(pending), AsyncResult))
  PROVE  /\ q \in Seq(Messages) /\ Len(q) = Len(pending) + 1
         /\ \A j \in 1..Len(pending) : q[j] = pending[j]
         /\ q[Len(q)].key = startKey + Len(pending) /\ q[Len(q)].val = AsyncResult
         /\ \A j \in 1..Len(q) : q[j].key = startKey + j - 1
<1> DEFINE m == Message(NextKey(pending), AsyncResult)
<1>0. startKey \in Nat /\ pending \in Seq(Messages) /\ Len(pending) \in Nat
  BY DEF AdapterInv, AdapterTypeOK
<1>1. m \in Messages /\ m.key = startKey + Len(pending) /\ m.val = AsyncResult
  BY <1>0, AdapterAssumption DEF Message, NextKey, Messages, Keys
<1> HIDE DEF m
<1>2. q = Append(pending, m)
  BY DEF m
<1>3. /\ q \in Seq(Messages) /\ Len(q) = Len(pending) + 1 /\ q[Len(pending) + 1] = m
      /\ \A j \in 1..Len(pending) : q[j] = pending[j]
  BY <1>0, <1>1, <1>2
<1>4. \A j \in 1..Len(q) : q[j].key = startKey + j - 1
  <2> TAKE j \in 1..Len(q)
  <2>1. CASE j = Len(pending) + 1
    BY <1>0, <1>1, <1>3, <2>1
  <2>2. CASE j \in 1..Len(pending)
    BY <1>3, <2>2 DEF AdapterInv, SlotInv
  <2>. QED
    BY <1>0, <1>3, <2>1, <2>2
<1>. QED
  BY <1>1, <1>3, <1>4

\* A write() of an answer to an unanswered request of the deque q.
LEMMA WriteStep ==
  ASSUME AdapterInv, NEW q \in Seq(Messages), NEW i \in 1..Len(q), NEW k, NEW v \in Answers,
         Write(q, k, v), k = startKey + i - 1, q[i].val = AsyncResult,
         startKey + Len(q) <= MaxRequests,
         \A j \in 1..Len(q) : q[j].key = startKey + j - 1,
         \A j \in 1..Len(q) : startKey + j - 1 \in running' <=> q[j].val = AsyncResult /\ j # i,
         \A l \in running' : l \in Int /\ startKey <= l /\ l < startKey + Len(q)
  PROVE  /\ startKey' \in 0..MaxRequests /\ pending' \in Seq(Messages)
         /\ out' \in Seq([key: Keys, val: Answers])
         /\ SlotInv' /\ RunningInv' /\ HeadInv' /\ aborted' = aborted
         /\ startKey' + Len(pending') = startKey + Len(q)
         /\ Abstract!Send
<1> DEFINE r == Stored(q, i, v)
           n == Answered(r)
<1>0. startKey \in Nat /\ Len(q) \in Nat /\ i \in Nat
  BY DEF AdapterInv, AdapterTypeOK
<1>1. i = k - startKey + 1 /\ q[i].key = k
  BY <1>0
<1>2. /\ out' = out \o SubSeq(r, 1, n) /\ pending' = SubSeq(r, n + 1, Len(q))
      /\ startKey' = startKey + n /\ aborted' = aborted
  BY <1>1, WriteEffect
<1>3. /\ r \in Seq(Messages) /\ Len(r) = Len(q)
      /\ \A j \in 1..Len(q) : r[j].key = q[j].key /\ r[j].val = IF j = i THEN v ELSE q[j].val
  BY StoredSlots
<1> HIDE DEF r
<1>4. /\ n \in 0..Len(r)
      /\ \A j \in 1..n : r[j].val # AsyncResult
      /\ n < Len(r) => r[n + 1].val = AsyncResult
  BY <1>0, <1>3, AnsweredPrefix
<1> HIDE DEF n
<1>5. Sends(r, n)
  BY <1>2, <1>3 DEF Sends
<1>6. \A j \in 1..Len(r) : r[j].key = startKey + j - 1
  BY <1>3
<1>7. \A j \in 1..Len(r) : r[j].val = AsyncResult <=> startKey + j - 1 \in running'
  BY <1>3, AdapterAssumption
<1>8. /\ out \in Seq([key: Keys, val: Answers]) /\ Len(out) = startKey /\ ~aborted
  BY DEF AdapterInv, AdapterTypeOK, SlotInv
<1>. QED
  BY <1>0, <1>2, <1>3, <1>4, <1>5, <1>6, <1>7, <1>8, SendPrefix

\* Every step keeps the deque in order, and is a step of a connection that
\* answers in order, or none.
LEMMA AdapterStep ==
  AdapterInv /\ [AdapterNext]_adapterVars => AdapterInv' /\ [Abstract!Next]_(Abstract!vars)
<1> SUFFICES ASSUME AdapterInv, [AdapterNext]_adapterVars
             PROVE  AdapterInv' /\ [Abstract!Next]_(Abstract!vars)
  OBVIOUS
<1>0. /\ startKey \in Nat /\ pending \in Seq(Messages) /\ Len(pending) \in Nat
      /\ running \subseteq Keys /\ notices \in 0..MaxNotices /\ closed \in BOOLEAN
      /\ running \subseteq Int /\ aborted \in BOOLEAN /\ ~aborted
  BY AdapterAssumption DEF AdapterInv, AdapterTypeOK, Keys
<1>1. ASSUME NEW v \in Answers, ReadSync(v) PROVE AdapterInv' /\ Abstract!Next
  <2> DEFINE q == Append(pending, Message(NextKey(pending), AsyncResult))
             k == startKey + Len(pending)
  <2>1. /\ Write(q, k, v) /\ k < MaxRequests /\ UNCHANGED <<running, notices, closed>>
    BY <1>1 DEF ReadSync, NextKey
  <2>2. /\ q \in Seq(Messages) /\ Len(q) = Len(pending) + 1
        /\ \A j \in 1..Len(pending) : q[j] = pending[j]
        /\ q[Len(q)].val = AsyncResult
        /\ \A j \in 1..Len(q) : q[j].key = startKey + j - 1
    BY <2>1, NextSlot
  <2> HIDE DEF q
  <2>3. Len(q) \in 1..Len(q) /\ k = startKey + Len(q) - 1 /\ startKey + Len(q) <= MaxRequests
    BY <1>0, <2>1, <2>2, AdapterAssumption
  <2>4. ASSUME NEW j \in 1..Len(q)
        PROVE  startKey + j - 1 \in running' <=> q[j].val = AsyncResult /\ j # Len(q)
    <3>1. CASE j = Len(q)
      BY <1>0, <2>1, <2>2, <3>1 DEF AdapterInv, RunningInv
    <3>2. CASE j \in 1..Len(pending)
      BY <1>0, <2>1, <2>2, <3>2 DEF AdapterInv, RunningInv
    <3>. QED
      BY <1>0, <2>2, <3>1, <3>2
  <2>5. \A l \in running' : l \in Int /\ startKey <= l /\ l < startKey + Len(q)
    BY <1>0, <2>1, <2>2 DEF AdapterInv, RunningInv
  <2>6. /\ startKey' \in 0..MaxRequests /\ pending' \in Seq(Messages)
        /\ out' \in Seq([key: Keys, val: Answers])
        /\ SlotInv' /\ RunningInv' /\ HeadInv' /\ aborted' = aborted
        /\ startKey' + Len(pending') = startKey + Len(q)
        /\ Abstract!Send
    <3> HIDE DEF k
    <3>. QED
      BY <2>1, <2>2, <2>3, <2>4, <2>5, WriteStep
  <2>7. AdapterInv'
    BY <1>0, <2>1, <2>6, Zenon DEF AdapterInv, AdapterTypeOK
  <2>8. Abstract!Receive
    BY <1>0, <2>2, <2>6 DEF Abstract!Receive
  <2>. QED
    BY <2>6, <2>7, <2>8 DEF Abstract!Next
<1>2. CASE ReadAsync
  <2> DEFINE q == Append(pending, Message(NextKey(pending), AsyncResult))
             k == startKey + Len(pending)
  <2>1. /\ pending' = q /\ running' = running \cup {k} /\ k < MaxRequests
        /\ UNCHANGED <<startKey, out, notices, closed, aborted>>
    BY <1>2 DEF ReadAsync, NextKey
  <2>2. /\ q \in Seq(Messages) /\ Len(q) = Len(pending) + 1
        /\ \A j \in 1..Len(pending) : q[j] = pending[j]
        /\ q[Len(q)].val = AsyncResult
        /\ \A j \in 1..Len(q) : q[j].key = startKey + j - 1
    BY <2>1, NextSlot
  <2> HIDE DEF q
  <2>3. AdapterTypeOK'
    <3>1. running' \subseteq Keys
      <4>1. k \in Keys
        BY <1>0, <2>1, AdapterAssumption DEF Keys
      <4>. QED
        BY <1>0, <2>1, <4>1, Zenon
    <3>. QED
      BY <2>1, <2>2, <3>1, Zenon DEF AdapterInv, AdapterTypeOK
  <2>4. SlotInv'
    <3>1. startKey + Len(q) <= MaxRequests
      BY <1>0, <2>1, <2>2, AdapterAssumption
    <3>. QED
      BY <2>1, <2>2, <3>1 DEF AdapterInv, SlotInv
  <2>5. RunningInv'
    <3>1. ASSUME NEW j \in 1..Len(q)
          PROVE  q[j].val = AsyncResult <=> startKey + j - 1 \in running'
      <4>1. CASE j = Len(q)
        BY <1>0, <2>1, <2>2, <4>1
      <4>2. CASE j \in 1..Len(pending)
        BY <1>0, <2>1, <2>2, <4>2 DEF AdapterInv, RunningInv
      <4>. QED
        BY <1>0, <2>2, <4>1, <4>2
    <3>2. \A l \in running' : startKey <= l /\ l < startKey + Len(q)
      BY <1>0, <2>1, <2>2 DEF AdapterInv, RunningInv
    <3>. QED
      BY <2>1, <3>1, <3>2 DEF RunningInv
  <2>6. HeadInv'
    <3>1. CASE pending = <<>>
      BY <2>1, <2>2, <3>1 DEF HeadInv
    <3>2. CASE pending # <<>>
      <4>1. 1 \in 1..Len(pending)
        BY <1>0, <3>2
      <4>. QED
        BY <2>1, <2>2, <3>2, <4>1 DEF AdapterInv, HeadInv
    <3>. QED
      BY <3>1, <3>2
  <2>7. Abstract!Next
    BY <1>0, <2>1, <2>2 DEF Abstract!Next, Abstract!Receive, Abstract!Send, AdapterInv, SlotInv
  <2>. QED
    BY <2>1, <2>3, <2>4, <2>5, <2>6, <2>7 DEF AdapterInv
<1>3. ASSUME NEW k \in running, NEW v \in Answers, Complete(k, v) PROVE AdapterInv' /\ Abstract!Next
  <2> DEFINE i == k - startKey + 1
  <2>1. Write(pending, k, v) /\ running' = running \ {k} /\ UNCHANGED <<notices, closed>>
    BY <1>3 DEF Complete
  <2>2. k \in Int /\ startKey <= k /\ k < startKey + Len(pending)
    BY <1>0 DEF AdapterInv, RunningInv
  <2>3. i \in 1..Len(pending) /\ k = startKey + i - 1
    BY <1>0, <2>2
  <2> HIDE DEF i
  <2>4. pending[i].val = AsyncResult
    BY <2>3 DEF AdapterInv, RunningInv
  <2>5. startKey + Len(pending) <= MaxRequests
        /\ \A j \in 1..Len(pending) : pending[j].key = startKey + j - 1
    BY DEF AdapterInv, SlotInv
  <2>6. ASSUME NEW j \in 1..Len(pending)
        PROVE  startKey + j - 1 \in running' <=> pending[j].val = AsyncResult /\ j # i
    <3>1. startKey + j - 1 = k <=> j = i
      BY <1>0, <2>3
    <3>2. startKey + j - 1 \in running <=> pending[j].val = AsyncResult
      BY DEF AdapterInv, RunningInv
    <3>. QED
      BY <2>1, <3>1, <3>2
  <2>7. \A l \in running' : l \in Int /\ startKey <= l /\ l < startKey + Len(pending)
    BY <1>0, <2>1 DEF AdapterInv, RunningInv
  <2>8. /\ startKey' \in 0..MaxRequests /\ pending' \in Seq(Messages)
        /\ out' \in Seq([key: Keys, val: Answers])
        /\ SlotInv' /\ RunningInv' /\ HeadInv' /\ aborted' = aborted
        /\ startKey' + Len(pending') = startKey + Len(pending)
        /\ Abstract!Send
    BY <1>0, <2>1, <2>3, <2>4, <2>5, <2>6, <2>7, WriteStep
  <2>9. AdapterInv'
    BY <1>0, <2>1, <2>8, Zenon DEF AdapterInv, AdapterTypeOK
  <2>10. Abstract!Receive
    BY <2>8 DEF Abstract!Receive
  <2>. QED
    BY <2>8, <2>9, <2>10 DEF Abstract!Next
<1>4. ASSUME UNCHANGED <<startKey, pending, running, out, aborted>>,
             notices' \in 0..MaxNotices, closed' \in BOOLEAN
      PROVE  AdapterInv' /\ UNCHANGED Abstract!vars
  BY <1>4 DEF AdapterInv, AdapterTypeOK, SlotInv, RunningInv, HeadInv, Abstract!vars
<1>5. CASE Notice
  <2>1. notices' \in 0..MaxNotices
    BY <1>0, <1>5, AdapterAssumption DEF Notice
  <2>. QED
    BY <1>0, <1>4, <1>5, <2>1 DEF Notice
<1>6. CASE Close
  BY <1>0, <1>4, <1>6 DEF Close
<1>7. CASE UNCHANGED adapterVars
  BY <1>0, <1>4, <1>7 DEF adapterVars
<1>. QED
  BY <1>1, <1>2, <1>3, <1>5, <1>6, <1>7 DEF AdapterNext

\* The deque in order, and its unanswered slots running, are an inductive invariant.
LEMMA AdapterInvariance == AdapterSpec => []AdapterInv
<1>1. ASSUME AdapterInit PROVE AdapterInv
  <2>1. AdapterTypeOK
    <3>1. 0 \in 0..MaxRequests /\ 0 \in 0..MaxNotices
      BY AdapterAssumption
    <3>2. pending \in Seq(Messages) /\ out \in Seq([key: Keys, val: Answers])
      BY <1>1 DEF AdapterInit
    <3>. QED
      BY <1>1, <3>1, <3>2, Zenon DEF AdapterInit, AdapterTypeOK
  <2>2. SlotInv /\ RunningInv /\ HeadInv
    BY <1>1, AdapterAssumption DEF AdapterInit, SlotInv, RunningInv, HeadInv
  <2>. QED
    BY <1>1, <2>1, <2>2 DEF AdapterInit, AdapterInv
<1>. QED
  BY <1>1, AdapterStep, PTL DEF AdapterSpec

\* For any number of requests and any order in which the commands answer, the
\* adapter implements a connection that answers each request once and in order.
THEOREM AnswersInOrder == AdapterSpec => InOrder
<1>1. AdapterInit => Abstract!Init
  BY DEF AdapterInit, Abstract!Init
<1>. QED
  BY <1>1, AdapterInvariance, AdapterStep, PTL DEF AdapterSpec, InOrder, Abstract!Spec

\* The CHECKs of write() hold for every order in which commands answer: the
\* index computed from the key is the slot of the request, still unanswered.
THEOREM WriteChecksHold == AdapterSpec => []ChecksHold
<1>1. AdapterInv => ChecksHold
  BY DEF AdapterInv, ChecksHold
<1>. QED
  BY <1>1, AdapterInvariance, PTL

\* Nothing is held back for no reason: what is pending starts with an
\* unanswered request, which some command is still working on.
THEOREM HeldBackForCause == AdapterSpec => []HeadUnanswered
<1>1. ASSUME AdapterInv, pending # <<>>
      PROVE  pending[1].val = AsyncResult /\ pending[1].key \in running
  <2>1. 1 \in 1..Len(pending) /\ startKey \in Int
    BY <1>1 DEF AdapterInv, AdapterTypeOK
  <2>2. pending[1].val = AsyncResult
    BY <1>1 DEF AdapterInv, HeadInv
  <2>3. pending[1].key = startKey + 1 - 1 /\ startKey + 1 - 1 \in running
    BY <1>1, <2>1, <2>2 DEF AdapterInv, SlotInv, RunningInv
  <2>. QED
    BY <2>2, <2>3
<1>2. AdapterInv => HeadUnanswered
  BY <1>1 DEF HeadUnanswered
<1>. QED
  BY <1>2, AdapterInvariance, PTL
=============================================================================
