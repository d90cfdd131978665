---------------------- MODULE TransactionalRedisHandler ----------------------
(***************************************************************************)
(* Connections with a TransactionalRedisHandler each: MULTI, commands that *)
(* are queued or rejected, EXEC running the queue into one write batch.    *)
(* Connections are served by several I/O threads, so the commands of an    *)
(* EXEC interleave with the work of other connections and with crashes.    *)
(*                                                                         *)
(* A command is its kind and the rank at which it arrived.  The handlers   *)
(* of the commands are not part of the repository; four kinds of them are  *)
(* distinguished by what they do to the write batch and what they return.  *)
(***************************************************************************)
EXTENDS Integers, Sequences

CONSTANTS
  Connections,
  MaxCommands  \* bound: commands over the whole behaviour

ASSUME HandlerAssumption == MaxCommands \in Nat

\* "put" adds to the batch and succeeds, "fail" adds to the batch and returns an
\* error, "get" does neither, "setmeta" is a command of the base table: it
\* writes to RocksDB by itself (handleNonTransactionalCommand drops the batch).
Kinds == {"put", "fail", "get", "setmeta"}

Commands == [id: 1..MaxCommands, kind: Kinds]

VARIABLES
  inTransaction,     \* inTransaction_
  errorEncountered,  \* errorEncountered_
  queued,            \* queuedCommands_
  rejected,          \* was a command rejected since MULTI?
  executing,         \* commands run by the EXEC in progress, -1 when there is none
  batch,             \* ids in the write batch of that EXEC
  written,           \* is that batch written, and the reply of EXEC due?
  data,              \* ids whose batch is in RocksDB
  meta,              \* ids of setmeta commands that are in RocksDB
  finished,          \* the transactions that were answered
  received           \* commands read, over all connections

handler == <<inTransaction, errorEncountered, queued, rejected, executing, batch, written>>
database == <<data, meta>>
vars == <<handler, database, finished, received>>

Outcomes == {"committed", "discarded", "failed", "write error", "crashed"}

Transactions == [puts: SUBSET (1..MaxCommands), metas: SUBSET (1..MaxCommands),
                 clean: BOOLEAN, outcome: Outcomes]

Init ==
  /\ inTransaction = [c \in Connections |-> FALSE]
  /\ errorEncountered = [c \in Connections |-> FALSE]
  /\ queued = [c \in Connections |-> <<>>]
  /\ rejected = [c \in Connections |-> FALSE]
  /\ executing = [c \in Connections |-> -1]
  /\ batch = [c \in Connections |-> {}]
  /\ written = [c \in Connections |-> FALSE]
  /\ data = {} /\ meta = {}
  /\ finished = {}
  /\ received = 0

\* Ids of the queued commands whose kind is in K.
QueuedIds(c, K) == {queued[c][i].id : i \in {j \in DOMAIN queued[c] : queued[c][j].kind \in K}}

Transaction(c, outcome) ==
  [puts |-> QueuedIds(c, {"put", "fail"}), metas |-> QueuedIds(c, {"setmeta"}),
   clean |-> ~rejected[c], outcome |-> outcome]

Idle(c) == executing[c] = -1

\* The connection reads a command.
Read(c) ==
  /\ Idle(c)
  /\ received < MaxCommands
  /\ received' = received + 1

\* Variant for a mutation test: the queue survives the transaction.
ResetKeepsQueue(c) ==
  /\ inTransaction' = [inTransaction EXCEPT ![c] = FALSE]
  /\ errorEncountered' = [errorEncountered EXCEPT ![c] = FALSE]
  /\ rejected' = [rejected EXCEPT ![c] = FALSE]
  /\ executing' = [executing EXCEPT ![c] = -1]
  /\ batch' = [batch EXCEPT ![c] = {}]
  /\ written' = [written EXCEPT ![c] = FALSE]
  /\ UNCHANGED queued

ResetTransactionState(c) ==
  /\ inTransaction' = [inTransaction EXCEPT ![c] = FALSE]
  /\ errorEncountered' = [errorEncountered EXCEPT ![c] = FALSE]
  /\ queued' = [queued EXCEPT ![c] = <<>>]
  /\ rejected' = [rejected EXCEPT ![c] = FALSE]
  /\ executing' = [executing EXCEPT ![c] = -1]
  /\ batch' = [batch EXCEPT ![c] = {}]
  /\ written' = [written EXCEPT ![c] = FALSE]
-----------------------------------------------------------------------------
(* Variants with a plausible mistake, for mutation tests of the properties. *)

\* Reject a command without remembering it.
RejectForgets(c) ==
  /\ Read(c)
  /\ rejected' = [rejected EXCEPT ![c] = inTransaction[c]]
  /\ UNCHANGED <<inTransaction, errorEncountered, queued, executing, batch, written, database, finished>>

\* Write every update as soon as its command has run.
ExecOneWrites(c) ==
  /\ executing[c] \in 0..(Len(queued[c]) - 1)
  /\ LET cmd == queued[c][executing[c] + 1]
     IN  /\ cmd.kind # "fail"
         /\ data' = IF cmd.kind = "put" THEN data \cup {cmd.id} ELSE data
         /\ meta' = IF cmd.kind = "setmeta" THEN meta \cup {cmd.id} ELSE meta
  /\ executing' = [executing EXCEPT ![c] = @ + 1]
  /\ UNCHANGED <<inTransaction, errorEncountered, queued, rejected, batch, written, finished, received>>

-----------------------------------------------------------------------------
Multi(c) ==
  /\ Read(c)
  /\ ~inTransaction[c]
  /\ inTransaction' = [inTransaction EXCEPT ![c] = TRUE]
  /\ UNCHANGED <<errorEncountered, queued, rejected, executing, batch, written, database, finished>>

\* A request that is not an array of strings: RedisHandler::read answers with
\* the error, and the handler of the transaction does not hear of it.
ProtocolError(c) ==
  /\ Read(c)
  /\ UNCHANGED <<handler, database, finished>>

\* A nested MULTI is an error that does not cancel the transaction.
NestedMulti(c) ==
  /\ Read(c)
  /\ inTransaction[c]
  /\ UNCHANGED <<handler, database, finished>>

\* An unknown command (answered by RedisHandler::read) or a wrong number of
\* arguments, in a transaction or not.
Reject(c) ==
  /\ Read(c)
  /\ errorEncountered' = [errorEncountered EXCEPT ![c] = TRUE]
  /\ rejected' = [rejected EXCEPT ![c] = inTransaction[c]]
  /\ UNCHANGED <<inTransaction, queued, executing, batch, written, database, finished>>

Queue(c, k) ==
  /\ Read(c)
  /\ inTransaction[c]
  /\ queued' = [queued EXCEPT ![c] = Append(@, [id |-> received + 1, kind |-> k])]
  /\ UNCHANGED <<inTransaction, errorEncountered, rejected, executing, batch, written, database, finished>>

\* Outside a transaction: run, write the batch if it is not empty, whatever the
\* handler returned; the write (or the Put of setmeta) may fail.
Immediate(c, k) ==
  /\ Read(c)
  /\ ~inTransaction[c]
  /\ data' \in {data, data \cup (IF k \in {"put", "fail"} THEN {received + 1} ELSE {})}
  /\ meta' \in {meta, meta \cup (IF k = "setmeta" THEN {received + 1} ELSE {})}
  /\ UNCHANGED <<handler, finished>>

ExecWithoutMulti(c) ==
  /\ Read(c)
  /\ ~inTransaction[c]
  /\ ResetTransactionState(c)
  /\ UNCHANGED <<database, finished>>

\* "Transaction discarded because of previous errors"
ExecDiscard(c) ==
  /\ Read(c)
  /\ inTransaction[c] /\ errorEncountered[c]
  /\ finished' = finished \cup {Transaction(c, "discarded")}
  /\ ResetTransactionState(c)
  /\ UNCHANGED database

ExecBegin(c) ==
  /\ Read(c)
  /\ inTransaction[c] /\ ~errorEncountered[c]
  /\ executing' = [executing EXCEPT ![c] = 0]
  /\ UNCHANGED <<inTransaction, errorEncountered, queued, rejected, batch, written, database, finished>>

\* The next queued command succeeds.
ExecOne(c) ==
  /\ executing[c] \in 0..(Len(queued[c]) - 1)
  /\ LET cmd == queued[c][executing[c] + 1]
     IN  /\ cmd.kind # "fail"
         /\ batch' = [batch EXCEPT ![c] = IF cmd.kind = "put" THEN @ \cup {cmd.id} ELSE @]
         /\ meta' = IF cmd.kind = "setmeta" THEN meta \cup {cmd.id} ELSE meta
  /\ executing' = [executing EXCEPT ![c] = @ + 1]
  /\ UNCHANGED <<inTransaction, errorEncountered, queued, rejected, written, data, finished, received>>

\* The next queued command returns an error: the batch is dropped.
ExecFail(c) ==
  /\ executing[c] \in 0..(Len(queued[c]) - 1)
  /\ queued[c][executing[c] + 1].kind \in {"fail", "setmeta"}
  /\ finished' = finished \cup {Transaction(c, "failed")}
  /\ ResetTransactionState(c)
  /\ UNCHANGED <<database, received>>

\* writeResult: the batch is written, unless it is empty; or the write fails.
ExecWrite(c) ==
  /\ executing[c] = Len(queued[c]) /\ ~written[c]
  /\ \/ /\ data' = data \cup batch[c]
        /\ written' = [written EXCEPT ![c] = TRUE]
        /\ UNCHANGED <<inTransaction, errorEncountered, queued, rejected, executing, batch, finished>>
     \/ /\ batch[c] # {}
        /\ finished' = finished \cup {Transaction(c, "write error")}
        /\ ResetTransactionState(c)
        /\ UNCHANGED data
  /\ UNCHANGED <<meta, received>>

\* The results are sent.
ExecReply(c) ==
  /\ written[c]
  /\ finished' = finished \cup {Transaction(c, "committed")}
  /\ ResetTransactionState(c)
  /\ UNCHANGED <<database, received>>

\* The client goes away between two commands; its next connection has a new handler.
Reconnect(c) ==
  /\ Idle(c)
  /\ ResetTransactionState(c)
  /\ UNCHANGED <<database, finished, received>>

\* The process dies; what is in RocksDB stays.
Crash ==
  /\ finished' = finished \cup {Transaction(c, "crashed") : c \in {d \in Connections : inTransaction[d]}}
  /\ inTransaction' = [c \in Connections |-> FALSE]
  /\ errorEncountered' = [c \in Connections |-> FALSE]
  /\ queued' = [c \in Connections |-> <<>>]
  /\ rejected' = [c \in Connections |-> FALSE]
  /\ executing' = [c \in Connections |-> -1]
  /\ batch' = [c \in Connections |-> {}]
  /\ written' = [c \in Connections |-> FALSE]
  /\ UNCHANGED <<database, received>>

Next ==
  \/ Crash
  \/ \E c \in Connections :
         \/ Multi(c) \/ ProtocolError(c) \/ NestedMulti(c) \/ Reject(c)
         \/ \E k \in Kinds : Queue(c, k) \/ Immediate(c, k)
         \/ ExecWithoutMulti(c) \/ ExecDiscard(c) \/ ExecBegin(c)
         \/ ExecOne(c) \/ ExecFail(c) \/ ExecWrite(c) \/ ExecReply(c)
         \/ Reconnect(c)

Spec == Init /\ [][Next]_vars
-----------------------------------------------------------------------------
\* Type correctness of the handlers and of the position inside EXEC.
TypeOK ==
  /\ inTransaction \in [Connections -> BOOLEAN]
  /\ errorEncountered \in [Connections -> BOOLEAN]
  /\ queued \in [Connections -> Seq(Commands)]
  /\ rejected \in [Connections -> BOOLEAN]
  /\ executing \in [Connections -> Int]
  /\ \A c \in Connections : executing[c] \in -1..Len(queued[c])
  /\ batch \in [Connections -> SUBSET (1..MaxCommands)]
  /\ written \in [Connections -> BOOLEAN]
  /\ data \subseteq 1..MaxCommands /\ meta \subseteq 1..MaxCommands
  /\ finished \subseteq Transactions
  /\ received \in 0..MaxCommands

\* Of the updates a transaction put in its batch all are in RocksDB or none is,
\* whenever the process dies: all of them if EXEC answered with results, none
\* if it answered with an error.  Without an answer it may be either.
AllOrNothing ==
  \A t \in finished :
    /\ t.puts \subseteq data \/ t.puts \cap data = {}
    /\ t.outcome = "committed" => t.puts \subseteq data
    /\ t.outcome \in {"discarded", "failed", "write error"} => t.puts \cap data = {}

\* A transaction one of whose commands was rejected, being unknown or having
\* the wrong number of arguments, never reaches RocksDB.
RejectedNotCommitted ==
  \A t \in finished : ~t.clean => t.outcome # "committed" /\ t.puts \cap data = {}

\* Outside a transaction nothing is queued, so no command of an earlier
\* transaction runs in a later one.
NothingLeftOver == \A c \in Connections : ~inTransaction[c] => queued[c] = <<>>

\* "Transaction discarded because of previous errors": an error of this
\* transaction.  It fails after an error outside MULTI, which nothing clears.
DiscardedForCause == \A t \in finished : t.outcome = "discarded" => ~t.clean

\* A discarded transaction has no effect, those of base table commands included.
\* It fails for SETMETA, which writes at once and not into the batch.
DiscardedWithoutTrace ==
  \A t \in finished : t.outcome \in {"discarded", "failed"} => (t.puts \cup t.metas) \cap (data \cup meta) = {}
=============================================================================
