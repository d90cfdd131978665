--------------------------- MODULE ServerLifecycle ---------------------------
(***************************************************************************)
(* The process around a redis pipeline, from main() to its return: the     *)
(* main thread builds and starts the optional components, launches the     *)
(* server and, when a signal has stopped it, stops the components in the   *)
(* reverse order.  Meanwhile the threads of the task queue, of the kafka   *)
(* consumers (LagStatus) and of the server's I/O pool use the database and *)
(* a kafka producer (Producer), and health checks come in over http.       *)
(*                                                                         *)
(* A signal handler runs on the main thread, where the kernel delivers a   *)
(* signal that is sent to the process.                                     *)
(***************************************************************************)
EXTENDS LagStatus, Producer

CONSTANTS
  IoThreads,   \* threads of the server's I/O pool
  Queue,       \* the thread of the scheduled task queue
  MaxOffset,   \* bound: messages of a partition
  Awaited,     \* the offset that WAITFORCOMMIT is called with
  MaxSignals   \* bound: SIGINT and SIGTERM received

ASSUME LifecycleAssumption ==
  /\ N \in Nat /\ MaxEofs \in Nat /\ Stores \subseteq 1..N
  /\ Capacity \in Nat \ {0}
  /\ MaxOffset \in Nat /\ Awaited \in Nat /\ MaxSignals \in Nat
  /\ Queue \notin IoThreads \cup Consumers /\ IoThreads \cap Consumers = {} /\ IoThreads # {}

Threads == {Queue} \cup Consumers \cup IoThreads

VARIABLES
  main,      \* what the main thread does next
  up,        \* components that are built and not destroyed
  alive,     \* threads that run
  stopping,  \* threads told to stop
  doing,     \* what a thread is doing
  offset,    \* committed offset of each consumer's partition
  server,    \* server_: uninitialised, created, bound or nullptr
  joining,   \* is the signal handler in server_->join()?
  signals,   \* signals received
  check      \* the health check being served: /ready

components == <<up, alive, stopping, doing, offset>>
signalling == <<server, joining, signals>>
vars == <<main, components, signalling, check, lag, producer>>

Init ==
  /\ main = "rocksdb" /\ up = {} /\ alive = {} /\ stopping = {}
  /\ doing = [t \in Threads |-> "idle"]
  /\ offset = [c \in Consumers |-> 0]
  /\ server = "uninitialised" /\ joining = FALSE /\ signals = 0
  /\ check = "none"
  /\ LagInit /\ ProducerInit
-----------------------------------------------------------------------------
(* The main thread.  It does nothing while a signal handler runs on it. *)

Ended == {"exited", "aborted", "died"}

MainAt(step) == main = step /\ ~joining

\* The process ends: no thread runs any more.
End(how) == main' = how /\ alive' = {} /\ check' = "none"

Build(step, next, component) ==
  /\ MainAt(step)
  /\ main' = next
  /\ up' = up \cup {component}
  /\ UNCHANGED <<alive, stopping, doing, offset, signalling, check, lag, producer>>

InitializeRocksDb == Build("rocksdb", "producers", "db")

InitializeKafkaProducers == Build("producers", "queues", "producer")

\* With the database manager, which the queues need.
InitializeScheduledTaskQueues == Build("queues", "consumers", "queue")

InitializeKafkaConsumer ==
  /\ MainAt("consumers")
  /\ Link \/ Construct
  /\ UNCHANGED <<main, components, signalling, check, producer>>

\* The server listens, and knows no path yet.
InitializeEmbeddedHttpServer == built = N /\ Build("consumers", "start queues", "http")

StartQueues ==
  /\ MainAt("start queues")
  /\ main' = "init consumers"
  /\ alive' = alive \cup {Queue}
  /\ UNCHANGED <<up, stopping, doing, offset, signalling, check, lag, producer>>

\* init of every consumer; Panic is the one that fails.
InitConsumers ==
  /\ MainAt("init consumers")
  /\ main' = "start consumers"
  /\ UNCHANGED <<components, signalling, check, lag, producer>>

StartConsumer(c) ==
  /\ MainAt("start consumers")
  /\ c \notin alive /\ \A b \in 1..(c - 1) : b \in alive
  /\ alive' = alive \cup {c}
  /\ main' = IF c = N THEN "start http" ELSE main
  /\ UNCHANGED <<up, stopping, doing, offset, signalling, check, lag, producer>>

\* The root handler is added: from now on /ready is answered.
StartHttp == Build("start http", "create server", "/ready")

\* persistVersionTimestamp, and launchServer up to bind.
CreateServer ==
  /\ MainAt("create server")
  /\ main' = "bind"
  /\ server' = "created"
  /\ UNCHANGED <<components, joining, signals, check, lag, producer>>

\* server_->bind starts the I/O threads.
Bind ==
  /\ MainAt("bind") /\ server = "created"
  /\ main' = "wait for stop"
  /\ server' = "bound"
  /\ alive' = alive \cup IoThreads
  /\ UNCHANGED <<up, stopping, doing, offset, joining, signals, check, lag, producer>>

\* server_->waitForStop is called; it returns once the server was stopped.
WaitForStop ==
  /\ \/ MainAt("wait for stop") /\ server = "bound" /\ main' = "waiting"
     \/ MainAt("waiting") /\ IoThreads \subseteq stopping /\ main' = "stop http"
  /\ UNCHANGED <<components, signalling, check, lag, producer>>

\* The CHECK of persistVersionTimestamp or one of launchServer fails; bind throws,
\* the port being taken; or bind is called, like waitForStop, through a server_ that
\* a handler has cleared.
LaunchFails ==
  /\ \/ MainAt("create server") \/ MainAt("bind")
     \/ MainAt("wait for stop") /\ server = "nullptr"
  /\ End("died")
  /\ UNCHANGED <<up, stopping, doing, offset, signalling, lag, producer>>

\* A step of the shutdown that removes a component, once `ready` holds.
Destroy(step, next, gone, ready) ==
  /\ MainAt(step) /\ ready
  /\ main' = next
  /\ up' = up \ gone
  /\ UNCHANGED <<alive, stopping, doing, offset, signalling, check, lag>>

\* close() of the http server waits for the request that is being served.
DestroyHttp ==
  /\ Destroy("stop http", "stop consumers", {"http", "/ready"}, check = "none")
  /\ UNCHANGED producer

StopConsumers ==
  /\ MainAt("stop consumers")
  /\ main' = "join consumers"
  /\ stopping' = stopping \cup Consumers
  /\ UNCHANGED <<up, alive, doing, offset, signalling, check, lag, producer>>

JoinConsumers ==
  /\ MainAt("join consumers") /\ alive \cap Consumers = {}
  /\ main' = "stop queues"
  /\ stopping' = stopping \cup {Queue}
  /\ UNCHANGED <<up, alive, doing, offset, signalling, check, lag, producer>>

\* Variant for a mutation test: do not wait for the thread.
DestroyQueuesNoJoin ==
  /\ Destroy("stop queues", "destroy producers", {"queue"}, TRUE)
  /\ UNCHANGED producer

DestroyQueues ==
  /\ Destroy("stop queues", "destroy producers", {"queue"}, Queue \notin alive)
  /\ UNCHANGED producer

DestroyProducers ==
  Destroy("destroy producers", "stop rocksdb", {"producer"}, TRUE) /\ WaitForAck

\* The database manager is destroyed and the database closed.
StopRocksDb == Destroy("stop rocksdb", "reset", {"db"}, TRUE) /\ UNCHANGED producer

\* redisPipelineBootstrap.reset() and the return from main.
Exit ==
  /\ MainAt("reset")
  /\ End("exited")
  /\ UNCHANGED <<up, stopping, doing, offset, signalling, lag, producer>>

\* A CHECK or LOG(FATAL) on the way to the start of the consumer loops.
Panic ==
  /\ \E step \in {"rocksdb", "producers", "queues", "consumers", "init consumers"} : MainAt(step)
  /\ End("aborted")
  /\ UNCHANGED <<up, stopping, doing, offset, signalling, lag, producer>>

MainStep ==
  \/ InitializeRocksDb \/ InitializeKafkaProducers \/ InitializeScheduledTaskQueues
  \/ InitializeKafkaConsumer \/ InitializeEmbeddedHttpServer
  \/ StartQueues \/ InitConsumers \/ (\E c \in Consumers : StartConsumer(c)) \/ StartHttp
  \/ CreateServer \/ Bind \/ WaitForStop \/ LaunchFails
  \/ DestroyHttp \/ StopConsumers \/ JoinConsumers \/ DestroyQueues \/ DestroyProducers
  \/ StopRocksDb \/ Exit
-----------------------------------------------------------------------------
(* Signals. *)

\* defaultSignalHandler.  Before launchServer it reads an uninitialised server_:
\* zero is ignored, anything else crashes.  A cleared server_ is ignored, too.
Signal ==
  /\ main \notin Ended /\ ~joining /\ signals < MaxSignals
  /\ signals' = signals + 1
  /\ \/ /\ server \in {"created", "bound"}
        /\ stopping' = stopping \cup IoThreads /\ joining' = TRUE
        /\ UNCHANGED <<main, alive, check>>
     \/ /\ server \in {"uninitialised", "nullptr"}
        /\ UNCHANGED <<main, alive, check, stopping, joining>>
     \/ /\ server = "uninitialised" \/ main = "reset"
        /\ End("died")
        /\ UNCHANGED <<stopping, joining>>
  /\ UNCHANGED <<up, doing, offset, server, lag, producer>>

\* server_->join() returns, and server_ is cleared.
JoinServer ==
  /\ joining /\ alive \cap IoThreads = {}
  /\ joining' = FALSE /\ server' = "nullptr"
  /\ UNCHANGED <<main, components, signals, check, lag, producer>>
-----------------------------------------------------------------------------
(* The threads. *)

Runs(t) == t \in alive /\ t \notin retrying

\* Thread t is idle and has not seen that it shall stop.
Free(t) == Runs(t) /\ doing[t] = "idle" /\ t \notin stopping /\ (t \in Consumers => pc[t] = "poll")

Begin(t, what) ==
  /\ Free(t)
  /\ doing' = [doing EXCEPT ![t] = what]
  /\ UNCHANGED <<main, up, alive, stopping, offset, signalling, check, lag>>

\* A consumer processes a message, and produces one on the way.  What a
\* kafka-store consumer does is in KafkaStoreConsumer.
Work(c) == c \in Regular /\ offset[c] < MaxOffset /\ Begin(c, "working") /\ Produce(c)

\* The results are written to the database with the consumer's offset.
Finish(c) ==
  /\ Runs(c) /\ doing[c] = "working"
  /\ doing' = [doing EXCEPT ![c] = "idle"]
  /\ offset' = [offset EXCEPT ![c] = @ + 1]
  /\ UNCHANGED <<main, up, alive, stopping, signalling, check, lag, producer>>

\* WAITFORCOMMIT blocks its I/O thread until the first consumer has committed
\* more than the awaited offset.
BeginWait(t) == Begin(t, "waiting") /\ UNCHANGED producer

EndWait(t) ==
  /\ Runs(t) /\ doing[t] = "waiting" /\ offset[1] > Awaited
  /\ doing' = [doing EXCEPT ![t] = "idle"]
  /\ UNCHANGED <<main, up, alive, stopping, offset, signalling, check, lag, producer>>

SetReadyCommand(t) ==
  /\ Free(t) /\ SetReady
  /\ UNCHANGED <<main, components, signalling, check, producer>>

\* A consumer that has read its partition sees the end, and calls setNoLag.
SeeEof(c) ==
  /\ c \in Regular /\ Free(c) /\ offset[c] = MaxOffset /\ Eof(c)
  /\ UNCHANGED <<main, components, signalling, check, producer>>

UpdateLag(c) ==
  /\ main \notin Ended
  /\ Drain(c) \/ Scan(c) \/ NoLongerLagging(c)
  /\ UNCHANGED <<main, components, signalling, check, producer>>

\* produceAsyncFatalOnError tries again.
RetryProduce(t) ==
  /\ t \in alive /\ Retry(t)
  /\ UNCHANGED <<main, components, signalling, check, lag>>

\* Any error but a full queue.
ProduceFatal(t) ==
  /\ t \in alive /\ doing[t] = "working"
  /\ End("died")
  /\ UNCHANGED <<up, stopping, doing, offset, signalling, lag, producer>>

\* The loop of the thread ends.
Leave(t) ==
  /\ Runs(t) /\ t \in stopping /\ doing[t] = "idle" /\ (t \in Consumers => pc[t] = "poll")
  /\ alive' = alive \ {t}
  /\ UNCHANGED <<main, up, stopping, doing, offset, signalling, check, lag, producer>>

\* The broker answers; a running thread of the application may call pollCallbacks.
Broker == main \notin Ended /\ Deliver /\ UNCHANGED <<main, components, signalling, check, lag>>

Poll ==
  /\ alive \ retrying # {} /\ reports > 0
  /\ PollCallbacks
  /\ UNCHANGED <<main, components, signalling, check, lag>>
-----------------------------------------------------------------------------
(* Health checks: GET /ready asks READY of the redis server of the process. *)

CheckStep(from, to) ==
  /\ check = from /\ check' = to
  /\ UNCHANGED <<main, components, signalling, lag, producer>>

\* The handler connects; if it cannot the answer is 500 at once.
HttpGet ==
  /\ "/ready" \in up /\ alive \cap (IoThreads \ stopping) # {}
  /\ CheckStep("none", "connected")

\* READY on an I/O thread: readyCommand.  500 if it says 0.
ReadyCommand(t) ==
  /\ Free(t)
  /\ CheckStep("connected", IF isLagging THEN "none" ELSE "ready")

\* 500: no reply within five seconds, or the connection is lost.
HttpTimeout == CheckStep("connected", "none")

\* 200.
HttpRespond == CheckStep("ready", "none")
-----------------------------------------------------------------------------
ConsumerStep(c) ==
  Work(c) \/ Finish(c) \/ RetryProduce(c) \/ ProduceFatal(c) \/ SeeEof(c) \/ UpdateLag(c)

IoStep(t) == BeginWait(t) \/ EndWait(t) \/ SetReadyCommand(t) \/ ReadyCommand(t)

Next ==
  \/ MainStep \/ Panic \/ Signal \/ JoinServer
  \/ \E c \in Consumers : ConsumerStep(c)
  \/ \E t \in IoThreads : IoStep(t)
  \/ \E t \in Threads : Leave(t)
  \/ Broker \/ Poll
  \/ HttpGet \/ HttpTimeout \/ HttpRespond

Spec == Init /\ [][Next]_vars

\* Threads run, messages are delivered or fail, requests time out.  Nothing makes
\* messages come, ends of partitions be seen, or an application poll.
FairSpec ==
  /\ Spec
  /\ WF_vars(MainStep) /\ WF_vars(JoinServer)
  /\ \A c \in Regular :
       WF_vars(Finish(c)) /\ WF_vars(RetryProduce(c)) /\ WF_vars(UpdateLag(c))
  /\ \A t \in IoThreads : WF_vars(EndWait(t))
  /\ \A t \in Threads : WF_vars(Leave(t))
  /\ WF_vars(Broker)
  /\ WF_vars(HttpTimeout \/ HttpRespond)
-----------------------------------------------------------------------------
\* Type correctness: a thread is in one place, and lives only while main does.
TypeOK ==
  /\ up \subseteq {"db", "producer", "queue", "http", "/ready"}
  /\ alive \subseteq Threads /\ stopping \subseteq Threads /\ retrying \subseteq Threads
  /\ doing \in [Threads -> {"idle", "working", "waiting"}]
  /\ offset \in [Consumers -> 0..MaxOffset]
  /\ server \in {"uninitialised", "created", "bound", "nullptr"}
  /\ joining \in BOOLEAN /\ signals \in 0..MaxSignals
  /\ check \in {"none", "connected", "ready"}

\* "stop in the reverse order of start": nothing is destroyed that a running
\* thread still uses, and no consumer is stopped that a WAITFORCOMMIT may wait
\* for.
StoppedAfterUsers ==
  /\ alive # {} => {"db", "producer"} \subseteq up
  /\ alive \cap (Consumers \cup IoThreads) # {} => "queue" \in up
  /\ alive \cap IoThreads # {} => stopping \cap Consumers = {}
  /\ check # "none" => "/ready" \in up

\* "Panic before starting any consumer loops": when the verification of a
\* consumer fails, none has committed anything.
PanicBeforeLoops == main = "aborted" => \A c \in Consumers : offset[c] = 0 /\ eofs[c] = 0

\* When the database is closed every message that was produced has been
\* answered for, and its report handled.
NothingUndelivered == main \in {"stop rocksdb", "reset", "exited"} => OutqLen = 0 /\ retrying = {}

\* "consider consumers lagging at start up time until they prove otherwise":
\* /ready answers 200 only when every regular consumer has seen the end of its
\* partition, unless SETREADY was used.
ReadyMeansCaughtUp ==
  check = "ready" => overridden \/ \A t \in Regular : eofs[t] > 0

\* isLagging_ is cleared, other than by SETREADY, only when every regular consumer
\* that is linked by then has seen the end of its partition.
ClearedWhenCaughtUp ==
  [][isLagging /\ ~isLagging' =>
       overridden' \/ \A t \in Regular : t <= linked => eofs[t] > 0]_vars

\* "no mutex needed here because we only ever set it to false and there is write
\* after read": once all consumers have seen the ends of their partitions the server
\* becomes ready.
EventuallyReady ==
  (built = N /\ \A t \in Regular : eofs[t] > 0) ~> (~isLagging \/ main \in Ended)

\* It does once every consumer has seen an end twice: by the second time its first
\* write to its flag is visible, and the last of them finds all flags down.
SecondEndReady ==
  (built = N /\ \A t \in Regular : eofs[t] > 1) ~> (~isLagging \/ main \in Ended)

\* Someone waits for what is not there: a WAITFORCOMMIT for an offset that is not
\* committed, a thread for room in the producer's queue.
HeldUp ==
  \/ \E t \in alive \cap IoThreads : doing[t] = "waiting" /\ offset[1] <= Awaited
  \/ retrying # {} /\ OutqLen >= Capacity

=============================================================================
