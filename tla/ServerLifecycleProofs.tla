------------------------ MODULE ServerLifecycleProofs ------------------------
(***************************************************************************)
(* What holds from main() to its return, for any number of consumers and   *)
(* I/O threads: components are destroyed after the threads that use them,  *)
(* the producer is empty when the database is closed, and /ready says the  *)
(* truth.                                                                  *)
(***************************************************************************)
EXTENDS ServerLifecycle, TLAPS

\* Before the loops of the consumers are started, and before any thread is.
Linking == {"rocksdb", "producers", "queues", "consumers"}
Building == Linking \cup {"start queues"}
Starting == Building \cup {"init consumers"}

\* From the first thread to the end of the last.
Running == {"init consumers", "start consumers", "start http", "create server", "bind",
            "wait for stop", "waiting", "stop http", "stop consumers", "join consumers",
            "stop queues"}

\* After the last thread has ended.
Quiet == {"destroy producers", "stop rocksdb", "reset"}

\* The server has not been created.
Unlaunched == Starting \cup {"start consumers", "start http", "create server"}

\* The server has been stopped.
Stopped == {"stop http", "stop consumers", "join consumers", "stop queues"} \cup Quiet

ConsumersTold == {"join consumers", "stop queues"} \cup Quiet

PhaseInv ==
  /\ main \in Building \cup Running \cup Quiet \cup Ended
  /\ main \in Building \cup Quiet \cup Ended => alive = {}
  /\ main = "producers" => "db" \in up
  /\ main = "queues" => {"db", "producer"} \subseteq up
  /\ main \in {"consumers", "start queues"} \cup Running => {"db", "producer", "queue"} \subseteq up
  /\ main \in {"init consumers", "stop queues"} => alive \cap Consumers = {}
  /\ main \notin ConsumersTold \cup Ended => stopping \cap Consumers = {}

\* The I/O threads end before the handler clears server_, and the server is
\* cleared before the main thread goes on.
ServerInv ==
  /\ main \in Unlaunched => server = "uninitialised"
  /\ server = "nullptr" => alive \cap IoThreads = {}
  /\ joining => server \in {"created", "bound"}
  /\ stopping \cap IoThreads # {} => joining \/ server = "nullptr"
  /\ main \in Stopped => server = "nullptr"

CheckInv ==
  /\ check # "none" => "/ready" \in up
  /\ main \in Ended => check = "none"

\* A consumer that works on a message has not read its partition, and none has
\* committed anything before its loop was started.
WorkInv ==
  /\ \A c \in Consumers : doing[c] = "working" => offset[c] < MaxOffset
  /\ main \in Starting \cup {"aborted"} => \A c \in Consumers : offset[c] = 0

MainInv == TypeOK /\ PhaseInv /\ ServerInv /\ CheckInv
-----------------------------------------------------------------------------
(* The main thread, the signal handler, and which threads run. *)

\* The sets of threads are apart.
LEMMA ThreadsApart ==
  Queue \notin IoThreads /\ Queue \notin Consumers /\ IoThreads \cap Consumers = {}
  BY LifecycleAssumption

\* Steps of the threads that leave the main thread and the components alone.
QuietStep ==
  \/ \E c \in Consumers : Work(c) \/ Finish(c) \/ RetryProduce(c) \/ SeeEof(c) \/ UpdateLag(c)
  \/ \E t \in IoThreads : BeginWait(t) \/ EndWait(t) \/ SetReadyCommand(t)
  \/ Broker \/ Poll

HttpStep ==
  \/ \E t \in IoThreads : ReadyCommand(t)
  \/ HttpGet \/ HttpTimeout \/ HttpRespond

\* Every step of the process is of one of these kinds.
LEMMA Kinds ==
  Next => \/ MainStep \/ Panic \/ Signal \/ JoinServer
          \/ QuietStep \/ HttpStep
          \/ \E c \in Consumers : ProduceFatal(c)
          \/ \E t \in Threads : Leave(t)
  BY DEF Next, ConsumerStep, IoStep, QuietStep, HttpStep

\* A step of the quiet kind leaves main()'s progress, the components and the signals alone.
LEMMA QuietFrame ==
  QuietStep => UNCHANGED <<main, up, alive, stopping, server, joining, signals, check>>
<1>1. ASSUME NEW c \in Consumers,
             Work(c) \/ Finish(c) \/ RetryProduce(c) \/ SeeEof(c) \/ UpdateLag(c)
      PROVE  UNCHANGED <<main, up, alive, stopping, server, joining, signals, check>>
  BY <1>1 DEF Work, Finish, RetryProduce, SeeEof, UpdateLag, Begin, components, signalling
<1>2. ASSUME NEW t \in IoThreads, BeginWait(t) \/ EndWait(t) \/ SetReadyCommand(t)
      PROVE  UNCHANGED <<main, up, alive, stopping, server, joining, signals, check>>
  BY <1>2 DEF BeginWait, EndWait, SetReadyCommand, Begin, components, signalling
<1>3. Broker \/ Poll => UNCHANGED <<main, up, alive, stopping, server, joining, signals, check>>
  BY DEF Broker, Poll, components, signalling
<1>. QED
  BY <1>1, <1>2, <1>3 DEF QuietStep

\* A health check changes nothing but its own state, and there is none to make a
\* step for unless one is open or a thread can serve /ready.
LEMMA HttpFrame ==
  HttpStep => /\ UNCHANGED <<main, components, signalling, lag, producer>>
              /\ alive # {} \/ check # "none"
              /\ check # "none" \/ "/ready" \in up
<1>1. ASSUME NEW t \in IoThreads, ReadyCommand(t)
      PROVE  UNCHANGED <<main, components, signalling, lag, producer>> /\ check # "none"
  BY <1>1 DEF ReadyCommand, CheckStep
<1>2. HttpGet => /\ UNCHANGED <<main, components, signalling, lag, producer>>
                 /\ alive # {} /\ "/ready" \in up
  BY DEF HttpGet, CheckStep
<1>3. HttpTimeout \/ HttpRespond =>
        UNCHANGED <<main, components, signalling, lag, producer>> /\ check # "none"
  BY DEF HttpTimeout, HttpRespond, CheckStep
<1>. QED
  BY <1>1, <1>2, <1>3 DEF HttpStep

\* The process starts with nothing constructed and no thread.
LEMMA MainInit == Init => MainInv /\ WorkInv
<1> SUFFICES ASSUME Init PROVE MainInv /\ WorkInv
  OBVIOUS
<1>1. TypeOK
  <2>1. joining \in BOOLEAN
    BY Zenon DEF Init
  <2>2. signals \in 0..MaxSignals /\ offset \in [Consumers -> 0..MaxOffset]
    BY LifecycleAssumption DEF Init
  <2>. QED
    BY <2>1, <2>2 DEF Init, ProducerInit, TypeOK
<1>2. WorkInv
  BY DEF Init, WorkInv, Threads
<1>3. PhaseInv
  BY DEF Init, PhaseInv, Linking, Building, Running, Quiet, ConsumersTold, Ended
<1>4. ServerInv /\ CheckInv
  BY DEF Init, ServerInv, CheckInv, Linking, Building, Starting, Unlaunched, Quiet, Stopped, Ended
<1>. QED
  BY <1>1, <1>2, <1>3, <1>4 DEF MainInv

\* How the components and threads change with the main thread.
LEMMA PhaseStep == ASSUME MainInv, Next PROVE PhaseInv'
<1> USE DEF MainInv, Linking, Building, Running, Quiet, Stopped, ConsumersTold, Ended
<1>1. CASE InitializeRocksDb
  BY <1>1 DEF PhaseInv, InitializeRocksDb, Build, MainAt
<1>2. CASE InitializeKafkaProducers
  BY <1>2 DEF PhaseInv, InitializeKafkaProducers, Build, MainAt
<1>3. CASE InitializeScheduledTaskQueues
  BY <1>3 DEF PhaseInv, InitializeScheduledTaskQueues, Build, MainAt
<1>4. CASE InitializeKafkaConsumer
  BY <1>4 DEF PhaseInv, InitializeKafkaConsumer, MainAt, components, signalling
<1>5. CASE InitializeEmbeddedHttpServer
  BY <1>5 DEF PhaseInv, InitializeEmbeddedHttpServer, Build, MainAt
<1>6. CASE StartQueues
  BY <1>6, ThreadsApart DEF PhaseInv, StartQueues, MainAt
<1>7. CASE InitConsumers
  BY <1>7 DEF PhaseInv, InitConsumers, MainAt, components
<1>8. CASE (\E c \in Consumers : StartConsumer(c))
  BY <1>8 DEF PhaseInv, StartConsumer, MainAt
<1>9. CASE StartHttp
  BY <1>9 DEF PhaseInv, StartHttp, Build, MainAt
<1>10. CASE CreateServer
  BY <1>10 DEF PhaseInv, CreateServer, MainAt, components
<1>11. CASE Bind
  BY <1>11 DEF PhaseInv, Bind, MainAt
<1>12. CASE WaitForStop
  BY <1>12 DEF PhaseInv, WaitForStop, MainAt, components
<1>13. CASE LaunchFails
  BY <1>13 DEF PhaseInv, LaunchFails, MainAt, End
<1>14. CASE DestroyHttp
  BY <1>14 DEF PhaseInv, DestroyHttp, Destroy, MainAt
<1>15. CASE StopConsumers
  BY <1>15 DEF PhaseInv, StopConsumers, MainAt
<1>16. CASE JoinConsumers
  BY <1>16 DEF PhaseInv, JoinConsumers, MainAt
<1>17. CASE DestroyQueues
  <2>1. main = "stop queues" /\ Queue \notin alive /\ main' = "destroy producers"
        /\ alive' = alive /\ stopping' = stopping
    BY <1>17 DEF DestroyQueues, Destroy, MainAt
  <2>2. alive \cap Consumers = {} /\ server = "nullptr"
    BY <2>1 DEF PhaseInv, ServerInv
  <2>3. alive \cap IoThreads = {} /\ alive \subseteq Threads
    BY <2>2 DEF ServerInv, TypeOK
  <2>4. alive = {}
    BY <2>1, <2>2, <2>3 DEF Threads
  <2>. QED
    BY <2>1, <2>4 DEF PhaseInv
<1>18. CASE DestroyProducers
  BY <1>18 DEF PhaseInv, DestroyProducers, Destroy, MainAt
<1>19. CASE StopRocksDb
  BY <1>19 DEF PhaseInv, StopRocksDb, Destroy, MainAt
<1>20. CASE Exit
  BY <1>20 DEF PhaseInv, Exit, MainAt, End
<1>21. MainStep => PhaseInv'
  BY <1>1, <1>2, <1>3, <1>4, <1>5, <1>6, <1>7, <1>8, <1>9, <1>10, <1>11,
     <1>12, <1>13, <1>14, <1>15, <1>16, <1>17, <1>18, <1>19, <1>20 DEF MainStep
<1>22. CASE Panic
  BY <1>22 DEF PhaseInv, Panic, MainAt, End
<1>23. CASE Signal
  BY <1>23, ThreadsApart DEF PhaseInv, Signal, End
<1>24. CASE JoinServer
  BY <1>24 DEF PhaseInv, JoinServer, components
<1>25. CASE QuietStep
  BY <1>25, QuietFrame DEF PhaseInv
<1>26. CASE HttpStep
  BY <1>26, HttpFrame DEF PhaseInv, components
<1>27. CASE \E c \in Consumers : ProduceFatal(c)
  BY <1>27 DEF PhaseInv, ProduceFatal, End
<1>28. CASE \E t \in Threads : Leave(t)
  BY <1>28 DEF PhaseInv, Leave
<1>. QED
  BY <1>21, <1>22, <1>23, <1>24, <1>25, <1>26, <1>27, <1>28, Kinds

\* How the server is stopped and cleared.
LEMMA ServerStep == ASSUME MainInv, Next PROVE ServerInv'
<1> USE DEF MainInv, Linking, Building, Starting, Unlaunched, Running, Quiet, Stopped, Ended
<1>1. CASE InitializeRocksDb
  BY <1>1 DEF ServerInv, signalling, InitializeRocksDb, Build, MainAt
<1>2. CASE InitializeKafkaProducers
  BY <1>2 DEF ServerInv, signalling, InitializeKafkaProducers, Build, MainAt
<1>3. CASE InitializeScheduledTaskQueues
  BY <1>3 DEF ServerInv, signalling, InitializeScheduledTaskQueues, Build, MainAt
<1>4. CASE InitializeKafkaConsumer
  BY <1>4 DEF ServerInv, signalling, InitializeKafkaConsumer, MainAt, components, signalling
<1>5. CASE InitializeEmbeddedHttpServer
  BY <1>5 DEF ServerInv, signalling, InitializeEmbeddedHttpServer, Build, MainAt
<1>6. CASE StartQueues
  BY <1>6, ThreadsApart DEF ServerInv, signalling, StartQueues, MainAt
<1>7. CASE InitConsumers
  BY <1>7 DEF ServerInv, signalling, InitConsumers, MainAt, components
<1>8. CASE (\E c \in Consumers : StartConsumer(c))
  <2>1. /\ main = "start consumers" /\ main' \in {"start consumers", "start http"}
        /\ stopping' = stopping /\ server' = server /\ joining' = joining
    BY <1>8 DEF StartConsumer, MainAt, signalling
  <2>2. server = "uninitialised" /\ main' \notin Stopped
    BY <2>1 DEF ServerInv
  <2>. QED
    BY <2>1, <2>2, Zenon DEF ServerInv
<1>9. CASE StartHttp
  BY <1>9 DEF ServerInv, signalling, StartHttp, Build, MainAt
<1>10. CASE CreateServer
  <2>1. /\ main' = "bind" /\ main = "create server" /\ server' = "created" /\ ~joining
        /\ alive' = alive /\ stopping' = stopping /\ joining' = joining
    BY <1>10 DEF CreateServer, MainAt, components
  <2>2. server = "uninitialised" /\ main' \notin Unlaunched /\ main' \notin Stopped
    BY <2>1 DEF ServerInv
  <2>3. stopping \cap IoThreads = {}
    BY <2>1, <2>2, Zenon DEF ServerInv
  <2>4. server' # "nullptr" /\ server' \in {"created", "bound"}
    BY <2>1
  <2>. QED
    BY <2>1, <2>2, <2>3, <2>4, Zenon DEF ServerInv
<1>11. CASE Bind
  BY <1>11 DEF ServerInv, signalling, Bind, MainAt
<1>12. CASE WaitForStop
  BY <1>12, LifecycleAssumption DEF ServerInv, signalling, WaitForStop, MainAt, components
<1>13. CASE LaunchFails
  BY <1>13 DEF ServerInv, signalling, LaunchFails, MainAt, End
<1>14. CASE DestroyHttp
  BY <1>14 DEF ServerInv, signalling, DestroyHttp, Destroy, MainAt
<1>15. CASE StopConsumers
  BY <1>15, ThreadsApart DEF ServerInv, signalling, StopConsumers, MainAt
<1>16. CASE JoinConsumers
  BY <1>16, ThreadsApart DEF ServerInv, signalling, JoinConsumers, MainAt
<1>17. CASE DestroyQueues
  BY <1>17 DEF ServerInv, signalling, DestroyQueues, Destroy, MainAt
<1>18. CASE DestroyProducers
  BY <1>18 DEF ServerInv, signalling, DestroyProducers, Destroy, MainAt
<1>19. CASE StopRocksDb
  BY <1>19 DEF ServerInv, signalling, StopRocksDb, Destroy, MainAt
<1>20. CASE Exit
  BY <1>20 DEF ServerInv, signalling, Exit, MainAt, End
<1>21. MainStep => ServerInv'
  BY <1>1, <1>2, <1>3, <1>4, <1>5, <1>6, <1>7, <1>8, <1>9, <1>10, <1>11,
     <1>12, <1>13, <1>14, <1>15, <1>16, <1>17, <1>18, <1>19, <1>20 DEF MainStep
<1>22. CASE Panic
  BY <1>22 DEF ServerInv, signalling, Panic, MainAt, End
<1>23. CASE Signal
  <2>1. CASE server \in {"created", "bound"}
    <3>1. main # "reset"
      BY <2>1 DEF ServerInv
    <3>2. server' = server /\ joining' = TRUE /\ main' = main /\ alive' = alive
      BY <1>23, <2>1, <3>1 DEF Signal
    <3>. QED
      BY <2>1, <3>2, Zenon DEF ServerInv
  <2>2. CASE server \notin {"created", "bound"}
    <3>1. /\ server' = server /\ joining' = joining /\ stopping' = stopping
          /\ (main' = main /\ alive' = alive) \/ (main' = "died" /\ alive' = {})
      BY <1>23, <2>2 DEF Signal, End
    <3>2. CASE main' = main /\ alive' = alive
      BY <3>1, <3>2, Zenon DEF ServerInv
    <3>3. CASE main' = "died" /\ alive' = {}
      <4>1. main' \notin Unlaunched /\ main' \notin Stopped /\ alive' \cap IoThreads = {}
        BY <3>3
      <4>. QED
        BY <3>1, <4>1, Zenon DEF ServerInv
    <3>. QED
      BY <3>1, <3>2, <3>3
  <2>. QED
    BY <2>1, <2>2
<1>24. CASE JoinServer
  BY <1>24 DEF ServerInv, signalling, JoinServer, components
<1>25. CASE QuietStep
  <2>1. /\ main' = main /\ alive' = alive /\ stopping' = stopping
        /\ server' = server /\ joining' = joining
    BY <1>25, QuietFrame
  <2>. QED
    BY <2>1, Zenon DEF ServerInv
<1>26. CASE HttpStep
  <2>1. /\ main' = main /\ alive' = alive /\ stopping' = stopping
        /\ server' = server /\ joining' = joining
    BY <1>26, HttpFrame DEF components, signalling
  <2>. QED
    BY <2>1, Zenon DEF ServerInv
<1>27. CASE \E c \in Consumers : ProduceFatal(c)
  <2>1. /\ main' = "died" /\ alive' = {} /\ stopping' = stopping
        /\ server' = server /\ joining' = joining
    BY <1>27 DEF ProduceFatal, End, signalling
  <2>2. main' \notin Unlaunched /\ main' \notin Stopped
    BY <2>1
  <2>3. alive' \cap IoThreads = {}
    BY <2>1
  <2>. QED
    BY <2>1, <2>2, <2>3, Zenon DEF ServerInv
<1>28. CASE \E t \in Threads : Leave(t)
  <2>1. /\ main' = main /\ alive' \subseteq alive /\ stopping' = stopping
        /\ server' = server /\ joining' = joining
    BY <1>28 DEF Leave, signalling
  <2>2. alive \cap IoThreads = {} => alive' \cap IoThreads = {}
    BY <2>1
  <2>. QED
    BY <2>1, <2>2, Zenon DEF ServerInv
<1>. QED
  BY <1>21, <1>22, <1>23, <1>24, <1>25, <1>26, <1>27, <1>28, Kinds

\* A health check is served while the handler of /ready is there.
LEMMA CheckStepInv == ASSUME MainInv, Next PROVE CheckInv'
<1> USE DEF MainInv, Linking, Building, Running, Quiet, Ended
<1>1. CASE InitializeRocksDb
  BY <1>1 DEF CheckInv, InitializeRocksDb, Build, MainAt
<1>2. CASE InitializeKafkaProducers
  BY <1>2 DEF CheckInv, InitializeKafkaProducers, Build, MainAt
<1>3. CASE InitializeScheduledTaskQueues
  BY <1>3 DEF CheckInv, InitializeScheduledTaskQueues, Build, MainAt
<1>4. CASE InitializeKafkaConsumer
  BY <1>4 DEF CheckInv, InitializeKafkaConsumer, MainAt, components, signalling
<1>5. CASE InitializeEmbeddedHttpServer
  BY <1>5 DEF CheckInv, InitializeEmbeddedHttpServer, Build, MainAt
<1>6. CASE StartQueues
  BY <1>6 DEF CheckInv, StartQueues, MainAt
<1>7. CASE InitConsumers
  BY <1>7 DEF CheckInv, InitConsumers, MainAt, components
<1>8. CASE (\E c \in Consumers : StartConsumer(c))
  BY <1>8 DEF CheckInv, StartConsumer, MainAt
<1>9. CASE StartHttp
  BY <1>9 DEF CheckInv, StartHttp, Build, MainAt
<1>10. CASE CreateServer
  BY <1>10 DEF CheckInv, CreateServer, MainAt, components
<1>11. CASE Bind
  BY <1>11 DEF CheckInv, Bind, MainAt
<1>12. CASE WaitForStop
  BY <1>12 DEF CheckInv, WaitForStop, MainAt, components
<1>13. CASE LaunchFails
  BY <1>13 DEF CheckInv, LaunchFails, MainAt, End
<1>14. CASE DestroyHttp
  BY <1>14 DEF CheckInv, DestroyHttp, Destroy, MainAt
<1>15. CASE StopConsumers
  BY <1>15 DEF CheckInv, StopConsumers, MainAt
<1>16. CASE JoinConsumers
  BY <1>16 DEF CheckInv, JoinConsumers, MainAt
<1>17. CASE DestroyQueues
  BY <1>17 DEF CheckInv, DestroyQueues, Destroy, MainAt
<1>18. CASE DestroyProducers
  BY <1>18 DEF CheckInv, DestroyProducers, Destroy, MainAt
<1>19. CASE StopRocksDb
  BY <1>19 DEF CheckInv, StopRocksDb, Destroy, MainAt
<1>20. CASE Exit
  BY <1>20 DEF CheckInv, Exit, MainAt, End
<1>21. MainStep => CheckInv'
  BY <1>1, <1>2, <1>3, <1>4, <1>5, <1>6, <1>7, <1>8, <1>9, <1>10, <1>11,
     <1>12, <1>13, <1>14, <1>15, <1>16, <1>17, <1>18, <1>19, <1>20 DEF MainStep
<1>22. CASE Panic
  BY <1>22 DEF CheckInv, Panic, MainAt, End
<1>23. CASE Signal
  BY <1>23 DEF CheckInv, Signal, End
<1>24. CASE JoinServer
  BY <1>24 DEF CheckInv, JoinServer, components
<1>25. CASE QuietStep
  BY <1>25, QuietFrame DEF CheckInv
<1>26. CASE HttpStep
  BY <1>26, HttpFrame DEF CheckInv, PhaseInv, components
<1>27. CASE \E c \in Consumers : ProduceFatal(c)
  BY <1>27 DEF CheckInv, ProduceFatal, End
<1>28. CASE \E t \in Threads : Leave(t)
  BY <1>28 DEF CheckInv, Leave
<1>. QED
  BY <1>21, <1>22, <1>23, <1>24, <1>25, <1>26, <1>27, <1>28, Kinds

\* Only steps of threads change what threads do and the producer's queue.
OtherStep ==
  \/ MainStep \/ Panic \/ Signal \/ JoinServer \/ HttpStep
  \/ \E c \in Consumers : ProduceFatal(c)
  \/ \E t \in Threads : Leave(t)

\* The other steps leave all of that as it is.
LEMMA OtherFrame == OtherStep => UNCHANGED <<doing, offset, queued, retrying>>
<1>1. MainStep => UNCHANGED <<doing, offset, queued, retrying>>
  BY DEF InitializeRocksDb, Build, MainAt, InitializeKafkaProducers,
         InitializeScheduledTaskQueues, InitializeKafkaConsumer, components, signalling,
         InitializeEmbeddedHttpServer, StartQueues, InitConsumers, StartConsumer, StartHttp,
         CreateServer, Bind, WaitForStop, LaunchFails, End, DestroyHttp, Destroy,
         StopConsumers, JoinConsumers, DestroyQueues, DestroyProducers, StopRocksDb, Exit,
         signalling, producer, WaitForAck, PollCallbacks, MainStep
<1>2. Panic \/ Signal \/ JoinServer => UNCHANGED <<doing, offset, queued, retrying>>
  BY DEF Panic, Signal, JoinServer, components, producer
<1>3. HttpStep => UNCHANGED <<doing, offset, queued, retrying>>
  BY HttpFrame DEF components, producer
<1>4. (\E c \in Consumers : ProduceFatal(c)) => UNCHANGED <<doing, offset, queued, retrying>>
  BY DEF ProduceFatal, producer
<1>5. (\E t \in Threads : Leave(t)) => UNCHANGED <<doing, offset, queued, retrying>>
  BY DEF Leave, producer
<1>. QED
  BY <1>1, <1>2, <1>3, <1>4, <1>5 DEF OtherStep

\* The steps of threads, as far as their work and the producer's queue go.
LEMMA QuietWork ==
  ASSUME QuietStep
  PROVE  /\ retrying' \subseteq retrying \cup alive
         /\ \/ doing' = doing /\ offset' = offset
            \/ \E c \in Consumers :
                 /\ doing' = [doing EXCEPT ![c] = "working"] /\ offset[c] < MaxOffset
                 /\ offset' = offset /\ c \in alive
            \/ \E c \in Consumers :
                 /\ doing' = [doing EXCEPT ![c] = "idle"] /\ doing[c] = "working"
                 /\ c \in alive /\ offset' = [offset EXCEPT ![c] = @ + 1]
            \/ \E t \in IoThreads, what \in {"idle", "waiting"} :
                 doing' = [doing EXCEPT ![t] = what] /\ offset' = offset
<1> DEFINE Goal ==
      /\ retrying' \subseteq retrying \cup alive
      /\ \/ doing' = doing /\ offset' = offset
         \/ \E c \in Consumers :
              /\ doing' = [doing EXCEPT ![c] = "working"] /\ offset[c] < MaxOffset
              /\ offset' = offset /\ c \in alive
         \/ \E c \in Consumers :
              /\ doing' = [doing EXCEPT ![c] = "idle"] /\ doing[c] = "working"
              /\ c \in alive /\ offset' = [offset EXCEPT ![c] = @ + 1]
         \/ \E t \in IoThreads, what \in {"idle", "waiting"} :
              doing' = [doing EXCEPT ![t] = what] /\ offset' = offset
<1>1. ASSUME NEW c \in Consumers, Work(c) PROVE Goal
  BY <1>1, Zenon DEF Work, Begin, Free, Runs, Produce, Enqueue
<1>2. ASSUME NEW c \in Consumers, Finish(c) PROVE Goal
  BY <1>2, Zenon DEF Finish, Runs, producer
<1>3. ASSUME NEW c \in Consumers, RetryProduce(c) PROVE Goal
  BY <1>3 DEF RetryProduce, Retry, Enqueue, components
<1>4. ASSUME NEW c \in Consumers, SeeEof(c) \/ UpdateLag(c) PROVE Goal
  BY <1>4 DEF SeeEof, UpdateLag, components, producer
<1>5. ASSUME NEW t \in IoThreads, BeginWait(t) PROVE Goal
  BY <1>5, Zenon DEF BeginWait, Begin, producer
<1>6. ASSUME NEW t \in IoThreads, EndWait(t) PROVE Goal
  BY <1>6, Zenon DEF EndWait, producer
<1>7. ASSUME NEW t \in IoThreads, SetReadyCommand(t) PROVE Goal
  BY <1>7 DEF SetReadyCommand, components, producer
<1>8. CASE Broker \/ Poll
  BY <1>8 DEF Broker, Poll, Deliver, PollCallbacks, components
<1>. QED
  BY <1>1, <1>2, <1>3, <1>4, <1>5, <1>6, <1>7, <1>8 DEF QuietStep

\* The main thread does not come back to a phase it has left, and leaves the
\* linking of consumers when all are built.
LEMMA NeverBack ==
  ASSUME Next
  PROVE  /\ main' \in Starting \cup {"aborted"} => main \in Starting \cup {"aborted"}
         /\ main' \in Linking => main \in Linking
         /\ main \in Ended => main' \in Ended
         /\ main \in Linking => main' \in Linking \cup Ended \/ built = N
<1> DEFINE Goal == /\ main' \in Starting \cup {"aborted"} => main \in Starting \cup {"aborted"}
                   /\ main' \in Linking => main \in Linking
                   /\ main \in Ended => main' \in Ended
                   /\ main \in Linking => main' \in Linking \cup Ended \/ built = N
<1> USE DEF Linking, Building, Starting, Ended
<1>1. MainStep => Goal
  BY DEF InitializeRocksDb, Build, MainAt, InitializeKafkaProducers, InitializeScheduledTaskQueues,
         InitializeKafkaConsumer, InitializeEmbeddedHttpServer, StartQueues, InitConsumers,
         StartConsumer, StartHttp, CreateServer, Bind, WaitForStop, LaunchFails, End, DestroyHttp,
         Destroy, StopConsumers, JoinConsumers, DestroyQueues, DestroyProducers, StopRocksDb, Exit,
         MainStep
<1>2. Panic \/ Signal \/ JoinServer => Goal
  BY DEF Panic, MainAt, Signal, JoinServer, End
<1>3. HttpStep \/ QuietStep => Goal
  BY HttpFrame, QuietFrame
<1>4. (\E c \in Consumers : ProduceFatal(c)) => Goal
  BY DEF ProduceFatal, End
<1>5. (\E t \in Threads : Leave(t)) => Goal
  BY DEF Leave
<1>. QED
  BY <1>1, <1>2, <1>3, <1>4, <1>5, Kinds

\* No consumer runs in the phases before their loops.
LEMMA NoLoopYet ==
  ASSUME PhaseInv, main \in Starting \cup {"aborted"} PROVE alive \cap Consumers = {}
  BY DEF PhaseInv, Starting, Building, Linking, Ended

\* Threads work on messages they have not read, and nothing is committed before
\* the loops are started.
LEMMA WorkStep ==
  ASSUME MainInv, WorkInv, Next
  PROVE  WorkInv' /\ (doing \in [Threads -> {"idle", "working", "waiting"}])'
                  /\ (offset \in [Consumers -> 0..MaxOffset])'
<1> DEFINE Goal == WorkInv' /\ (doing \in [Threads -> {"idle", "working", "waiting"}])'
                            /\ (offset \in [Consumers -> 0..MaxOffset])'
<1>1. /\ doing \in [Threads -> {"idle", "working", "waiting"}]
      /\ offset \in [Consumers -> 0..MaxOffset]
      /\ Consumers \subseteq Threads /\ IoThreads \subseteq Threads
      /\ IoThreads \cap Consumers = {} /\ MaxOffset \in Nat
  BY LifecycleAssumption DEF MainInv, TypeOK, Threads
<1>2. main' \in Starting \cup {"aborted"} =>
        /\ \A c \in Consumers : offset[c] = 0
        /\ alive \cap Consumers = {}
  BY NeverBack, NoLoopYet DEF WorkInv, MainInv
<1>3. \A c \in Consumers : doing[c] = "working" => offset[c] < MaxOffset
  BY DEF WorkInv
<1>4. CASE doing' = doing /\ offset' = offset
  BY <1>1, <1>2, <1>3, <1>4 DEF WorkInv
<1>5. ASSUME NEW c \in Consumers, c \in alive,
             doing' = [doing EXCEPT ![c] = "working"], offset[c] < MaxOffset, offset' = offset
      PROVE  Goal
  BY <1>1, <1>2, <1>3, <1>5 DEF WorkInv
<1>6. ASSUME NEW c \in Consumers, doing' = [doing EXCEPT ![c] = "idle"], doing[c] = "working",
             c \in alive, offset' = [offset EXCEPT ![c] = @ + 1]
      PROVE  Goal
  <2>1. offset[c] \in 0..MaxOffset /\ offset[c] < MaxOffset
    BY <1>1, <1>3, <1>6
  <2>2. offset[c] + 1 \in 0..MaxOffset
    BY <1>1, <2>1
  <2>3. main' \notin Starting \cup {"aborted"}
    BY <1>2, <1>6
  <2>4. \A d \in Consumers : doing'[d] = "working" => d # c /\ doing[d] = "working"
    BY <1>1, <1>6
  <2>5. \A d \in Consumers : d # c => offset'[d] = offset[d]
    BY <1>1, <1>6
  <2>6. offset' \in [Consumers -> 0..MaxOffset]
    BY <1>1, <1>6, <2>2
  <2>7. doing' \in [Threads -> {"idle", "working", "waiting"}]
    BY <1>1, <1>6
  <2>. QED
    BY <1>3, <2>3, <2>4, <2>5, <2>6, <2>7 DEF WorkInv
<1>7. ASSUME NEW t \in IoThreads, NEW what \in {"idle", "waiting"},
             doing' = [doing EXCEPT ![t] = what], offset' = offset
      PROVE  Goal
  <2>1. \A c \in Consumers : doing'[c] = doing[c]
    BY <1>1, <1>7
  <2>2. doing' \in [Threads -> {"idle", "working", "waiting"}]
    BY <1>1, <1>7
  <2>. QED
    BY <1>1, <1>2, <1>3, <1>7, <2>1, <2>2 DEF WorkInv
<1>8. CASE QuietStep
  BY <1>4, <1>5, <1>6, <1>7, <1>8, QuietWork
<1>9. CASE OtherStep
  BY <1>4, <1>9, OtherFrame
<1>. QED
  BY <1>8, <1>9, Kinds DEF OtherStep

\* The rest of type correctness.
LEMMA TypeStep == ASSUME MainInv, WorkInv, Next PROVE TypeOK'
<1> DEFINE Components == {"db", "producer", "queue", "http", "/ready"}
           Servers == {"uninitialised", "created", "bound", "nullptr"}
           Sets == /\ up' \subseteq Components
                   /\ alive' \subseteq Threads /\ stopping' \subseteq Threads
                   /\ retrying' \subseteq Threads
           Scalars == /\ server' \in Servers /\ signals' \in 0..MaxSignals
                      /\ joining' = TRUE \/ joining' = FALSE \/ joining' = joining
                      /\ check' \in {"none", "connected", "ready"}
<1>0. /\ up \subseteq Components
      /\ alive \subseteq Threads /\ stopping \subseteq Threads /\ retrying \subseteq Threads
      /\ server \in Servers /\ signals \in 0..MaxSignals /\ joining \in BOOLEAN
      /\ check \in {"none", "connected", "ready"}
      /\ Queue \in Threads /\ Consumers \subseteq Threads /\ IoThreads \subseteq Threads
  BY DEF MainInv, TypeOK, Threads
<1>1. ASSUME MainStep PROVE Sets /\ Scalars
  <2>1. /\ up' \subseteq Components /\ alive' \subseteq Threads /\ stopping' \subseteq Threads
        /\ server' \in Servers /\ check' \in {"none", "connected", "ready"}
    BY <1>0, <1>1 DEF InitializeRocksDb, Build, MainAt, InitializeKafkaProducers,
           InitializeScheduledTaskQueues, InitializeKafkaConsumer, InitializeEmbeddedHttpServer,
           StartQueues, InitConsumers, StartConsumer, StartHttp, CreateServer, Bind, WaitForStop,
           LaunchFails, End, DestroyHttp, Destroy, StopConsumers, JoinConsumers, DestroyQueues,
           DestroyProducers, StopRocksDb, Exit, MainStep, components, signalling
  <2>2. UNCHANGED <<signals, joining>>
    BY <1>1, Zenon DEF InitializeRocksDb, Build, MainAt, InitializeKafkaProducers,
           InitializeScheduledTaskQueues, InitializeKafkaConsumer, InitializeEmbeddedHttpServer,
           StartQueues, InitConsumers, StartConsumer, StartHttp, CreateServer, Bind, WaitForStop,
           LaunchFails, End, DestroyHttp, Destroy, StopConsumers, JoinConsumers, DestroyQueues,
           DestroyProducers, StopRocksDb, Exit, MainStep, components, signalling
  <2>3. retrying' = retrying
    BY <1>1, OtherFrame DEF OtherStep
  <2>. QED
    BY <1>0, <2>1, <2>2, <2>3
<1>2. ASSUME Panic \/ JoinServer PROVE Sets /\ Scalars
  <2>1. retrying' = retrying
    BY <1>2, OtherFrame DEF OtherStep
  <2>. QED
    BY <1>0, <1>2, <2>1 DEF Panic, JoinServer, End, components, signalling
<1>3. ASSUME Signal PROVE Sets /\ Scalars
  <2>1. retrying' = retrying
    BY <1>3, OtherFrame DEF OtherStep
  <2>2. signals' \in 0..MaxSignals
    BY <1>0, <1>3, LifecycleAssumption DEF Signal
  <2>3. Scalars
    BY <1>0, <1>3, <2>2 DEF Signal, End
  <2>. QED
    BY <1>0, <1>3, <2>1, <2>3 DEF Signal, End
<1>4. ASSUME QuietStep PROVE Sets /\ Scalars
  <2>1. UNCHANGED <<up, alive, stopping, server, joining, signals, check>>
    BY <1>4, QuietFrame
  <2>2. retrying' \subseteq Threads
    BY <1>0, <1>4, QuietWork
  <2>. QED
    BY <1>0, <2>1, <2>2
<1>5. ASSUME HttpStep PROVE Sets /\ Scalars
  <2>1. UNCHANGED <<up, alive, stopping, server, joining, signals, retrying>>
    BY <1>5, HttpFrame DEF components, signalling, producer
  <2>2. check' \in {"none", "connected", "ready"}
    BY <1>5 DEF HttpStep, ReadyCommand, HttpGet, HttpTimeout, HttpRespond, CheckStep
  <2>. QED
    BY <1>0, <2>1, <2>2
<1>6. ASSUME NEW c \in Consumers, ProduceFatal(c) PROVE Sets /\ Scalars
  BY <1>0, <1>6 DEF ProduceFatal, End, signalling, producer
<1>7. ASSUME NEW t \in Threads, Leave(t) PROVE Sets /\ Scalars
  BY <1>0, <1>7 DEF Leave, signalling, producer
<1>8. Sets /\ Scalars
  BY <1>1, <1>2, <1>3, <1>4, <1>5, <1>6, <1>7, Kinds, Zenon
<1>9. joining' \in BOOLEAN
  BY <1>0, <1>8, Zenon
<1>. QED
  BY <1>8, <1>9, WorkStep DEF TypeOK

\* The main thread, the components and the threads at every step.
LEMMA MainInvariance == Spec => [](MainInv /\ WorkInv)
<1>1. MainInv /\ WorkInv /\ Next => (MainInv /\ WorkInv)'
  BY TypeStep, PhaseStep, ServerStep, CheckStepInv, WorkStep DEF MainInv
<1>2. ASSUME MainInv, WorkInv, UNCHANGED vars PROVE (MainInv /\ WorkInv)'
  <2>1. /\ main' = main /\ up' = up /\ alive' = alive /\ stopping' = stopping /\ doing' = doing
        /\ offset' = offset /\ server' = server /\ joining' = joining /\ signals' = signals
        /\ check' = check /\ retrying' = retrying
    BY <1>2 DEF vars, components, signalling, producer
  <2>2. TypeOK' /\ ServerInv'
    BY <1>2, <2>1, Zenon DEF MainInv, TypeOK, ServerInv
  <2>3. PhaseInv' /\ CheckInv' /\ WorkInv'
    BY <1>2, <2>1 DEF MainInv, PhaseInv, CheckInv, WorkInv
  <2>. QED
    BY <2>2, <2>3 DEF MainInv
<1>. QED
  BY <1>1, <1>2, MainInit, PTL DEF Spec

\* TypeOK, whatever the number of consumers and threads.
THEOREM TypeCorrect == Spec => []TypeOK
<1>1. MainInv => TypeOK
  BY DEF MainInv
<1>. QED
  BY <1>1, MainInvariance, PTL

\* StoppedAfterUsers: stopServer and main() destroy the database, the producers,
\* the queues and the http server after the threads that use them, and no
\* consumer is told to stop while an I/O thread may wait for its commits.
THEOREM ComponentsOutliveUsers == Spec => []StoppedAfterUsers
<1>1. ASSUME MainInv PROVE StoppedAfterUsers
  <2> USE <1>1 DEF MainInv
  <2>1. alive # {} => main \in Running
    BY DEF PhaseInv
  <2>2. alive # {} => {"db", "producer", "queue"} \subseteq up
    BY <2>1 DEF PhaseInv
  <2>3. alive \cap IoThreads # {} => stopping \cap Consumers = {}
    <3>1. alive \cap IoThreads # {} => main \notin Stopped /\ main \notin Ended
      BY DEF PhaseInv, ServerInv
    <3>2. ConsumersTold \subseteq Stopped
      BY DEF ConsumersTold, Stopped
    <3>. QED
      BY <3>1, <3>2 DEF PhaseInv
  <2>. QED
    BY <2>2, <2>3 DEF CheckInv, StoppedAfterUsers
<1>. QED
  BY <1>1, MainInvariance, PTL
-----------------------------------------------------------------------------
(* The producer. *)

\* Only a running thread waits for room in the producer's queue, and the queue
\* stays empty once it has been waited for.
ProducerInv ==
  /\ queued \in Nat /\ reports \in Nat
  /\ main \notin Ended => retrying \subseteq alive
  /\ NothingUndelivered

Closed == {"stop rocksdb", "reset", "exited"}

\* The main thread starts threads or ends them all, and enters the last phases
\* only when the producer's queue is empty.
LEMMA MainProducer ==
  MainStep => /\ main' \in Ended \/ alive \subseteq alive'
              /\ \/ reports' = reports /\ (main' \in Closed => main \in Closed)
                 \/ /\ main = "destroy producers" /\ main' = "stop rocksdb"
                    /\ queued = 0 /\ reports' = 0
  BY DEF Closed, Ended, InitializeRocksDb, Build, MainAt,
         InitializeKafkaProducers,
         InitializeScheduledTaskQueues, InitializeKafkaConsumer, InitializeEmbeddedHttpServer,
         StartQueues, InitConsumers, StartConsumer, StartHttp, CreateServer, Bind, WaitForStop,
         LaunchFails, End, DestroyHttp, Destroy, StopConsumers, JoinConsumers, DestroyQueues,
         DestroyProducers, StopRocksDb, Exit, MainStep, components, producer, WaitForAck,
         PollCallbacks

\* The other steps do not enter the last phases, and start and end no thread
\* that waits for the producer.
LEMMA OthersProducer ==
  ASSUME Panic \/ Signal \/ JoinServer \/ HttpStep
           \/ (\E c \in Consumers : ProduceFatal(c)) \/ (\E t \in Threads : Leave(t))
  PROVE  /\ main' \in Ended \/ \A t \in alive : t \in alive' \/ t \notin retrying
         /\ reports' = reports /\ (main' \in Closed => main \in Closed)
<1> DEFINE Goal == /\ main' \in Ended \/ \A t \in alive : t \in alive' \/ t \notin retrying
                   /\ reports' = reports /\ (main' \in Closed => main \in Closed)
<1> USE DEF Closed, Ended
<1>1. Panic \/ Signal \/ JoinServer => Goal
  BY DEF Panic, MainAt, Signal, JoinServer, End, components, producer
<1>2. HttpStep => Goal
  BY HttpFrame DEF components, producer
<1>3. (\E c \in Consumers : ProduceFatal(c)) => Goal
  BY DEF ProduceFatal, End, producer
<1>4. (\E t \in Threads : Leave(t)) => Goal
  BY DEF Leave, Runs, producer
<1>. QED
  BY <1>1, <1>2, <1>3, <1>4

\* What threads do with the producer needs a running thread.
LEMMA QuietProducer ==
  ASSUME QuietStep, queued \in Nat, reports \in Nat
  PROVE  /\ queued' \in Nat /\ reports' \in Nat
         /\ alive # {} \/ UNCHANGED producer \/ queued > 0
<1> DEFINE Goal == /\ queued' \in Nat /\ reports' \in Nat
                   /\ alive # {} \/ UNCHANGED producer \/ queued > 0
<1>1. ASSUME NEW c \in Consumers, Work(c) PROVE Goal
  BY <1>1 DEF Work, Begin, Free, Runs, Produce, Enqueue
<1>2. ASSUME NEW c \in Consumers, RetryProduce(c) PROVE Goal
  BY <1>2 DEF RetryProduce, Retry, Enqueue
<1>3. ASSUME NEW c \in Consumers, Finish(c) \/ SeeEof(c) \/ UpdateLag(c) PROVE Goal
  BY <1>3 DEF Finish, SeeEof, UpdateLag, producer
<1>4. ASSUME NEW t \in IoThreads, BeginWait(t) \/ EndWait(t) \/ SetReadyCommand(t) PROVE Goal
  BY <1>4 DEF BeginWait, EndWait, SetReadyCommand, producer
<1>5. CASE Broker
  BY <1>5 DEF Broker, Deliver
<1>6. CASE Poll
  BY <1>6 DEF Poll, PollCallbacks
<1>. QED
  BY <1>1, <1>2, <1>3, <1>4, <1>5, <1>6 DEF QuietStep

\* Every step keeps what ties the producer's queue and reports to its life.
LEMMA ProducerStep == ASSUME MainInv, ProducerInv, Next PROVE ProducerInv'
<1>1. /\ queued \in Nat /\ reports \in Nat
      /\ main \notin Ended => retrying \subseteq alive
      /\ main \in Closed => queued + reports = 0 /\ retrying = {}
  BY DEF ProducerInv, NothingUndelivered, OutqLen, Closed
<1>2. /\ main \in Closed => queued = 0 /\ reports = 0 /\ retrying = {}
      /\ main \in Closed \/ main \in Ended \/ main = "destroy producers" => alive = {}
  <2>1. main \in Closed => queued = 0 /\ reports = 0 /\ retrying = {}
    BY <1>1
  <2>2. main \in Closed \/ main \in Ended \/ main = "destroy producers" => alive = {}
    BY DEF MainInv, PhaseInv, Quiet, Closed, Ended
  <2>. QED
    BY <2>1, <2>2
<1> SUFFICES /\ queued' \in Nat /\ reports' \in Nat
             /\ main' \notin Ended => retrying' \subseteq alive'
             /\ main' \in Closed => queued' = 0 /\ reports' = 0 /\ retrying' = {}
  <2>1. main' \in Closed => OutqLen' = 0 /\ retrying' = {}
    BY DEF OutqLen
  <2>. QED
    BY <2>1 DEF ProducerInv, NothingUndelivered, Closed
<1>3. CASE MainStep
  <2>1. queued' = queued /\ retrying' = retrying
    BY <1>3, OtherFrame DEF OtherStep
  <2>2. reports' \in Nat
    BY <1>1, <1>3, MainProducer
  <2>3. main' \notin Ended => main \notin Ended /\ retrying' \subseteq alive'
    BY <1>1, <1>3, <2>1, NeverBack, MainProducer
  <2>4. main = "destroy producers" => main \notin Ended
    BY DEF Ended
  <2>5. main' \in Closed => queued' = 0 /\ reports' = 0 /\ retrying' = {}
    BY <1>1, <1>2, <1>3, <2>1, <2>4, MainProducer
  <2>. QED
    BY <1>1, <2>1, <2>2, <2>3, <2>5
<1>4. CASE QuietStep
  <2>1. main' = main /\ alive' = alive
    BY <1>4, QuietFrame
  <2>2. retrying' \subseteq retrying \cup alive
    BY <1>4, QuietWork
  <2>3. main \in Closed => UNCHANGED producer
    BY <1>1, <1>2, <1>4, QuietProducer
  <2>. QED
    BY <1>1, <1>2, <1>4, <2>1, <2>2, <2>3, QuietProducer DEF producer
<1>5. CASE \/ Panic \/ Signal \/ JoinServer \/ HttpStep
           \/ (\E c \in Consumers : ProduceFatal(c)) \/ (\E t \in Threads : Leave(t))
  <2>1. queued' = queued /\ retrying' = retrying
    BY <1>5, OtherFrame DEF OtherStep
  <2>2. main' \notin Ended => main \notin Ended
    BY NeverBack
  <2>. QED
    BY <1>1, <1>2, <1>5, <2>1, <2>2, OthersProducer
<1>. QED
  BY <1>3, <1>4, <1>5, Kinds

\* NothingUndelivered: whenever main() closes the database, every message was
\* answered for and no thread is left that could produce another.
THEOREM ProducerDrained == Spec => []NothingUndelivered
<1>1. Init => ProducerInv
  BY DEF Init, ProducerInit, ProducerInv, NothingUndelivered, Ended
<1>2. MainInv /\ ProducerInv /\ [Next]_vars => ProducerInv'
  <2>1. ProducerInv /\ UNCHANGED vars => ProducerInv'
    BY DEF ProducerInv, NothingUndelivered, OutqLen, vars, components, producer
  <2>. QED
    BY <2>1, ProducerStep
<1>3. ProducerInv => NothingUndelivered
  BY DEF ProducerInv
<1>. QED
  BY <1>1, <1>2, <1>3, MainInvariance, PTL DEF Spec
-----------------------------------------------------------------------------
(* Lag. *)

LagTypes ==
  /\ linked \in 0..N /\ built \in 0..N /\ built <= linked
  /\ lagStatuses \in [Consumers -> BOOLEAN] /\ buffered \in [Consumers -> BOOLEAN]
  /\ pc \in [Consumers -> {"poll", "scan", "ready"}]
  /\ at \in [Consumers -> Nat]
  /\ eofs \in [Consumers -> Nat]

\* All consumers are linked before a thread is started, and no end of a
\* partition is seen before the loops are.
NoEofYet == main \in Starting \cup {"aborted"} => \A c \in Consumers : eofs[c] = 0

LagPhase == NoEofYet /\ (main \notin Linking \cup Ended => linked = N)

CaughtUp == \A u \in Regular : eofs[u] > 0

\* A flag that is down, in the map or on its way there, belongs to a consumer
\* that has seen an end, and the loop of setNoLag has passed no other.
LagInv ==
  /\ \A u \in Regular : u <= linked => lagStatuses[u] \/ eofs[u] > 0
  /\ \A c \in Consumers : buffered[c] \/ pc[c] # "poll" => eofs[c] > 0
  /\ \A c \in Consumers : pc[c] = "scan" => \A u \in Regular : u < at[c] => eofs[u] > 0
  /\ \A c \in Consumers : pc[c] = "ready" => CaughtUp

LagStep ==
  \/ InitializeKafkaConsumer
  \/ \E t \in IoThreads : SetReadyCommand(t)
  \/ \E c \in Consumers : SeeEof(c) \/ UpdateLag(c)

\* Other steps leave the flags alone.
LEMMA LagFrame == Next => LagStep \/ UNCHANGED lag
<1>1. MainStep => LagStep \/ UNCHANGED lag
  BY Zenon DEF InitializeRocksDb, Build, InitializeKafkaProducers, InitializeScheduledTaskQueues,
         LagStep, InitializeEmbeddedHttpServer, StartQueues, InitConsumers,
         StartConsumer, StartHttp, CreateServer, Bind, WaitForStop, LaunchFails, DestroyHttp,
         Destroy, StopConsumers, JoinConsumers, DestroyQueues, DestroyProducers, StopRocksDb, Exit,
         MainStep
<1>2. Panic \/ Signal \/ JoinServer => UNCHANGED lag
  BY DEF Panic, Signal, JoinServer
<1>3. HttpStep => UNCHANGED lag
  BY HttpFrame
<1>4. QuietStep => LagStep \/ UNCHANGED lag
  BY DEF QuietStep, LagStep, Work, Finish, RetryProduce, BeginWait, EndWait, Broker, Poll, Begin
<1>5. (\E c \in Consumers : ProduceFatal(c)) => UNCHANGED lag
  BY DEF ProduceFatal
<1>6. (\E t \in Threads : Leave(t)) => UNCHANGED lag
  BY DEF Leave
<1>. QED
  BY <1>1, <1>2, <1>3, <1>4, <1>5, <1>6, Kinds

\* linkTopicPartition.
LEMMA LinkStep == ASSUME LagTypes, LagInv, Link PROVE LagTypes' /\ LagInv'
<1>1. /\ linked \in 0..N /\ linked < N /\ linked' = linked + 1 /\ built' = built
      /\ lagStatuses' = [lagStatuses EXCEPT ![linked + 1] = TRUE]
      /\ buffered' = buffered /\ isLagging' = isLagging /\ pc' = pc /\ at' = at /\ eofs' = eofs
      /\ overridden' = overridden
  BY DEF Link, LagTypes
<1>2. linked' \in 0..N /\ built' <= linked'
  BY <1>1, LifecycleAssumption DEF LagTypes
<1>3. lagStatuses' \in [Consumers -> BOOLEAN]
  BY <1>1, Zenon DEF LagTypes
<1>4. LagTypes'
  BY <1>1, <1>2, <1>3 DEF LagTypes
<1>5. ASSUME NEW u \in Regular, u <= linked' PROVE lagStatuses'[u] \/ eofs'[u] > 0
  <2>1. u \in Consumers /\ u \in Nat /\ (u <= linked \/ u = linked + 1)
    BY <1>1, <1>5 DEF Regular, Consumers
  <2>2. CASE u = linked + 1
    BY <1>1, <2>1, <2>2 DEF LagTypes
  <2>3. CASE u # linked + 1
    <3>1. lagStatuses'[u] = lagStatuses[u] /\ u <= linked
      BY <1>1, <2>1, <2>3 DEF LagTypes
    <3>. QED
      BY <1>1, <3>1 DEF LagInv
  <2>. QED
    BY <2>2, <2>3
<1>6. CaughtUp' = CaughtUp
  BY <1>1 DEF CaughtUp
<1>. QED
  BY <1>1, <1>4, <1>5, <1>6 DEF LagInv

\* The constructor of a consumer: that of a kafka-store consumer takes its own flag
\* down, and clears isLagging_ if no consumer linked so far has its flag up.
LEMMA ConstructStep ==
  ASSUME LagTypes, LagInv, Construct
  PROVE  /\ LagTypes' /\ LagInv'
         /\ isLagging /\ ~isLagging' => \A u \in Regular : u <= linked => eofs[u] > 0
<1>1. /\ built < linked /\ built' = built + 1 /\ linked' = linked
      /\ buffered' = buffered /\ pc' = pc /\ at' = at /\ eofs' = eofs /\ overridden' = overridden
  BY DEF Construct
<1>2. linked \in Consumers /\ built' \in 0..N /\ built' <= linked'
  BY <1>1, LifecycleAssumption DEF LagTypes, Consumers
<1>3. CaughtUp' = CaughtUp
  BY <1>1 DEF CaughtUp
<1>4. CASE linked \in Stores /\ isLagging
  <2>1. /\ lagStatuses' = [lagStatuses EXCEPT ![linked] = FALSE]
        /\ isLagging' = \E t \in 1..linked : lagStatuses'[t]
    BY <1>4 DEF Construct
  <2>2. LagTypes'
    BY <1>1, <1>2, <2>1 DEF LagTypes
  <2>3. \A u \in Regular : u \in Consumers /\ u # linked /\ lagStatuses'[u] = lagStatuses[u]
    BY <1>4, <2>1, Zenon DEF LagTypes, Regular
  <2>4. \A u \in Regular : u <= linked' => lagStatuses'[u] \/ eofs'[u] > 0
    BY <1>1, <2>3 DEF LagInv
  <2>5. ASSUME ~isLagging', NEW u \in Regular, u <= linked PROVE eofs[u] > 0
    <3>1. u \in 1..linked
      BY <1>2, <2>3, <2>5 DEF Consumers
    <3>2. ~lagStatuses'[u]
      BY <2>1, <2>5, <3>1
    <3>. QED
      BY <1>1, <2>4, <2>5, <3>2
  <2>. QED
    BY <1>1, <1>3, <2>2, <2>4, <2>5 DEF LagInv
<1>5. CASE ~(linked \in Stores /\ isLagging)
  <2>1. lagStatuses' = lagStatuses /\ isLagging' = isLagging
    BY <1>5, Zenon DEF Construct
  <2>2. LagTypes'
    BY <1>1, <1>2, <2>1 DEF LagTypes
  <2>3. LagInv'
    BY <1>1, <1>3, <2>1 DEF LagInv
  <2>. QED
    BY <2>1, <2>2, <2>3, Zenon
<1>. QED
  BY <1>4, <1>5

\* processError of an end of partition, up to the loop of setNoLag.
LEMMA EofStep ==
  ASSUME LagTypes, LagInv, NEW t \in Consumers, Eof(t) PROVE LagTypes' /\ LagInv'
<1>1. /\ linked' = linked /\ built' = built /\ lagStatuses' = lagStatuses
      /\ isLagging' = isLagging /\ overridden' = overridden
      /\ eofs' = [eofs EXCEPT ![t] = @ + 1]
      /\ \/ /\ buffered' = [buffered EXCEPT ![t] = lagStatuses[t]]
            /\ at' = [at EXCEPT ![t] = 1] /\ pc' = [pc EXCEPT ![t] = "scan"]
         \/ buffered' = buffered /\ at' = at /\ pc' = pc
  BY DEF Eof, boot
<1>2. LagTypes'
  BY <1>1 DEF LagTypes
<1>3. eofs'[t] > 0 /\ \A u \in Consumers : eofs[u] > 0 => eofs'[u] > 0
  BY <1>1 DEF LagTypes
<1>4. CaughtUp => CaughtUp'
  BY <1>3 DEF CaughtUp, Regular
<1>5. \A u \in Consumers : u # t => buffered'[u] = buffered[u] /\ pc'[u] = pc[u] /\ at'[u] = at[u]
  BY <1>1 DEF LagTypes
<1>6. \A u \in Regular : u <= linked' => lagStatuses'[u] \/ eofs'[u] > 0
  BY <1>1, <1>3 DEF LagInv, Regular
<1>7. \A c \in Consumers : buffered'[c] \/ pc'[c] # "poll" => eofs'[c] > 0
  BY <1>3, <1>5 DEF LagInv
<1>8. ASSUME NEW c \in Consumers, pc'[c] = "scan", NEW u \in Regular, u < at'[c]
      PROVE  eofs'[u] > 0
  <2>1. u \in Consumers /\ u \in Nat /\ u >= 1
    BY DEF Regular, Consumers
  <2>2. CASE at'[c] = 1
    BY <1>8, <2>1, <2>2
  <2>3. CASE at'[c] = at[c] /\ pc'[c] = pc[c]
    BY <1>3, <1>8, <2>1, <2>3 DEF LagInv
  <2>. QED
    BY <1>1, <2>2, <2>3 DEF LagTypes
<1>9. \A c \in Consumers : pc'[c] = "ready" => CaughtUp'
  <2>1. \A c \in Consumers : pc'[c] = "ready" => pc[c] = "ready"
    BY <1>1 DEF LagTypes
  <2>. QED
    BY <1>4, <2>1 DEF LagInv
<1>. QED
  BY <1>2, <1>6, <1>7, <1>8, <1>9 DEF LagInv

\* The store buffer drains, the loop of setNoLag goes on, or ends.
LEMMA UpdateStep ==
  ASSUME LagTypes, LagInv, NEW t \in Consumers, linked = N,
         Drain(t) \/ Scan(t) \/ NoLongerLagging(t)
  PROVE  LagTypes' /\ LagInv'
<1>1. linked' = linked /\ built' = built /\ eofs' = eofs /\ overridden' = overridden
  BY DEF Drain, Scan, NoLongerLagging, boot
<1>2. CaughtUp' = CaughtUp
  BY <1>1 DEF CaughtUp
<1>3. CASE Drain(t)
  <2>1. /\ buffered[t] /\ buffered' = [buffered EXCEPT ![t] = FALSE]
        /\ lagStatuses' = [lagStatuses EXCEPT ![t] = FALSE]
        /\ isLagging' = isLagging /\ pc' = pc /\ at' = at
    BY <1>3 DEF Drain
  <2>2. LagTypes'
    BY <1>1, <2>1 DEF LagTypes
  <2>3. eofs[t] > 0
    BY <2>1 DEF LagInv
  <2>4. \A u \in Consumers : u # t => buffered'[u] = buffered[u] /\ lagStatuses'[u] = lagStatuses[u]
    BY <2>1 DEF LagTypes
  <2>5. \A u \in Regular : u <= linked' => lagStatuses'[u] \/ eofs'[u] > 0
    BY <1>1, <2>3, <2>4 DEF LagInv, Regular
  <2>6. \A c \in Consumers : buffered'[c] \/ pc'[c] # "poll" => eofs'[c] > 0
    BY <1>1, <2>1, <2>3, <2>4 DEF LagInv
  <2>. QED
    BY <1>1, <1>2, <2>1, <2>2, <2>5, <2>6 DEF LagInv
<1>4. CASE Scan(t)
  <2>1. /\ pc[t] = "scan" /\ lagStatuses' = lagStatuses /\ buffered' = buffered
        /\ isLagging' = isLagging
        /\ \/ pc' = [pc EXCEPT ![t] = "poll"] /\ at' = at
           \/ /\ at[t] <= N /\ ~Reads(t, at[t])
              /\ at' = [at EXCEPT ![t] = @ + 1] /\ pc' = pc
           \/ /\ ~(at[t] <= N)
              /\ pc' = [pc EXCEPT ![t] = "ready"] /\ at' = at
    BY <1>4 DEF Scan
  <2>2. LagTypes'
    BY <1>1, <2>1 DEF LagTypes
  <2>3. eofs[t] > 0
    BY <2>1 DEF LagInv
  <2>4. \A c \in Consumers : c # t => pc'[c] = pc[c] /\ at'[c] = at[c]
    BY <2>1 DEF LagTypes
  <2>5. \A c \in Consumers : buffered'[c] \/ pc'[c] # "poll" => eofs'[c] > 0
    BY <1>1, <2>1, <2>3, <2>4 DEF LagInv
  <2>7. \A u \in Regular : u <= linked' => lagStatuses'[u] \/ eofs'[u] > 0
    BY <1>1, <2>1 DEF LagInv
  <2>8. \A u \in Regular : u \in Consumers /\ u \in Nat /\ u <= N
    BY LifecycleAssumption DEF Regular, Consumers
  <2>9. pc'[t] = "ready" => CaughtUp'
    <3>1. SUFFICES ASSUME pc'[t] = "ready" PROVE CaughtUp
      BY <1>2
    <3>2. ~(at[t] <= N) /\ at[t] \in Nat
      BY <2>1, <3>1 DEF LagTypes
    <3>3. \A u \in Regular : u < at[t]
      BY <2>8, <3>2, LifecycleAssumption
    <3>. QED
      BY <2>1, <3>3 DEF LagInv, CaughtUp
  <2>10. ASSUME pc'[t] = "scan", NEW u \in Regular, u < at'[t] PROVE eofs'[u] > 0
    <3>1. at[t] \in Nat /\ at[t] <= N /\ ~Reads(t, at[t]) /\ at'[t] = at[t] + 1
      BY <2>1, <2>10 DEF LagTypes
    <3>2. CASE u < at[t]
      BY <1>1, <2>1, <3>2 DEF LagInv
    <3>3. CASE u = at[t]
      <4>1. lagStatuses[u] \/ eofs[u] > 0
        BY <2>8 DEF LagInv
      <4>2. ~lagStatuses[u] \/ u = t
        BY <3>1, <3>3 DEF Reads
      <4>. QED
        BY <1>1, <2>3, <4>1, <4>2
    <3>. QED
      BY <2>8, <2>10, <3>1, <3>2, <3>3
  <2>11. \A c \in Consumers : pc'[c] = "scan" => \A u \in Regular : u < at'[c] => eofs'[u] > 0
    BY <1>1, <2>4, <2>10 DEF LagInv
  <2>12. \A c \in Consumers : pc'[c] = "ready" => CaughtUp'
    BY <1>2, <2>4, <2>9 DEF LagInv
  <2>. QED
    BY <2>2, <2>5, <2>7, <2>11, <2>12 DEF LagInv
<1>5. CASE NoLongerLagging(t)
  <2>1. /\ pc[t] = "ready" /\ lagStatuses' = lagStatuses /\ buffered' = buffered
        /\ isLagging' = FALSE /\ pc' = [pc EXCEPT ![t] = "poll"] /\ at' = at
    BY <1>5 DEF NoLongerLagging
  <2>2. LagTypes'
    BY <1>1, <2>1 DEF LagTypes
  <2>4. \A c \in Consumers : pc'[c] = pc[c] \/ pc'[c] = "poll"
    BY <2>1 DEF LagTypes
  <2>5. /\ \A u \in Regular : u <= linked' => lagStatuses'[u] \/ eofs'[u] > 0
        /\ \A c \in Consumers : buffered'[c] \/ pc'[c] # "poll" => eofs'[c] > 0
        /\ \A c \in Consumers : pc'[c] = "scan" => \A u \in Regular : u < at'[c] => eofs'[u] > 0
    BY <1>1, <2>1, <2>4 DEF LagInv
  <2>6. \A c \in Consumers : pc'[c] = "ready" => CaughtUp'
    BY <1>2, <2>4 DEF LagInv
  <2>. QED
    BY <2>2, <2>5, <2>6 DEF LagInv
<1>. QED
  BY <1>3, <1>4, <1>5

\* SETREADY, or nothing at all.
LEMMA StillStep ==
  ASSUME LagTypes, LagInv, UNCHANGED lag \/ SetReady PROVE LagTypes' /\ LagInv'
<1>1. /\ linked' = linked /\ built' = built /\ lagStatuses' = lagStatuses /\ buffered' = buffered
      /\ pc' = pc /\ at' = at /\ eofs' = eofs
  BY DEF lag, boot, SetReady
<1>2. CaughtUp' = CaughtUp
  BY <1>1 DEF CaughtUp
<1>. QED
  BY <1>1, <1>2 DEF LagInv, LagTypes

\* Ends of partitions are seen by consumers that run.
LEMMA EofsFrame ==
  ASSUME Next
  PROVE  \/ eofs' = eofs
         \/ \E c \in Consumers : c \in alive /\ eofs' = [eofs EXCEPT ![c] = @ + 1]
<1>1. CASE UNCHANGED lag
  BY <1>1 DEF lag
<1>2. CASE InitializeKafkaConsumer
  BY <1>2, Zenon DEF InitializeKafkaConsumer, Link, Construct
<1>3. ASSUME NEW t \in IoThreads, SetReadyCommand(t) PROVE eofs' = eofs
  BY <1>3 DEF SetReadyCommand, SetReady
<1>4. ASSUME NEW c \in Consumers, UpdateLag(c) PROVE eofs' = eofs
  BY <1>4 DEF UpdateLag, Drain, Scan, NoLongerLagging
<1>5. ASSUME NEW c \in Consumers, SeeEof(c)
      PROVE  c \in alive /\ eofs' = [eofs EXCEPT ![c] = @ + 1]
  BY <1>5, Zenon DEF SeeEof, Free, Runs, Eof
<1>. QED
  BY <1>1, <1>2, <1>3, <1>4, <1>5, LagFrame DEF LagStep

\* No end is seen before the loops of the consumers are started.
LEMMA NoEofStep == ASSUME MainInv, NoEofYet, Next PROVE NoEofYet'
<1>1. SUFFICES ASSUME main' \in Starting \cup {"aborted"} PROVE \A c \in Consumers : eofs'[c] = 0
  BY DEF NoEofYet
<1>2. main \in Starting \cup {"aborted"}
  BY <1>1, NeverBack
<1>3. alive \cap Consumers = {} /\ \A c \in Consumers : eofs[c] = 0
  BY <1>2, NoLoopYet DEF MainInv, NoEofYet
<1>4. eofs' = eofs
  BY <1>3, EofsFrame
<1>. QED
  BY <1>3, <1>4

\* Linking is over before a thread runs.
LEMMA LagPhaseStep ==
  ASSUME MainInv, LagTypes, LagTypes', LagPhase, Next PROVE LagPhase'
<1>1. ASSUME main' \notin Linking \cup Ended PROVE linked' = N
  <2>1. main \notin Ended /\ (main \in Linking => built = N)
    BY <1>1, NeverBack
  <2>2. linked = N
    <3>1. CASE main \in Linking
      <4>1. built = N /\ linked \in 0..N /\ built <= linked
        BY <2>1, <3>1 DEF LagTypes
      <4>. QED
        BY <4>1, LifecycleAssumption
    <3>2. CASE main \notin Linking
      BY <2>1, <3>2 DEF LagPhase
    <3>. QED
      BY <3>1, <3>2
  <2>3. linked' = linked \/ linked' = linked + 1
    BY LagFrame, Zenon DEF LagStep, lag, boot, InitializeKafkaConsumer, Link, Construct,
                    SetReadyCommand, SetReady, SeeEof, Eof, UpdateLag, Drain, Scan, NoLongerLagging
  <2>4. linked' \in 0..N
    BY DEF LagTypes
  <2>. QED
    BY <2>2, <2>3, <2>4, LifecycleAssumption
<1>. QED
  BY <1>1, NoEofStep DEF LagPhase

\* Before any consumer is linked the lag state is consistent.
LEMMA LagInitInv == Init => LagTypes /\ LagPhase /\ LagInv
  BY LifecycleAssumption DEF Init, LagInit, LagTypes, LagPhase, NoEofYet, LagInv, CaughtUp, Linking,
                             Consumers, Regular

\* Every step keeps the lag state consistent.
LEMMA LagInvStep ==
  ASSUME MainInv, LagTypes, LagPhase, LagInv, Next
  PROVE  LagTypes' /\ LagPhase' /\ LagInv'
<1>1. ASSUME UNCHANGED lag PROVE LagTypes' /\ LagInv'
  BY <1>1, StillStep
<1>2. ASSUME InitializeKafkaConsumer PROVE LagTypes' /\ LagInv'
  <2>1. main = "consumers" /\ (Link \/ Construct)
    BY <1>2 DEF InitializeKafkaConsumer, MainAt
  <2>. QED
    BY <2>1, LinkStep, ConstructStep
<1>3. ASSUME NEW t \in IoThreads, SetReadyCommand(t) PROVE LagTypes' /\ LagInv'
  BY <1>3, StillStep DEF SetReadyCommand
<1>4. ASSUME NEW c \in Consumers, SeeEof(c) PROVE LagTypes' /\ LagInv'
  BY <1>4, EofStep DEF SeeEof
<1>5. ASSUME NEW c \in Consumers, UpdateLag(c) PROVE LagTypes' /\ LagInv'
  <2>1. main \notin Ended /\ (Drain(c) \/ Scan(c) \/ NoLongerLagging(c))
    BY <1>5 DEF UpdateLag
  <2>2. buffered[c] \/ pc[c] # "poll"
    BY <2>1 DEF Drain, Scan, NoLongerLagging
  <2>3. eofs[c] > 0
    BY <2>2 DEF LagInv
  <2>4. main \notin Starting \cup {"aborted"}
    BY <2>3 DEF LagPhase, NoEofYet
  <2>5. linked = N
    BY <2>1, <2>4 DEF LagPhase, Starting, Building
  <2>. QED
    BY <2>1, <2>5, UpdateStep
<1>6. LagTypes' /\ LagInv'
  BY <1>1, <1>2, <1>3, <1>4, <1>5, LagFrame DEF LagStep
<1>. QED
  BY <1>6, LagPhaseStep

\* The steps that clear isLagging_: SETREADY, the constructor of a kafka-store
\* consumer, and the end of a loop of setNoLag that has found all flags down.
LEMMA ClearStep ==
  ASSUME LagTypes, LagInv, Next, isLagging, ~isLagging'
  PROVE  overridden' \/ \A u \in Regular : u <= linked => eofs[u] > 0
<1>1. ~(UNCHANGED lag)
  BY DEF lag
<1>2. ASSUME InitializeKafkaConsumer PROVE \A u \in Regular : u <= linked => eofs[u] > 0
  <2>1. Construct
    BY <1>2 DEF InitializeKafkaConsumer, Link
  <2>. QED
    BY <2>1, ConstructStep
<1>3. ASSUME NEW t \in IoThreads, SetReadyCommand(t) PROVE overridden'
  BY <1>3 DEF SetReadyCommand, SetReady
<1>4. ASSUME NEW c \in Consumers, SeeEof(c) PROVE FALSE
  BY <1>4 DEF SeeEof, Eof
<1>5. ASSUME NEW c \in Consumers, UpdateLag(c) PROVE CaughtUp
  <2>1. NoLongerLagging(c)
    BY <1>5 DEF UpdateLag, Drain, Scan
  <2>. QED
    BY <2>1 DEF NoLongerLagging, LagInv
<1>. QED
  BY <1>1, <1>2, <1>3, <1>4, <1>5, LagFrame DEF LagStep, CaughtUp

\* The state of the lag flags, in all of its aspects.
LagOK == LagTypes /\ LagPhase /\ LagInv

\* ClearedWhenCaughtUp for any number of consumers of both kinds in any order: a
\* consumer thread or a constructor clears isLagging_ only when the regular consumers
\* linked so far have seen the ends of their partitions - whatever the order in which
\* the threads run setNoLag and in which their writes to the shared flags become
\* visible.
THEOREM LagClearedWhenCaughtUp == Spec => ClearedWhenCaughtUp
<1> DEFINE Cleared == isLagging /\ ~isLagging' =>
                        overridden' \/ \A t \in Regular : t <= linked => eofs[t] > 0
<1>1. Init => LagOK
  BY LagInitInv DEF LagOK
<1>2. MainInv /\ LagOK /\ [Next]_vars => LagOK'
  <2>1. ASSUME LagOK, UNCHANGED vars PROVE LagOK'
    <3>1. main' = main /\ lag' = lag
      BY <2>1 DEF vars
    <3>2. LagTypes' /\ LagInv'
      BY <2>1, <3>1, StillStep DEF LagOK
    <3>3. eofs' = eofs /\ linked' = linked
      BY <3>1 DEF lag, boot
    <3>4. LagPhase'
      BY <2>1, <3>1, <3>3 DEF LagOK, LagPhase, NoEofYet
    <3>. QED
      BY <3>2, <3>4 DEF LagOK
  <2>2. MainInv /\ LagOK /\ Next => LagOK'
    BY LagInvStep DEF LagOK
  <2>. QED
    BY <2>1, <2>2
<1>3. LagOK /\ [Next]_vars => [Cleared]_vars
  BY ClearStep DEF LagOK
<1>. QED
  BY <1>1, <1>2, <1>3, MainInvariance, PTL DEF Spec, ClearedWhenCaughtUp

\* PanicBeforeLoops: a CHECK that fails while the components are built or the
\* consumers initialised ends the process before any consumer has committed an
\* offset or seen an end.
THEOREM PanicsBeforeLoops == Spec => []PanicBeforeLoops
<1>1. Init => NoEofYet
  BY DEF Init, LagInit, NoEofYet
<1>2. MainInv /\ NoEofYet /\ [Next]_vars => NoEofYet'
  <2>1. NoEofYet /\ UNCHANGED vars => NoEofYet'
    BY DEF NoEofYet, vars, lag
  <2>. QED
    BY <2>1, NoEofStep
<1>3. WorkInv /\ NoEofYet => PanicBeforeLoops
  BY DEF WorkInv, NoEofYet, PanicBeforeLoops
<1>. QED
  BY <1>1, <1>2, <1>3, MainInvariance, PTL DEF Spec
=============================================================================
