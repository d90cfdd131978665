------------------------ MODULE MonitorsShownProofs ------------------------
(***************************************************************************)
(* What monitors are shown: an open monitor is shown every command of      *)
(* another connection, and each thread that writes to it writes every      *)
(* command at most once and in order.  Another thread than its own writes  *)
(* to it only what was meant for a closed connection at its address.       *)
(***************************************************************************)
EXTENDS MonitorsProofs, TLAPS

\* A thread works on the last command of one of its open connections.
DoingInv ==
  \A t \in Threads : doing[t].pc # "idle" =>
    LET cmd == doing[t].cmd
    IN  conn[cmd.from] = "open" /\ thread[cmd.from] = t /\ cmd.n = handled[cmd.from]

\* The command was handled and its broadcast is over.
Past(cmd) ==
  /\ conn[cmd.from] # "new"
  /\ cmd.n <= handled[cmd.from]
  /\ \A t \in Threads : doing[t].pc # "idle" => doing[t].cmd # cmd

\* A callback for an opened connection, between its thread and the sender's, of
\* a command that is behind its sender.
Sent(p, x) ==
  /\ Past(x.cmd)
  /\ thread[x.cmd.from] = p[1]
  /\ \E c \in Connections : conn[c] # "new" /\ addr[c] = x.to /\ thread[c] = p[2]

\* Callbacks for the same sender and monitor are in the order of the commands.
InOrder(q) ==
  \A i, j \in 1..Len(q) :
    i < j /\ q[i].cmd.from = q[j].cmd.from /\ q[i].to = q[j].to => q[i].cmd.n < q[j].cmd.n

QueueInv ==
  \A p \in Threads \X Threads :
    (\A i \in 1..Len(posted[p]) : Sent(p, posted[p][i])) /\ InOrder(posted[p])

\* The command came before those that are queued for the monitor at a.
Before(cmd, a, q) ==
  \A j \in 1..Len(q) : q[j].to = a /\ q[j].cmd.from = cmd.from => cmd.n < q[j].cmd.n

\* What a monitor was shown is behind its sender, and came before what is queued
\* for the thread that wrote it.
SeenInv ==
  \A c \in Connections : \A i \in 1..Len(seen[c]) :
    /\ conn[c] # "new"
    /\ Past(seen[c][i].cmd)
    /\ \A p \in Threads \X Threads :
         p[2] = seen[c][i].by => Before(seen[c][i].cmd, addr[c], posted[p])

\* A connection that registered is in the list until it closes.
SinceInv ==
  \A c \in Connections : since[c] # <<>> =>
    conn[c] # "new" /\ (conn[c] = "open" => IsMonitor(addr[c]))

ShowInv ==
  /\ DoingInv /\ QueueInv /\ SeenInv /\ SinceInv
  /\ ShownInOrder /\ NothingMissed /\ StrayFromClosed
-----------------------------------------------------------------------------
(* What stays as it is. *)

\* The new element comes last and the others keep their places.
LEMMA AppendIs ==
  ASSUME NEW S, NEW q \in Seq(S), NEW e \in S
  PROVE  /\ Len(Append(q, e)) = Len(q) + 1 /\ Append(q, e)[Len(q) + 1] = e
         /\ \A i \in 1..Len(q) : Append(q, e)[i] = q[i]
  OBVIOUS

\* The command was handled and its broadcast is over, in the next state.
PastNext(cmd) ==
  /\ conn'[cmd.from] # "new"
  /\ cmd.n <= handled'[cmd.from]
  /\ \A t \in Threads : doing'[t].pc # "idle" => doing'[t].cmd # cmd

\* A broadcast that is over stays over: commands have numbers of their own.
LEMMA PastKept ==
  ASSUME ListInv, Next, NEW cmd \in AnyCommand, Past(cmd)
  PROVE  PastNext(cmd)
<1>1. /\ cmd.from \in Connections /\ cmd.n \in Nat /\ handled \in [Connections -> Nat]
      /\ conn[cmd.from] # "new" /\ cmd.n <= handled[cmd.from]
      /\ \A t \in Threads : doing[t].pc # "idle" => doing[t].cmd # cmd
  BY DEF Past, AnyCommand, ListInv, MonitorTypes
<1>2. conn'[cmd.from] # "new"
  BY <1>1, Stable
<1>3. ASSUME handled' = handled, \A t \in Threads : doing'[t].pc # "idle" =>
                                   doing[t].pc # "idle" /\ doing'[t].cmd = doing[t].cmd
      PROVE  PastNext(cmd)
  BY <1>1, <1>2, <1>3 DEF PastNext
<1>4. ASSUME NEW c \in Connections, MonitorCommand(c) \/ OtherCommand(c) PROVE PastNext(cmd)
  <2>1. CanHandle(c) /\ Handled(c)
    BY <1>4 DEF MonitorCommand, OtherCommand
  <2>2. /\ thread[c] \in Threads
        /\ handled'[c] = handled[c] + 1 /\ handled[c] \in Nat
        /\ \A d \in Connections : d # c => handled'[d] = handled[d]
        /\ doing'[thread[c]].cmd = [from |-> c, n |-> handled[c] + 1]
        /\ \A t \in Threads : t # thread[c] => doing'[t] = doing[t]
    BY <2>1, HandledTypes DEF ListInv
  <2>3. cmd.n <= handled'[cmd.from]
    BY <1>1, <2>2
  <2>4. cmd # [from |-> c, n |-> handled[c] + 1]
    <3>1. CASE cmd.from = c
      <4>1. cmd.n # handled[c] + 1
        BY <1>1, <2>2, <3>1
      <4>. QED
        BY <4>1
    <3>2. CASE cmd.from # c
      BY <3>2
    <3>. QED
      BY <3>1, <3>2
  <2>5. \A t \in Threads : doing'[t].pc # "idle" => doing'[t].cmd # cmd
    BY <1>1, <2>2, <2>4
  <2>. QED
    BY <1>2, <2>3, <2>5 DEF PastNext
<1>5. ASSUME NEW t \in Threads, CheckMonitors(t) PROVE PastNext(cmd)
  <2>1. /\ handled' = handled /\ doing[t].pc = "check"
        /\ \A u \in Threads : u # t => doing'[u] = doing[u]
        /\ IF monitors = <<>> THEN doing'[t] = Idle
           ELSE doing'[t].pc = "post" /\ doing'[t].cmd = doing[t].cmd
    BY <1>5, CheckIs, Zenon DEF ListInv, CheckMonitors
  <2>. QED
    BY <1>3, <2>1 DEF Idle
<1>6. ASSUME NEW t \in Threads, BroadcastCmd(t) PROVE PastNext(cmd)
  <2>1. /\ handled' = handled /\ doing'[t] = Idle
        /\ \A u \in Threads : u # t => doing'[u] = doing[u]
    BY <1>6, BroadcastIs, Zenon DEF BroadcastCmd
  <2>. QED
    BY <1>3, <2>1 DEF Idle
<1>7. ASSUME UNCHANGED <<handled, doing>> PROVE PastNext(cmd)
  BY <1>3, <1>7
<1>. QED
  BY <1>4, <1>5, <1>6, <1>7, ZenonT(30) DEF Next, Open, Close, WriteToMonitorContext

\* A connection is not closed while its thread works on a command of it.
LEMMA DoingStep == ASSUME ListInv, DoingInv, Next PROVE DoingInv'
<1>0. \A t \in Threads : doing[t].pc # "idle" =>
        /\ doing[t].cmd.from \in Connections
        /\ conn[doing[t].cmd.from] = "open" /\ thread[doing[t].cmd.from] = t
        /\ doing[t].cmd.n = handled[doing[t].cmd.from]
  BY Busy DEF ListInv, DoingInv
<1>1. ASSUME NEW c \in Connections, Open(c) PROVE DoingInv'
  <2>1. UNCHANGED <<doing, handled>> /\ conn[c] = "new" /\ conn' = [conn EXCEPT ![c] = "open"]
    BY <1>1 DEF Open
  <2>2. \A d \in Connections : conn[d] = "open" => conn'[d] = "open" /\ thread'[d] = thread[d]
    BY <1>1, <2>1, Stable DEF ListInv, MonitorTypes
  <2>. QED
    BY <1>0, <2>1, <2>2 DEF DoingInv
<1>2. ASSUME NEW c \in Connections, MonitorCommand(c) \/ OtherCommand(c) PROVE DoingInv'
  <2>1. CanHandle(c) /\ Handled(c) /\ UNCHANGED <<conn, thread>>
    BY <1>2 DEF MonitorCommand, OtherCommand
  <2>2. /\ thread[c] \in Threads /\ conn[c] = "open"
        /\ handled'[c] = handled[c] + 1
        /\ \A d \in Connections : d # c => handled'[d] = handled[d]
        /\ doing'[thread[c]].cmd = [from |-> c, n |-> handled[c] + 1]
        /\ \A t \in Threads : t # thread[c] => doing'[t] = doing[t]
    BY <2>1, HandledTypes DEF ListInv
  <2>3. ASSUME NEW t \in Threads, t # thread[c], doing[t].pc # "idle"
        PROVE  /\ conn'[doing[t].cmd.from] = "open" /\ thread'[doing[t].cmd.from] = t
               /\ doing[t].cmd.n = handled'[doing[t].cmd.from]
    BY <1>0, <2>1, <2>2, <2>3
  <2>. QED
    BY <2>1, <2>2, <2>3 DEF DoingInv
<1>3. ASSUME NEW t \in Threads, CheckMonitors(t) PROVE DoingInv'
  <2>1. /\ UNCHANGED <<conn, thread, handled>> /\ doing[t].pc = "check"
        /\ \A u \in Threads : u # t => doing'[u] = doing[u]
        /\ IF monitors = <<>> THEN doing'[t] = Idle
           ELSE doing'[t].pc = "post" /\ doing'[t].cmd = doing[t].cmd
    BY <1>3, CheckIs, ZenonT(30) DEF ListInv, CheckMonitors
  <2>. QED
    BY <1>0, <2>1 DEF DoingInv, Idle
<1>4. ASSUME NEW t \in Threads, BroadcastCmd(t) PROVE DoingInv'
  <2>1. /\ UNCHANGED <<conn, thread, handled>> /\ doing'[t] = Idle
        /\ \A u \in Threads : u # t => doing'[u] = doing[u]
    BY <1>4, BroadcastIs, Zenon DEF BroadcastCmd
  <2>. QED
    BY <1>0, <2>1 DEF DoingInv, Idle
<1>5. ASSUME NEW c \in Connections, Close(c) PROVE DoingInv'
  <2>1. /\ UNCHANGED <<thread, handled, doing>> /\ doing[thread[c]].pc = "idle"
        /\ \A d \in Connections : d # c => conn'[d] = conn[d]
    BY <1>5 DEF Close, Idle, ListInv, MonitorTypes
  <2>. QED
    BY <1>0, <2>1 DEF DoingInv
<1>6. ASSUME UNCHANGED <<conn, thread, handled, doing>> PROVE DoingInv'
  BY <1>6 DEF DoingInv
<1>. QED
  BY <1>1, <1>2, <1>3, <1>4, <1>5, <1>6, Zenon DEF Next, WriteToMonitorContext

\* Sent in the next state.
SentNext(p, x) ==
  /\ PastNext(x.cmd)
  /\ thread'[x.cmd.from] = p[1]
  /\ \E c \in Connections : conn'[c] # "new" /\ addr'[c] = x.to /\ thread'[c] = p[2]

\* QueueInv in the next state.
LEMMA QueueFrom ==
  ASSUME \A p \in Threads \X Threads :
           (\A i \in 1..Len(posted'[p]) : SentNext(p, posted'[p][i])) /\ InOrder(posted'[p])
  PROVE  QueueInv'
<1>1. ASSUME NEW p \in Threads \X Threads, NEW i \in 1..Len(posted'[p])
      PROVE  Sent(p, posted[p][i])'
  <2>1. SentNext(p, posted'[p][i])
    OBVIOUS
  <2>. QED
    BY <2>1, Zenon DEF Sent, SentNext, Past, PastNext
<1>2. ASSUME NEW p \in Threads \X Threads PROVE InOrder(posted[p])'
  <2>1. InOrder(posted'[p])
    OBVIOUS
  <2>. QED
    BY <2>1, Zenon DEF InOrder
<1>. QED
  BY <1>1, <1>2, Zenon DEF QueueInv

\* SeenInv in the next state.
LEMMA SeenFrom ==
  ASSUME \A c \in Connections : \A i \in 1..Len(seen'[c]) :
           /\ conn'[c] # "new"
           /\ PastNext(seen'[c][i].cmd)
           /\ \A p \in Threads \X Threads :
                p[2] = seen'[c][i].by => Before(seen'[c][i].cmd, addr'[c], posted'[p])
  PROVE  SeenInv'
<1>1. ASSUME NEW c \in Connections, NEW i \in 1..Len(seen'[c])
      PROVE  conn'[c] # "new" /\ Past(seen[c][i].cmd)'
  <2>1. conn'[c] # "new" /\ PastNext(seen'[c][i].cmd)
    OBVIOUS
  <2>. QED
    BY <2>1, Zenon DEF Past, PastNext
<1>2. ASSUME NEW c \in Connections, NEW i \in 1..Len(seen'[c]), NEW p \in Threads \X Threads,
             p[2] = seen'[c][i].by
      PROVE  Before(seen[c][i].cmd, addr[c], posted[p])'
  <2>1. Before(seen'[c][i].cmd, addr'[c], posted'[p])
    BY <1>2
  <2>. QED
    BY <2>1, Zenon DEF Before
<1>. QED
  BY <1>1, <1>2, Zenon DEF SeenInv

\* What is sent stays sent, until it is taken from its queue.
LEMMA SentKept ==
  ASSUME ListInv, Next, NEW p \in Threads \X Threads, NEW x \in Callback, Sent(p, x)
  PROVE  SentNext(p, x)
<1>1. x.cmd \in AnyCommand /\ x.cmd.from \in Connections
  BY DEF Callback, AnyCommand
<1>2. /\ Past(x.cmd) /\ conn[x.cmd.from] # "new" /\ thread[x.cmd.from] = p[1]
      /\ \E c \in Connections : conn[c] # "new" /\ addr[c] = x.to /\ thread[c] = p[2]
  BY DEF Sent, Past
<1>3. PastNext(x.cmd)
  BY <1>1, <1>2, PastKept
<1>4. thread'[x.cmd.from] = p[1]
  BY <1>1, <1>2, Stable
<1>5. \E c \in Connections : conn'[c] # "new" /\ addr'[c] = x.to /\ thread'[c] = p[2]
  BY <1>2, Stable
<1>. QED
  BY <1>3, <1>4, <1>5 DEF SentNext

\* A closed connection stays closed.
LEMMA ClosedStays ==
  ASSUME ListInv, Next, NEW c \in Connections, conn[c] = "closed"
  PROVE  conn'[c] = "closed"
<1>1. ASSUME NEW d \in Connections, Open(d) PROVE conn'[c] = "closed"
  BY <1>1 DEF Open, ListInv, MonitorTypes
<1>2. ASSUME NEW d \in Connections, Close(d) PROVE conn'[c] = "closed"
  BY <1>2 DEF Close, ListInv, MonitorTypes
<1>3. ASSUME UNCHANGED conn PROVE conn'[c] = "closed"
  BY <1>3
<1>. QED
  BY <1>1, <1>2, <1>3, Zenon DEF Next, MonitorCommand, OtherCommand, CheckMonitors, BroadcastCmd,
                          WriteToMonitorContext

\* So what was written to a connection stays explained.
LEMMA StrayKept ==
  ASSUME ListInv, Next, NEW c \in Connections, conn[c] # "new", NEW t,
         t = thread[c] \/ \E d \in Connections :
                            conn[d] = "closed" /\ addr[d] = addr[c] /\ thread[d] = t
  PROVE  t = thread'[c] \/ \E d \in Connections :
                             conn'[d] = "closed" /\ addr'[d] = addr'[c] /\ thread'[d] = t
<1>1. thread'[c] = thread[c] /\ addr'[c] = addr[c]
  BY Stable
<1>2. ASSUME NEW d \in Connections, conn[d] = "closed"
      PROVE  conn'[d] = "closed" /\ addr'[d] = addr[d] /\ thread'[d] = thread[d]
  BY <1>2, Stable, ClosedStays
<1>. QED
  BY <1>1, <1>2

\* Steps that neither post nor write.
LEMMA ShownStays ==
  ASSUME ListInv, QueueInv, SeenInv, ShownInOrder, StrayFromClosed, Next,
         UNCHANGED <<posted, seen>>
  PROVE  QueueInv' /\ SeenInv' /\ ShownInOrder' /\ StrayFromClosed'
<1>1. \A c \in Connections : conn[c] # "new" =>
        conn'[c] # "new" /\ thread'[c] = thread[c] /\ addr'[c] = addr[c]
  BY Stable
<1>2. ASSUME NEW p \in Threads \X Threads
      PROVE  (\A i \in 1..Len(posted[p]) : SentNext(p, posted[p][i])) /\ InOrder(posted[p])
  BY Items, SentKept DEF QueueInv, ListInv
<1>3. ASSUME NEW c \in Connections, NEW i \in 1..Len(seen[c])
      PROVE  /\ conn'[c] # "new"
             /\ PastNext(seen[c][i].cmd)
             /\ \A p \in Threads \X Threads :
                  p[2] = seen[c][i].by => Before(seen[c][i].cmd, addr'[c], posted[p])
  <2>1. /\ conn[c] # "new" /\ Past(seen[c][i].cmd) /\ seen[c][i].cmd \in AnyCommand
        /\ \A p \in Threads \X Threads :
             p[2] = seen[c][i].by => Before(seen[c][i].cmd, addr[c], posted[p])
    BY Items DEF SeenInv, ListInv
  <2>2. PastNext(seen[c][i].cmd)
    BY <2>1, PastKept
  <2>. QED
    BY <1>1, <2>1, <2>2
<1>4. QueueInv'
  BY <1>2, QueueFrom
<1>5. SeenInv'
  BY <1>3, SeenFrom
<1>6. ShownInOrder'
  BY DEF ShownInOrder
<1>7. StrayFromClosed'
  <2>1. ASSUME NEW c \in Connections, NEW i \in 1..Len(seen[c])
        PROVE  \/ seen[c][i].by = thread'[c]
               \/ \E d \in Connections :
                    conn'[d] = "closed" /\ addr'[d] = addr'[c] /\ thread'[d] = seen[c][i].by
    <3>1. /\ conn[c] # "new"
          /\ \/ seen[c][i].by = thread[c]
             \/ \E d \in Connections :
                  conn[d] = "closed" /\ addr[d] = addr[c] /\ thread[d] = seen[c][i].by
      BY DEF SeenInv, StrayFromClosed
    <3>. QED
      BY <3>1, StrayKept
  <2>. QED
    BY <2>1 DEF StrayFromClosed
<1>. QED
  BY <1>4, <1>5, <1>6, <1>7

\* A command of the same connection whose broadcast is over came before the one
\* that a thread is working on.
LEMMA PastBefore ==
  ASSUME MonitorTypes, DoingInv, NEW t \in Threads, doing[t].pc # "idle",
         NEW a \in AnyCommand, Past(a), a.from = doing[t].cmd.from
  PROVE  a.n < doing[t].cmd.n
<1>1. doing[t].cmd \in AnyCommand /\ doing[t].cmd.n = handled[doing[t].cmd.from]
  BY Busy DEF DoingInv
<1>2. a # doing[t].cmd /\ a.n <= doing[t].cmd.n
  BY <1>1 DEF Past
<1>3. a = [from |-> a.from, n |-> a.n]
      /\ doing[t].cmd = [from |-> doing[t].cmd.from, n |-> doing[t].cmd.n]
      /\ a.n \in Nat /\ doing[t].cmd.n \in Nat
  BY <1>1 DEF AnyCommand
<1>4. a.n # doing[t].cmd.n
  BY <1>2, <1>3, Zenon
<1>. QED
  BY <1>2, <1>3, <1>4

\* A broadcast that ends is over: one thread at a time works on a connection.
LEMMA PastNow ==
  ASSUME ListInv, DoingInv, NEW t \in Threads, BroadcastCmd(t), NEW a, a = doing[t].cmd
  PROVE  PastNext(a)
<1>1. /\ doing[t].pc # "idle" /\ doing'[t] = Idle
      /\ \A u \in Threads : u # t => doing'[u] = doing[u]
      /\ UNCHANGED <<conn, thread, handled>>
  BY BroadcastIs, Zenon DEF BroadcastCmd
<1>2. conn[a.from] = "open" /\ thread[a.from] = t /\ a.n = handled[a.from]
      /\ handled[a.from] \in Nat
  BY <1>1, Busy DEF DoingInv, ListInv, MonitorTypes
<1>3. ASSUME NEW u \in Threads, doing'[u].pc # "idle" PROVE doing'[u].cmd # a
  <2>1. u # t /\ doing'[u] = doing[u]
    BY <1>1, <1>3 DEF Idle
  <2>2. thread[doing[u].cmd.from] = u
    BY <1>3, <2>1 DEF DoingInv
  <2>. QED
    BY <1>2, <2>1, <2>2
<1>. QED
  BY <1>1, <1>2, <1>3 DEF PastNext

\* A broadcast puts its callbacks behind those of the earlier commands.
LEMMA BroadcastShown ==
  ASSUME ListInv, DoingInv, QueueInv, SeenInv, NEW t \in Threads, BroadcastCmd(t)
  PROVE  QueueInv' /\ SeenInv'
<1> DEFINE cmd == doing[t].cmd
           m(p) == Len(posted[p])
           n(p) == Len(posted'[p])
<1>1. doing[t].pc = "post" /\ UNCHANGED <<conn, thread, addr, seen>> /\ Next
  BY Zenon DEF BroadcastCmd, Next
<1>2. /\ cmd \in AnyCommand /\ cmd.from \in Connections /\ thread[cmd.from] = t
      /\ \A a \in AnyCommand : Past(a) /\ a.from = cmd.from => a.n < cmd.n
  <2>1. cmd \in AnyCommand /\ cmd.from \in Connections /\ thread[cmd.from] = t
    BY <1>1, Busy DEF ListInv, DoingInv
  <2>2. \A a \in AnyCommand : Past(a) /\ a.from = cmd.from => a.n < cmd.n
    BY <1>1, PastBefore DEF ListInv
  <2>. QED
    BY <2>1, <2>2
<1>3. /\ \A p \in Threads \X Threads :
           /\ m(p) \in Nat /\ n(p) \in Nat
           /\ Row(t, cmd, Len(monitors), p, posted[p], posted'[p])
      /\ \A i \in 1..Len(monitors) : /\ HolderOf(monitors[i]) \in Connections
                                     /\ conn[HolderOf(monitors[i])] = "open"
                                     /\ addr[HolderOf(monitors[i])] = monitors[i]
  <2>1. posted' \in [Threads \X Threads -> Seq(Callback)]
    BY BroadcastIs, Zenon DEF Posted
  <2>2. \A p \in Threads \X Threads : m(p) \in Nat /\ n(p) \in Nat
    BY <2>1, Items DEF ListInv
  <2>. QED
    BY <2>2, BroadcastIs, Zenon DEF Posted
<1>4. PastNext(cmd)
  BY PastNow
\* A callback is an old one, in its old place, or a new one behind them.
<1>5. ASSUME NEW p \in Threads \X Threads, NEW i \in 1..n(p)
      PROVE  \/ i \in 1..m(p) /\ posted'[p][i] = posted[p][i]
             \/ i > m(p) /\ posted'[p][i].cmd = cmd /\ SentNext(p, posted'[p][i])
  <2>1. CASE i \in 1..m(p)
    BY <1>3, <2>1 DEF Row
  <2>2. CASE i \notin 1..m(p)
    <3>1. i \in (m(p) + 1)..n(p) /\ i > m(p)
      BY <1>3, <2>2
    <3> DEFINE x == posted'[p][i]
    <3>2. /\ p[1] = t /\ x.cmd = cmd /\ p[2] = thread[HolderOf(x.to)]
          /\ \E j \in 1..Len(monitors) : monitors[j] = x.to
      BY <1>3, <3>1 DEF Row, CallbackThread
    <3> HIDE DEF x
    <3>3. \E c \in Connections : conn[c] # "new" /\ addr[c] = x.to /\ thread[c] = p[2]
      BY <1>3, <3>2
    <3>4. SentNext(p, x)
      BY <1>1, <1>2, <1>4, <3>2, <3>3 DEF SentNext
    <3>. QED
      BY <3>1, <3>2, <3>4 DEF x
  <2>. QED
    BY <2>1, <2>2
<1>6. \A p \in Threads \X Threads : \A i, j \in 1..n(p) :
        i > m(p) /\ j > m(p) /\ posted'[p][i].to = posted'[p][j].to => i = j
  <2>1. \A p \in Threads \X Threads : \A i \in 1..n(p) : i > m(p) => i \in (m(p) + 1)..n(p)
    BY <1>3
  <2>. QED
    BY <1>3, <2>1 DEF Row
<1>7. /\ \A p \in Threads \X Threads : \A i \in 1..m(p) :
           /\ Sent(p, posted[p][i]) /\ Past(posted[p][i].cmd)
           /\ posted[p][i] \in Callback /\ posted[p][i].cmd \in AnyCommand
      /\ \A p \in Threads \X Threads : InOrder(posted[p])
      /\ \A c \in Connections : \A i \in 1..Len(seen[c]) :
           /\ conn[c] # "new" /\ Past(seen[c][i].cmd) /\ seen[c][i].cmd \in AnyCommand
           /\ \A p \in Threads \X Threads :
                p[2] = seen[c][i].by => Before(seen[c][i].cmd, addr[c], posted[p])
  BY Items DEF QueueInv, SeenInv, ListInv, Sent
<1> HIDE DEF cmd, m, n
<1>8. ASSUME NEW p \in Threads \X Threads, NEW i \in 1..n(p) PROVE SentNext(p, posted'[p][i])
  BY <1>1, <1>5, <1>7, SentKept
<1>9. ASSUME NEW p \in Threads \X Threads PROVE InOrder(posted'[p])
  <2> SUFFICES ASSUME NEW i \in 1..n(p), NEW j \in 1..n(p), i < j,
                      posted'[p][i].cmd.from = posted'[p][j].cmd.from,
                      posted'[p][i].to = posted'[p][j].to
               PROVE  posted'[p][i].cmd.n < posted'[p][j].cmd.n
    BY DEF InOrder, n
  <2>0. m(p) \in Nat /\ n(p) \in Nat
    BY <1>3
  <2>1. CASE j \in 1..m(p)
    <3>1. i \in 1..m(p)
      BY <2>0, <2>1
    <3>2. posted'[p][i] = posted[p][i] /\ posted'[p][j] = posted[p][j]
      BY <1>5, <2>0, <2>1, <3>1
    <3>. QED
      BY <1>7, <2>1, <3>1, <3>2 DEF InOrder, m
  <2>2. CASE j \notin 1..m(p) /\ i \in 1..m(p)
    <3>1. posted'[p][i] = posted[p][i] /\ posted'[p][j].cmd = cmd
      BY <1>5, <2>0, <2>2
    <3>. QED
      BY <1>2, <1>7, <2>2, <3>1
  <2>3. CASE j \notin 1..m(p) /\ i \notin 1..m(p)
    <3>1. i > m(p) /\ j > m(p)
      BY <1>5, <2>3
    <3>2. i = j
      BY <1>6, <3>1
    <3>. QED
      BY <3>2
  <2>. QED
    BY <2>1, <2>2, <2>3
<1>10. ASSUME NEW c \in Connections, NEW i \in 1..Len(seen[c])
       PROVE  /\ conn[c] # "new"
              /\ PastNext(seen[c][i].cmd)
              /\ \A p \in Threads \X Threads :
                   p[2] = seen[c][i].by => Before(seen[c][i].cmd, addr[c], posted'[p])
  <2>1. conn[c] # "new" /\ PastNext(seen[c][i].cmd)
    BY <1>1, <1>7, PastKept
  <2>2. ASSUME NEW p \in Threads \X Threads, p[2] = seen[c][i].by,
               NEW j \in 1..n(p), posted'[p][j].to = addr[c],
               posted'[p][j].cmd.from = seen[c][i].cmd.from
        PROVE  seen[c][i].cmd.n < posted'[p][j].cmd.n
    <3>1. CASE j \in 1..m(p) /\ posted'[p][j] = posted[p][j]
      BY <1>7, <2>2, <3>1 DEF Before, m
    <3>2. CASE posted'[p][j].cmd = cmd
      BY <1>2, <1>7, <2>2, <3>2
    <3>. QED
      BY <1>5, <3>1, <3>2
  <2>. QED
    BY <2>1, <2>2 DEF Before, n
<1>11. QueueInv'
  BY <1>8, <1>9, QueueFrom DEF n
<1>12. SeenInv'
  BY <1>1, <1>10, SeenFrom
<1>. QED
  BY <1>11, <1>12

\* What a callback writes comes after what its monitor was shown of the same
\* connection, and before what is still queued.
LEMMA WriteShown ==
  ASSUME ListInv, QueueInv, SeenInv, ShownInOrder, StrayFromClosed,
         NEW s \in Threads, NEW t \in Threads, WriteToMonitorContext(s, t)
  PROVE  QueueInv' /\ SeenInv' /\ ShownInOrder' /\ StrayFromClosed'
<1>1. UNCHANGED <<conn, thread, addr, monitors, handled, doing, since>>
  BY DEF WriteToMonitorContext
<1>2. PICK r, cb : Wrote(s, t, r, cb)
  BY WriteIs
<1> DEFINE m(p) == Len(posted[p])
           n(p) == Len(posted'[p])
           h == HolderOf(cb.to)
           note == [cmd |-> cb.cmd, by |-> t]
<1>3. /\ \A p \in Threads \X Threads :
           /\ m(p) \in Nat
           /\ \A i \in 1..m(p) : posted[p][i].cmd \in AnyCommand
      /\ \A c \in Connections : Len(seen[c]) \in Nat
  BY Items DEF ListInv
<1>4. /\ r \in Threads \X Threads /\ r[1] = s /\ r[2] = t
      /\ cb.cmd \in AnyCommand /\ 1 \in 1..m(r) /\ posted[r][1] = cb
  BY <1>2 DEF Wrote
\* What is still queued was queued before, in the same order and behind cb.
<1>5. ASSUME NEW p \in Threads \X Threads
      PROVE  /\ n(p) = IF p = r THEN m(p) - 1 ELSE m(p)
             /\ \A i \in 1..n(p) :
                  IF p = r THEN i + 1 \in 1..m(p) /\ 1 < i + 1 /\ posted'[p][i] = posted[p][i + 1]
                  ELSE i \in 1..m(p) /\ posted'[p][i] = posted[p][i]
  <2>1. CASE p = r
    <3>1. n(p) = m(p) - 1 /\ \A i \in 1..(m(p) - 1) : posted'[p][i] = posted[p][i + 1]
      BY <1>2, <2>1, Zenon DEF Wrote
    <3>2. \A i \in 1..(m(p) - 1) : i + 1 \in 1..m(p) /\ 1 < i + 1
      BY <1>3
    <3>. QED
      BY <2>1, <3>1, <3>2
  <2>2. CASE p # r
    <3>1. posted'[p] = posted[p]
      BY <1>2, <2>2 DEF Wrote
    <3>. QED
      BY <2>2, <3>1
  <2>. QED
    BY <2>1, <2>2
\* Only the holder of the address is shown something, and that is cb.
<1>7. ASSUME NEW c \in Connections
      PROVE  \/ seen'[c] = seen[c]
             \/ /\ c = h /\ conn[c] = "open" /\ addr[c] = cb.to
                /\ Len(seen'[c]) = Len(seen[c]) + 1
                /\ \A i \in 1..Len(seen[c]) : seen'[c][i] = seen[c][i]
                /\ seen'[c][Len(seen[c]) + 1].cmd = cb.cmd
                /\ seen'[c][Len(seen[c]) + 1].by = t
  <2>1. CASE IsMonitor(cb.to) /\ c = h
    <3>1. seen' = [seen EXCEPT ![h] = Append(seen[h], note)] /\ conn[h] = "open" /\ addr[h] = cb.to
      BY <1>2, <2>1 DEF Wrote
    <3>2. seen \in [Connections -> Seq(Note)] /\ seen[c] \in Seq(Note)
      BY DEF ListInv, MonitorTypes
    <3>3. note \in Note /\ note.cmd = cb.cmd /\ note.by = t
      BY <1>4 DEF Note
    <3> HIDE DEF note, h
    <3>4. seen'[c] = Append(seen[c], note)
      BY <2>1, <3>1, <3>2
    <3>5. /\ Len(Append(seen[c], note)) = Len(seen[c]) + 1
          /\ \A i \in 1..Len(seen[c]) : Append(seen[c], note)[i] = seen[c][i]
          /\ Append(seen[c], note)[Len(seen[c]) + 1] = note
      BY <3>2, <3>3
    <3>. QED
      BY <2>1, <3>1, <3>3, <3>4, <3>5, ZenonT(30)
  <2>2. CASE ~(IsMonitor(cb.to) /\ c = h)
    <3>1. seen \in [Connections -> Seq(Note)]
      BY DEF ListInv, MonitorTypes
    <3>2. IF IsMonitor(cb.to)
          THEN seen' = [seen EXCEPT ![h] = Append(seen[h], note)] ELSE seen' = seen
      BY <1>2 DEF Wrote
    <3> HIDE DEF note, h
    <3>. QED
      BY <2>2, <3>1, <3>2
  <2>. QED
    BY <2>1, <2>2
<1>8. /\ \A p \in Threads \X Threads : \A i \in 1..m(p) :
           Sent(p, posted[p][i]) /\ posted[p][i] \in Callback
      /\ \A p \in Threads \X Threads : InOrder(posted[p])
      /\ \A c \in Connections : \A i \in 1..Len(seen[c]) :
           /\ conn[c] # "new" /\ Past(seen[c][i].cmd) /\ seen[c][i].cmd \in AnyCommand
           /\ \A p \in Threads \X Threads :
                p[2] = seen[c][i].by => Before(seen[c][i].cmd, addr[c], posted[p])
  BY Items DEF QueueInv, SeenInv, ListInv
<1> HIDE DEF m, n, h, note
<1>9. /\ Past(cb.cmd) /\ thread[cb.cmd.from] = s
      /\ \E d \in Connections : conn[d] # "new" /\ addr[d] = cb.to /\ thread[d] = t
  <2>1. Sent(r, cb)
    BY <1>4, <1>8
  <2>. QED
    BY <1>4, <2>1 DEF Sent
<1>10. Next
  BY DEF Next
<1>11. ASSUME NEW p \in Threads \X Threads, NEW i \in 1..n(p)
       PROVE  \E k \in 1..m(p) : posted'[p][i] = posted[p][k] /\ (p = r => 1 < k)
  BY <1>5
<1>12. ASSUME NEW p \in Threads \X Threads, NEW i \in 1..n(p) PROVE SentNext(p, posted'[p][i])
  BY <1>8, <1>10, <1>11, SentKept
<1>13. ASSUME NEW p \in Threads \X Threads PROVE InOrder(posted'[p])
  <2> SUFFICES ASSUME NEW i \in 1..n(p), NEW j \in 1..n(p), i < j,
                      posted'[p][i].cmd.from = posted'[p][j].cmd.from,
                      posted'[p][i].to = posted'[p][j].to
               PROVE  posted'[p][i].cmd.n < posted'[p][j].cmd.n
    BY DEF InOrder, n
  <2>1. PICK k, l \in 1..m(p) :
          k < l /\ posted'[p][i] = posted[p][k] /\ posted'[p][j] = posted[p][l]
    <3>1. i + 1 < j + 1
      OBVIOUS
    <3>. QED
      BY <1>5, <3>1
  <2>. QED
    BY <1>8, <2>1 DEF InOrder, m
\* What is still queued for the same thread and address from its connection came
\* later.
<1>14. ASSUME NEW p \in Threads \X Threads, p[2] = t PROVE Before(cb.cmd, cb.to, posted'[p])
  <2> SUFFICES ASSUME NEW j \in 1..n(p), posted'[p][j].to = cb.to,
                      posted'[p][j].cmd.from = cb.cmd.from
               PROVE  cb.cmd.n < posted'[p][j].cmd.n
    BY DEF Before, n
  <2>1. PICK k \in 1..m(p) : posted'[p][j] = posted[p][k] /\ (p = r => 1 < k)
    BY <1>11
  <2>2. thread[posted[p][k].cmd.from] = p[1]
    BY <1>8 DEF Sent
  <2>3. p[1] = s /\ p[2] = t
    BY <1>9, <1>14, <2>1, <2>2
  <2>4. p = r
    BY <1>4, <2>3
  <2>. QED
    BY <1>4, <1>8, <2>1, <2>4 DEF InOrder, m
\* A note is an old one, in its old place, or the new one behind them.
<1>15. ASSUME NEW c \in Connections, NEW i \in 1..Len(seen'[c])
       PROVE  \/ i \in 1..Len(seen[c]) /\ seen'[c][i] = seen[c][i]
              \/ /\ i = Len(seen[c]) + 1 /\ conn[c] # "new" /\ addr[c] = cb.to
                 /\ seen'[c][i].cmd = cb.cmd /\ seen'[c][i].by = t
  <2>1. CASE seen'[c] = seen[c]
    BY <2>1
  <2>2. CASE seen'[c] # seen[c]
    <3>1. Len(seen'[c]) = Len(seen[c]) + 1
      BY <1>7, <2>2
    <3>2. i \in 1..Len(seen[c]) \/ i = Len(seen[c]) + 1
      BY <1>3, <3>1
    <3>. QED
      BY <1>7, <2>2, <3>1, <3>2
  <2>. QED
    BY <2>1, <2>2
<1>16. ASSUME NEW c \in Connections, NEW i \in 1..Len(seen'[c])
       PROVE  /\ conn[c] # "new"
              /\ PastNext(seen'[c][i].cmd)
              /\ \A p \in Threads \X Threads :
                   p[2] = seen'[c][i].by => Before(seen'[c][i].cmd, addr[c], posted'[p])
  <2>1. CASE i \in 1..Len(seen[c]) /\ seen'[c][i] = seen[c][i]
    <3>1. conn[c] # "new" /\ PastNext(seen'[c][i].cmd)
      BY <1>8, <1>10, <2>1, PastKept
    <3>2. ASSUME NEW p \in Threads \X Threads, p[2] = seen[c][i].by,
                 NEW j \in 1..n(p), posted'[p][j].to = addr[c],
                 posted'[p][j].cmd.from = seen[c][i].cmd.from
          PROVE  seen[c][i].cmd.n < posted'[p][j].cmd.n
      <4>1. PICK k \in 1..m(p) : posted'[p][j] = posted[p][k]
        BY <1>11
      <4>2. Before(seen[c][i].cmd, addr[c], posted[p])
        BY <1>8, <2>1, <3>2
      <4>. QED
        BY <3>2, <4>1, <4>2 DEF Before, m
    <3>3. \A p \in Threads \X Threads :
            p[2] = seen[c][i].by => Before(seen[c][i].cmd, addr[c], posted'[p])
      BY <3>2 DEF Before, n
    <3>. QED
      BY <2>1, <3>1, <3>3
  <2>2. CASE /\ conn[c] # "new" /\ addr[c] = cb.to
             /\ seen'[c][i].cmd = cb.cmd /\ seen'[c][i].by = t
    <3>1. PastNext(cb.cmd)
      BY <1>4, <1>9, <1>10, PastKept
    <3>. QED
      BY <1>14, <2>2, <3>1
  <2>. QED
    BY <1>15, <2>1, <2>2
<1>17. QueueInv'
  BY <1>12, <1>13, QueueFrom DEF n
<1>18. SeenInv'
  BY <1>1, <1>16, SeenFrom
<1>19. ShownInOrder'
  <2> SUFFICES ASSUME NEW c \in Connections,
                      NEW i \in 1..Len(seen'[c]), NEW j \in 1..Len(seen'[c]),
                      i < j, seen'[c][i].by = seen'[c][j].by,
                      seen'[c][i].cmd.from = seen'[c][j].cmd.from
      PROVE seen'[c][i].cmd.n < seen'[c][j].cmd.n
    BY DEF ShownInOrder
  <2>0. Len(seen[c]) \in Nat
    BY <1>3
  <2>1. CASE j \in 1..Len(seen[c])
    <3>1. i \in 1..Len(seen[c])
      BY <2>0, <2>1
    <3>2. seen'[c][i] = seen[c][i] /\ seen'[c][j] = seen[c][j]
      BY <1>15, <2>0, <2>1, <3>1
    <3>. QED
      BY <2>1, <3>1, <3>2 DEF ShownInOrder
  <2>2. CASE j \notin 1..Len(seen[c])
    <3>1. /\ j = Len(seen[c]) + 1 /\ addr[c] = cb.to
          /\ seen'[c][j].cmd = cb.cmd /\ seen'[c][j].by = t
      BY <1>15, <2>2
    <3>2. i \in 1..Len(seen[c])
      BY <2>0, <3>1
    <3>3. seen'[c][i] = seen[c][i]
      BY <1>15, <2>0, <3>2
    <3>4. Before(seen[c][i].cmd, addr[c], posted[r])
      BY <1>4, <1>8, <3>1, <3>2, <3>3
    <3>. QED
      BY <1>4, <3>1, <3>3, <3>4 DEF Before, m
  <2>. QED
    BY <2>1, <2>2
\* Another connection that was opened at the address of an open one is closed.
<1>20. StrayFromClosed'
  <2>1. ASSUME NEW c \in Connections, NEW i \in 1..Len(seen'[c])
        PROVE  \/ seen'[c][i].by = thread[c]
               \/ \E d \in Connections :
                    conn[d] = "closed" /\ addr[d] = addr[c] /\ thread[d] = seen'[c][i].by
    <3>1. CASE i \in 1..Len(seen[c]) /\ seen'[c][i] = seen[c][i]
      BY <3>1 DEF StrayFromClosed
    <3>2. CASE ~(i \in 1..Len(seen[c]) /\ seen'[c][i] = seen[c][i])
      <4>1. seen'[c] # seen[c]
        BY <3>2
      <4>2. conn[c] = "open" /\ addr[c] = cb.to /\ seen'[c][i].by = t
        BY <1>7, <1>15, <3>2, <4>1
      <4>3. PICK d \in Connections : conn[d] # "new" /\ addr[d] = cb.to /\ thread[d] = t
        BY <1>9
      <4>4. conn[d] \in {"new", "open", "closed"}
        BY DEF ListInv, MonitorTypes
      <4>5. d = c \/ conn[d] = "closed"
        BY <4>2, <4>3, <4>4 DEF ListInv, ContextInv
      <4>. QED
        BY <4>2, <4>3, <4>5
    <3>. QED
      BY <3>1, <3>2
  <2>. QED
    BY <1>1, <2>1 DEF StrayFromClosed
<1>. QED
  BY <1>17, <1>18, <1>19, <1>20

\* A connection that registered stays in the list until it closes: only close()
\* takes a context out, and it takes out its own.
LEMMA SinceStep == ASSUME ListInv, SinceInv, Next PROVE SinceInv'
<1>0. \A c \in Connections : conn[c] # "new" => conn'[c] # "new" /\ addr'[c] = addr[c]
  BY Stable
<1>1. ASSUME NEW c \in Connections, Open(c) PROVE SinceInv'
  <2>1. /\ UNCHANGED <<since, monitors>>
        /\ \A d \in Connections : conn[d] # "new" => conn'[d] = conn[d]
    BY <1>1 DEF Open, ListInv, MonitorTypes
  <2>. QED
    BY <1>0, <2>1 DEF SinceInv, IsMonitor
<1>2. ASSUME NEW c \in Connections, MonitorCommand(c) PROVE SinceInv'
  <2>1. /\ conn[c] = "open" /\ AddMonitor(c) /\ UNCHANGED <<conn, addr>>
        /\ since' = [since EXCEPT ![c] = IF IsMonitor(addr[c]) THEN @ ELSE handled]
    BY <1>2, Zenon DEF MonitorCommand, CanHandle
  <2>2. IsMonitor(addr[c])' /\ \A a : IsMonitor(a) => IsMonitor(a)'
    BY <2>1, AddList
  <2>3. /\ \E i \in 1..Len(monitors') : monitors'[i] = addr[c]
        /\ \A a : IsMonitor(a) => \E i \in 1..Len(monitors') : monitors'[i] = a
    BY <2>1, <2>2 DEF IsMonitor
  <2>4. \A d \in Connections : d # c => since'[d] = since[d]
    BY <2>1 DEF ListInv, MonitorTypes
  <2> SUFFICES ASSUME NEW d \in Connections, since'[d] # <<>>
               PROVE  /\ conn[d] # "new"
                      /\ conn[d] = "open" => \E i \in 1..Len(monitors') : monitors'[i] = addr[d]
    BY <2>1 DEF SinceInv, IsMonitor
  <2>5. CASE d = c
    BY <2>1, <2>3, <2>5
  <2>6. CASE d # c
    BY <2>3, <2>4, <2>6 DEF SinceInv
  <2>. QED
    BY <2>5, <2>6
<1>3. ASSUME NEW c \in Connections, Close(c) PROVE SinceInv'
  <2>1. /\ UNCHANGED <<since, addr>> /\ conn[c] = "open" /\ conn'[c] = "closed"
        /\ \A d \in Connections : d # c => conn'[d] = conn[d]
    BY <1>3 DEF Close, ListInv, MonitorTypes
  <2>2. \A a : IsMonitor(a)' <=> IsMonitor(a) /\ a # addr[c]
    BY <1>3, CloseIs
  <2>3. \A a : IsMonitor(a) /\ a # addr[c] => \E i \in 1..Len(monitors') : monitors'[i] = a
    BY <2>2 DEF IsMonitor
  <2> SUFFICES ASSUME NEW d \in Connections, since[d] # <<>>
               PROVE  /\ conn'[d] # "new"
                      /\ conn'[d] = "open" => \E i \in 1..Len(monitors') : monitors'[i] = addr[d]
    BY <2>1 DEF SinceInv, IsMonitor
  <2>4. CASE d = c
    BY <2>1, <2>4
  <2>5. CASE d # c
    <3>1. conn[d] # "new" /\ conn'[d] = conn[d] /\ (conn[d] = "open" => IsMonitor(addr[d]))
      BY <2>1, <2>5 DEF SinceInv
    <3>2. conn[d] = "open" => addr[d] # addr[c]
      BY <2>1, <2>5 DEF ListInv, ContextInv
    <3>. QED
      BY <2>3, <3>1, <3>2
  <2>. QED
    BY <2>4, <2>5
<1>4. ASSUME UNCHANGED <<since, conn, addr, monitors>> PROVE SinceInv'
  BY <1>4 DEF SinceInv, IsMonitor
<1>. QED
  BY <1>1, <1>2, <1>3, <1>4, Zenon DEF Next, OtherCommand, CheckMonitors, BroadcastCmd,
                                WriteToMonitorContext

\* The command is shown to c or on its way to it, in the next state.
InProgressNext(cmd, c) ==
  \/ \E i \in 1..Len(seen'[c]) : seen'[c][i].cmd = cmd
  \/ \E t \in Threads : doing'[t].pc # "idle" /\ doing'[t].cmd = cmd
  \/ \E p \in Threads \X Threads :
       \E i \in 1..Len(posted'[p]) : posted'[p][i] = [cmd |-> cmd, to |-> addr'[c]]

\* A command on its way to a monitor stays on its way until it is shown: the
\* look without the lock finds the monitor in the list, the broadcast posts to it
\* and the callback finds it there again.
LEMMA ProgressKept ==
  ASSUME ListInv, DoingInv, Next, NEW c \in Connections, conn[c] = "open",
         IsMonitor(addr[c]), NEW cmd, cmd.from # c, InProgress(cmd, c)
  PROVE  InProgressNext(cmd, c)
<1>0. addr'[c] = addr[c]
  BY Stable
<1>1. ASSUME UNCHANGED <<seen, doing, posted>> PROVE InProgressNext(cmd, c)
  BY <1>0, <1>1 DEF InProgress, InProgressNext
<1>2. ASSUME NEW d \in Connections, MonitorCommand(d) \/ OtherCommand(d)
      PROVE  InProgressNext(cmd, c)
  <2>1. CanHandle(d) /\ Handled(d) /\ UNCHANGED <<posted, seen>>
    BY <1>2 DEF MonitorCommand, OtherCommand
  <2>2. /\ doing[thread[d]] = Idle
        /\ \A t \in Threads : t # thread[d] => doing'[t] = doing[t]
    BY <2>1, HandledTypes, ZenonT(30) DEF ListInv
  <2>3. \A t \in Threads : doing[t].pc # "idle" => doing'[t] = doing[t]
    BY <2>2 DEF Idle
  <2>. QED
    BY <1>0, <2>1, <2>3, ZenonT(30) DEF InProgress, InProgressNext
<1>3. ASSUME NEW t \in Threads, CheckMonitors(t) PROVE InProgressNext(cmd, c)
  <2>1. UNCHANGED <<posted, seen>>
    BY <1>3 DEF CheckMonitors
  <2>2. monitors # <<>>
    <3>1. Len(monitors) # 0
      <4>1. monitors \in Seq(Addresses)
        BY DEF ListInv, MonitorTypes
      <4>. QED
        BY <4>1 DEF IsMonitor
    <3>. QED
      BY <3>1
  <2>3. \A u \in Threads : doing[u].pc # "idle" =>
          doing'[u].pc # "idle" /\ doing'[u].cmd = doing[u].cmd
    BY <1>3, <2>2, CheckIs, ZenonT(30) DEF ListInv
  <2>. QED
    BY <1>0, <2>1, <2>3 DEF InProgress, InProgressNext
<1>4. ASSUME NEW t \in Threads, BroadcastCmd(t) PROVE InProgressNext(cmd, c)
  <2>1. /\ UNCHANGED seen /\ doing[t].pc = "post"
        /\ \A u \in Threads : u # t => doing'[u] = doing[u]
        /\ Posted(t, doing[t].cmd, Len(monitors), posted')
    BY <1>4, BroadcastIs, ZenonT(30) DEF BroadcastCmd
  <2>2. CASE \E i \in 1..Len(seen[c]) : seen[c][i].cmd = cmd
    BY <2>1, <2>2 DEF InProgressNext
  <2>3. CASE \E u \in Threads : u # t /\ doing[u].pc # "idle" /\ doing[u].cmd = cmd
    BY <2>1, <2>3 DEF InProgressNext
  <2>4. CASE doing[t].cmd = cmd
    <3>1. cmd.from \in Connections /\ conn[cmd.from] = "open"
      BY <2>1, <2>4, Busy DEF ListInv, DoingInv
    <3>2. PICK j \in 1..Len(monitors) : monitors[j] = addr[c]
      BY DEF IsMonitor
    <3>3. monitors[j] # addr[cmd.from]
      BY <3>1, <3>2 DEF ListInv, ContextInv
    <3> DEFINE q == <<t, CallbackThread(monitors[j], t)>>
    <3>4. \E k \in 1..Len(posted'[q]) : posted'[q][k] = [cmd |-> cmd, to |-> monitors[j]]
      BY <2>1, <2>4, <3>3, ZenonT(30) DEF Posted
    <3>5. q \in Threads \X Threads
      <4>1. HolderOf(monitors[j]) \in Connections /\ conn[HolderOf(monitors[j])] = "open"
        BY <1>4, BroadcastIs
      <4>. QED
        BY <4>1 DEF CallbackThread, ListInv, ContextInv
    <3> HIDE DEF q
    <3>. QED
      BY <1>0, <3>2, <3>4, <3>5 DEF InProgressNext
  <2>5. CASE \E p \in Threads \X Threads :
               \E i \in 1..Len(posted[p]) : posted[p][i] = [cmd |-> cmd, to |-> addr[c]]
    <3>0. PICK p \in Threads \X Threads :
            \E i \in 1..Len(posted[p]) : posted[p][i] = [cmd |-> cmd, to |-> addr[c]]
      BY <2>5
    <3>1. PICK i \in 1..Len(posted[p]) : posted[p][i] = [cmd |-> cmd, to |-> addr[c]]
      BY <3>0
    <3>2. /\ Len(posted'[p]) >= Len(posted[p]) /\ posted'[p][i] = posted[p][i]
      BY <2>1, Zenon DEF Posted, Row
    <3>3. Len(posted[p]) \in Nat /\ Len(posted'[p]) \in Nat
      <4>1. posted' \in [Threads \X Threads -> Seq(Callback)]
        BY <2>1 DEF Posted
      <4>. QED
        BY <4>1, Items DEF ListInv
    <3>4. i \in 1..Len(posted'[p])
      BY <3>2, <3>3
    <3>. QED
      BY <1>0, <3>1, <3>2, <3>4 DEF InProgressNext
  <2>. QED
    BY <2>2, <2>3, <2>4, <2>5 DEF InProgress
<1>5. ASSUME NEW s \in Threads, NEW t \in Threads, WriteToMonitorContext(s, t)
      PROVE  InProgressNext(cmd, c)
  <2>0. UNCHANGED doing
    BY <1>5, Zenon DEF WriteToMonitorContext
  <2>1. PICK r, cb : Wrote(s, t, r, cb)
    BY <1>5, WriteIs
  <2> DEFINE note == [cmd |-> cb.cmd, by |-> t]
             n == Len(seen[c])
  <2>2. seen \in [Connections -> Seq(Note)] /\ seen[c] \in Seq(Note) /\ n \in Nat
    BY Items, ZenonT(30) DEF ListInv, MonitorTypes
  <2>3. note \in Note /\ note.cmd = cb.cmd
    BY <2>1, ZenonT(30) DEF Wrote, Note
  <2>4. IF IsMonitor(cb.to)
        THEN /\ HolderOf(cb.to) \in Connections
             /\ seen' = [seen EXCEPT ![HolderOf(cb.to)] = Append(seen[HolderOf(cb.to)], note)]
        ELSE seen' = seen
    BY <2>1 DEF Wrote
  <2> HIDE DEF note
  <2>5. seen'[c] = seen[c] \/ seen'[c] = Append(seen[c], note)
    BY <2>2, <2>4
  <2>6. /\ Len(Append(seen[c], note)) = n + 1 /\ Append(seen[c], note)[n + 1] = note
        /\ \A i \in 1..n : Append(seen[c], note)[i] = seen[c][i]
    <3> DEFINE q == seen[c]
    <3>1. q \in Seq(Note) /\ note \in Note
      BY <2>2, <2>3, Zenon
    <3> HIDE DEF q, n
    <3>2. /\ Len(Append(q, note)) = Len(q) + 1 /\ Append(q, note)[Len(q) + 1] = note
          /\ \A i \in 1..Len(q) : Append(q, note)[i] = q[i]
      BY ONLY <3>1, AppendIs
    <3>. QED
      BY <3>2, Zenon DEF q, n
  <2>7. n + 1 \in 1..(n + 1) /\ \A i \in 1..n : i \in 1..(n + 1)
    <3> HIDE DEF n
    <3>. QED
      BY ONLY <2>2
  <2>8. CASE \E i \in 1..Len(seen[c]) : seen[c][i].cmd = cmd
    <3>1. \A i \in 1..n : i \in 1..Len(seen'[c]) /\ seen'[c][i] = seen[c][i]
      BY <2>5, <2>6, <2>7
    <3>. QED
      BY <2>8, <3>1 DEF InProgressNext
  <2>9. CASE \E u \in Threads : doing[u].pc # "idle" /\ doing[u].cmd = cmd
    BY <2>0, <2>9 DEF InProgressNext
  <2>10. CASE \E p \in Threads \X Threads :
                \E i \in 1..Len(posted[p]) : posted[p][i] = [cmd |-> cmd, to |-> addr[c]]
    <3>0. PICK p \in Threads \X Threads :
            \E i \in 1..Len(posted[p]) : posted[p][i] = [cmd |-> cmd, to |-> addr[c]]
      BY <2>10
    <3>1. PICK i \in 1..Len(posted[p]) : posted[p][i] = [cmd |-> cmd, to |-> addr[c]]
      BY <3>0
    <3>2. CASE p # r
      <4>1. posted'[p] = posted[p]
        BY <2>1, <3>2, ZenonT(30) DEF Wrote
      <4>. QED
        BY <1>0, <3>1, <4>1 DEF InProgressNext
    <3>3. CASE p = r /\ i # 1
      <4>1. /\ Len(posted[r]) \in Nat /\ Len(posted'[r]) = Len(posted[r]) - 1
            /\ \A k \in 1..(Len(posted[r]) - 1) : posted'[r][k] = posted[r][k + 1]
        BY <2>1 DEF Wrote
      <4>2. i - 1 \in 1..Len(posted'[p]) /\ i - 1 \in 1..(Len(posted[r]) - 1) /\ (i - 1) + 1 = i
        BY <3>3, <4>1
      <4>3. posted'[p][i - 1] = posted[p][i]
        BY <3>3, <4>1, <4>2
      <4>. QED
        BY <1>0, <3>1, <4>2, <4>3, ZenonT(30) DEF InProgressNext
    <3>4. CASE p = r /\ i = 1
      <4>1. cb = [cmd |-> cmd, to |-> addr[c]]
        BY <2>1, <3>1, <3>4, ZenonT(30) DEF Wrote
      <4>2. cb.to = addr[c] /\ cb.cmd = cmd
        BY <4>1, ZenonT(30)
      <4>3. HolderOf(cb.to) = c
        BY <4>2, HolderIs DEF ListInv
      <4>4. seen'[c] = Append(seen[c], note)
        BY <2>2, <2>4, <4>2, <4>3
      <4>5. n + 1 \in 1..Len(seen'[c]) /\ seen'[c][n + 1].cmd = cmd
        BY <2>3, <2>6, <2>7, <4>2, <4>4
      <4>. QED
        BY <4>5 DEF InProgressNext
    <3>. QED
      BY <3>2, <3>3, <3>4
  <2>. QED
    BY <2>8, <2>9, <2>10, ZenonT(30) DEF InProgress
<1>. QED
  BY <1>1, <1>2, <1>3, <1>4, <1>5, Zenon DEF Next, Open, Close

\* So nothing is missed: a command becomes pending as it is handled, and a
\* monitor registers before the commands that count for it.
LEMMA MissedStep ==
  ASSUME ListInv, DoingInv, SinceInv, NothingMissed, Next
  PROVE  NothingMissed'
<1> SUFFICES ASSUME NEW c \in Connections, conn'[c] = "open", since'[c] # <<>>,
                    NEW d \in Connections \ {c}, NEW n \in (since'[c][d] + 1)..handled'[d]
             PROVE  InProgressNext([from |-> d, n |-> n], c)
  BY ZenonT(30) DEF NothingMissed, InProgress, InProgressNext
<1> DEFINE cmd == [from |-> d, n |-> n]
<1>0. cmd.from = d /\ handled[d] \in Nat
  BY Zenon DEF ListInv, MonitorTypes
\* c registers: it counts from now on.
<1>1. ASSUME MonitorCommand(c), ~IsMonitor(addr[c]) PROVE FALSE
  <2>1. /\ CanHandle(c) /\ Handled(c)
        /\ since' = [since EXCEPT ![c] = IF IsMonitor(addr[c]) THEN @ ELSE handled]
    BY <1>1 DEF MonitorCommand
  <2>2. since'[c] = handled
    BY <1>1, <2>1 DEF ListInv, MonitorTypes
  <2>3. handled'[d] = handled[d]
    BY <2>1, HandledTypes, ZenonT(30) DEF ListInv
  <2>4. n \in (handled[d] + 1)..handled[d]
    BY <2>2, <2>3
  <2>. QED
    BY <1>0, <2>4
<1>2. ASSUME ~(MonitorCommand(c) /\ ~IsMonitor(addr[c])) PROVE InProgressNext(cmd, c)
  <2>1. since'[c] = since[c]
    <3>1. ASSUME NEW e \in Connections, MonitorCommand(e) PROVE since'[c] = since[c]
      <4>1. since' = [since EXCEPT ![e] = IF IsMonitor(addr[e]) THEN @ ELSE handled]
        BY <3>1 DEF MonitorCommand
      <4>. QED
        BY <1>2, <3>1, <4>1 DEF ListInv, MonitorTypes
    <3>2. ASSUME UNCHANGED since PROVE since'[c] = since[c]
      BY <3>2
    <3>. QED
      BY <3>1, <3>2, Zenon DEF Next, Open, OtherCommand, Close, CheckMonitors, BroadcastCmd,
                        WriteToMonitorContext
  <2>2. conn[c] = "open"
    <3>1. conn[c] # "new"
      BY <2>1 DEF SinceInv
    <3>2. ASSUME NEW e \in Connections, Close(e) PROVE conn[c] = "open"
      BY <3>2 DEF Close, ListInv, MonitorTypes
    <3>3. ASSUME NEW e \in Connections, Open(e) PROVE conn[c] = "open"
      BY <3>1, <3>3 DEF Open, ListInv, MonitorTypes
    <3>4. ASSUME UNCHANGED conn PROVE conn[c] = "open"
      BY <3>4
    <3>. QED
      BY <3>2, <3>3, <3>4, Zenon DEF Next, MonitorCommand, OtherCommand, CheckMonitors,
                                     BroadcastCmd, WriteToMonitorContext
  <2>3. IsMonitor(addr[c]) /\ since[c] \in [Connections -> Nat] /\ since[c][d] \in Nat
    <3>1. IsMonitor(addr[c]) /\ since[c] # <<>>
      BY <2>1, <2>2 DEF SinceInv
    <3>. QED
      BY <3>1, Zenon DEF ListInv, MonitorTypes
  <2>4. CASE n \in (since[c][d] + 1)..handled[d]
    <3>1. InProgress(cmd, c)
      BY <2>1, <2>2, <2>4 DEF NothingMissed
    <3> HIDE DEF cmd
    <3>. QED
      BY <1>0, <2>2, <2>3, <3>1, ProgressKept
  <2>5. CASE n \notin (since[c][d] + 1)..handled[d]
    <3>1. handled'[d] # handled[d]
      BY <2>1, <2>5
    <3>2. ASSUME NEW e \in Connections, MonitorCommand(e) \/ OtherCommand(e)
          PROVE  InProgressNext(cmd, c)
      <4>1. CanHandle(e) /\ Handled(e)
        BY <3>2 DEF MonitorCommand, OtherCommand
      <4>2. /\ thread[e] \in Threads
            /\ handled'[e] = handled[e] + 1
            /\ \A f \in Connections : f # e => handled'[f] = handled[f]
            /\ doing'[thread[e]].pc = "check"
            /\ doing'[thread[e]].cmd = [from |-> e, n |-> handled[e] + 1]
        BY <4>1, HandledTypes DEF ListInv
      <4>3. e = d
        BY <3>1, <4>2, ZenonT(30)
      <4>4. n = handled[d] + 1
        BY <1>0, <2>1, <2>3, <2>5, <4>2, <4>3
      <4>. QED
        BY <4>2, <4>3, <4>4, Zenon DEF InProgressNext
    <3>3. ASSUME UNCHANGED handled PROVE FALSE
      BY <3>1, <3>3
    <3>. QED
      BY <3>2, <3>3, Zenon DEF Next, Open, Close, CheckMonitors, BroadcastCmd, WriteToMonitorContext
  <2>. QED
    BY <2>4, <2>5
<1>. QED
  BY <1>1, <1>2

\* Initially nothing was handled, posted or shown.
LEMMA ShowInit == Init => ShowInv
<1> SUFFICES ASSUME Init PROVE ShowInv
  OBVIOUS
<1>1. \A p \in Threads \X Threads : posted[p] = <<>> /\ Len(posted[p]) = 0
  BY DEF Init
<1>2. \A c \in Connections : /\ conn[c] = "new" /\ since[c] = <<>>
                             /\ seen[c] = <<>> /\ Len(seen[c]) = 0
  BY DEF Init
<1>3. \A t \in Threads : doing[t].pc = "idle"
  BY DEF Init, Idle
<1>4. DoingInv /\ SinceInv
  BY <1>2, <1>3 DEF DoingInv, SinceInv
<1>5. QueueInv
  BY <1>1 DEF QueueInv, InOrder
<1>6. SeenInv /\ ShownInOrder /\ StrayFromClosed
  BY <1>2 DEF SeenInv, ShownInOrder, StrayFromClosed
<1>7. NothingMissed
  BY <1>2 DEF NothingMissed
<1>. QED
  BY <1>4, <1>5, <1>6, <1>7 DEF ShowInv

\* Every step keeps ShowInv.
LEMMA ShowStep == ListInv /\ ShowInv /\ [Next]_vars => ShowInv'
<1>1. ASSUME UNCHANGED vars, ShowInv PROVE ShowInv'
  <2>0. UNCHANGED <<conn, thread, addr, monitors, handled, doing, posted, seen, since>>
    BY <1>1 DEF vars
  <2>1. DoingInv' /\ SinceInv'
    <3>1. DoingInv /\ SinceInv
      BY <1>1 DEF ShowInv
    <3>3. DoingInv'
      BY <2>0, <3>1 DEF DoingInv
    <3>4. SinceInv'
      BY <2>0, <3>1 DEF SinceInv, IsMonitor
    <3>. QED
      BY <3>3, <3>4
  <2>2. QueueInv' /\ SeenInv'
    <3>1. \A a : Past(a) => PastNext(a)
      BY <2>0 DEF Past, PastNext
    <3>2. \A p, x : Sent(p, x) => SentNext(p, x)
      BY <2>0, <3>1 DEF Sent, SentNext
    <3>3. QueueInv /\ SeenInv
      BY <1>1 DEF ShowInv
    <3>4. QueueInv'
      BY <2>0, <3>2, <3>3, QueueFrom DEF QueueInv
    <3>5. SeenInv'
      BY <2>0, <3>1, <3>3, SeenFrom DEF SeenInv
    <3>. QED
      BY <3>4, <3>5
  <2>4. ShownInOrder' /\ StrayFromClosed'
    BY <1>1, <2>0 DEF ShowInv, ShownInOrder, StrayFromClosed
  <2>5. NothingMissed'
    <3>1. NothingMissed
      BY <1>1 DEF ShowInv
    <3>. QED
      BY <2>0, <3>1 DEF NothingMissed, InProgress
  <2>. QED
    BY <2>1, <2>2, <2>4, <2>5 DEF ShowInv
<1>2. ASSUME ListInv, ShowInv, Next PROVE ShowInv'
  <2>0. /\ DoingInv /\ QueueInv /\ SeenInv /\ SinceInv
        /\ ShownInOrder /\ NothingMissed /\ StrayFromClosed
    BY <1>2 DEF ShowInv
  <2>1. DoingInv' /\ SinceInv' /\ NothingMissed'
    BY <1>2, <2>0, DoingStep, SinceStep, MissedStep
  <2>2. QueueInv' /\ SeenInv' /\ ShownInOrder' /\ StrayFromClosed'
    <3>1. ASSUME NEW t \in Threads, BroadcastCmd(t)
          PROVE  QueueInv' /\ SeenInv' /\ ShownInOrder' /\ StrayFromClosed'
      <4>1. QueueInv' /\ SeenInv'
        BY <1>2, <2>0, <3>1, BroadcastShown
      <4>2. UNCHANGED <<conn, addr, seen, thread>>
        BY <3>1 DEF BroadcastCmd
      <4>3. ShownInOrder' /\ StrayFromClosed'
        BY <2>0, <4>2 DEF ShownInOrder, StrayFromClosed
      <4>. QED
        BY <4>1, <4>3
    <3>2. ASSUME NEW s \in Threads, NEW t \in Threads, WriteToMonitorContext(s, t)
          PROVE  QueueInv' /\ SeenInv' /\ ShownInOrder' /\ StrayFromClosed'
      BY <1>2, <2>0, <3>2, WriteShown
    <3>3. ASSUME UNCHANGED <<posted, seen>>
          PROVE  QueueInv' /\ SeenInv' /\ ShownInOrder' /\ StrayFromClosed'
      BY <1>2, <2>0, <3>3, ShownStays
    <3>. QED
      BY <1>2, <3>1, <3>2, <3>3 DEF Next, Open, MonitorCommand, OtherCommand, Close, CheckMonitors
  <2>. QED
    BY <2>1, <2>2 DEF ShowInv
<1>. QED
  BY <1>1, <1>2

\* So it is an invariant.
LEMMA ShowInvariance == Spec => []ShowInv
<1>1. Init => ShowInv
  BY ShowInit
<1>2. ListInv /\ ShowInv /\ [Next]_vars => ShowInv'
  BY ShowStep
<1>. QED
  BY <1>1, <1>2, ListInvariance, PTL DEF Spec

\* ShownInOrder for any number of connections, threads, addresses and commands,
\* with reuse of addresses: the callbacks of a thread show a monitor the commands
\* of a connection once each and in their order.
THEOREM MonitorsSeeOrder == Spec => []ShownInOrder
<1>1. ShowInv => ShownInOrder
  BY DEF ShowInv
<1>. QED
  BY <1>1, ShowInvariance, PTL

\* NothingMissed in the same generality: the look at the list without the lock
\* loses no command that was handled after a monitor registered.
THEOREM MonitorsMissNothing == Spec => []NothingMissed
<1>1. ShowInv => NothingMissed
  BY DEF ShowInv
<1>. QED
  BY <1>1, ShowInvariance, PTL

\* StrayFromClosed in the same generality: a thread writes to a context that is not
\* one of its own only through a callback that was posted for a connection that is
\* closed and whose address the context was given.
THEOREM StrayWritesFromClosed == Spec => []StrayFromClosed
<1>1. ShowInv => StrayFromClosed
  BY DEF ShowInv
<1>. QED
  BY <1>1, ShowInvariance, PTL
=============================================================================
