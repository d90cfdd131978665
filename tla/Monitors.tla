------------------------------ MODULE Monitors ------------------------------
(***************************************************************************)
(* The "monitor" command: a static list of contexts, shared by the I/O     *)
(* threads, to which every handled command is broadcast.  A thread that    *)
(* handles a command looks at the list without the lock, then takes the    *)
(* lock and posts a callback to the thread of every monitor; the callback  *)
(* looks the context up again before it writes.  A context is known by its *)
(* address, which a later connection may be given again once it is freed.  *)
(***************************************************************************)
EXTENDS Integers, Sequences, Functions

CONSTANTS
  Connections,  \* connections, each opened at most once
  Threads,      \* I/O threads, one event base each
  Addresses,    \* addresses a Context may be allocated at, again once it is freed
  MaxCommands   \* bound: commands handled on all connections

ASSUME MonitorsAssumption == MaxCommands \in Nat

None == "none"

Commands == [from: Connections, n: 1..MaxCommands]

VARIABLES
  conn,      \* state of a connection
  thread,    \* event base thread of an opened connection
  addr,      \* address of its Context
  monitors,  \* monitors_
  handled,   \* number of commands handled on a connection
  doing,     \* what a thread is in the middle of
  posted,    \* callbacks posted by one thread to another
  seen,      \* what was written to a monitor, and by which thread
  since      \* commands handled on each connection when a monitor registered

vars == <<conn, thread, addr, monitors, handled, doing, posted, seen, since>>

Idle == [pc |-> "idle"]

Work == {Idle} \cup [pc: {"check", "post"}, cmd: Commands]

\* Type correctness of the shared list, the threads and their callbacks.
TypeOK ==
  /\ conn \in [Connections -> {"new", "open", "closed"}]
  /\ thread \in [Connections -> Threads \cup {None}]
  /\ addr \in [Connections -> Addresses \cup {None}]
  /\ monitors \in Seq(Addresses)
  /\ handled \in [Connections -> 0..MaxCommands]
  /\ doing \in [Threads -> Work]
  /\ posted \in [Threads \X Threads -> Seq([cmd: Commands, to: Addresses])]
  /\ seen \in [Connections -> Seq([cmd: Commands, by: Threads])]
  /\ since \in [Connections -> {<<>>} \cup [Connections -> 0..MaxCommands]]

Init ==
  /\ conn = [c \in Connections |-> "new"]
  /\ thread = [c \in Connections |-> None]
  /\ addr = [c \in Connections |-> None]
  /\ monitors = <<>>
  /\ handled = [c \in Connections |-> 0]
  /\ doing = [t \in Threads |-> Idle]
  /\ posted = [p \in Threads \X Threads |-> <<>>]
  /\ seen = [c \in Connections |-> <<>>]
  /\ since = [c \in Connections |-> <<>>]

IsMonitor(a) == \E i \in 1..Len(monitors) : monitors[i] = a

\* The connection whose Context is at an address, or was there last.
HolderOf(a) ==
  CHOOSE c \in Connections :
    /\ addr[c] = a
    /\ \A d \in Connections : addr[d] = a /\ conn[d] = "open" => d = c
-----------------------------------------------------------------------------
(* Variants with a plausible mistake, for mutation tests of the properties. *)

\* Register without looking whether the context is there already.
AddMonitorTwice(c) == monitors' = Append(monitors, addr[c])

\* Take one monitor for none.
NoMonitors == Len(monitors) <= 1

\* Write to the context without looking it up again.
WriteAnyway(a) == TRUE
-----------------------------------------------------------------------------
FreeAddress(a) == \A c \in Connections : addr[c] = a => conn[c] = "closed"

\* A connection is accepted: a pipeline on one of the I/O threads.
Open(c) ==
  /\ conn[c] = "new"
  /\ \E t \in Threads, a \in Addresses :
       /\ FreeAddress(a)
       /\ thread' = [thread EXCEPT ![c] = t]
       /\ addr' = [addr EXCEPT ![c] = a]
  /\ conn' = [conn EXCEPT ![c] = "open"]
  /\ UNCHANGED <<monitors, handled, doing, posted, seen, since>>

\* monitorCommand(), under the lock.
AddMonitor(c) ==
  monitors' = IF IsMonitor(addr[c]) THEN monitors ELSE Append(monitors, addr[c])

CanHandle(c) ==
  /\ conn[c] = "open"
  /\ doing[thread[c]] = Idle
  /\ FoldFunction(+, 0, handled) < MaxCommands

Handled(c) ==
  /\ handled' = [handled EXCEPT ![c] = @ + 1]
  /\ doing' = [doing EXCEPT ![thread[c]] =
                 [pc |-> "check", cmd |-> [from |-> c, n |-> handled[c] + 1]]]

\* read() of "monitor": register, answer, and broadcast this command too.
MonitorCommand(c) ==
  /\ CanHandle(c)
  /\ AddMonitor(c)
  /\ since' = [since EXCEPT ![c] = IF IsMonitor(addr[c]) THEN @ ELSE handled]
  /\ Handled(c)
  /\ UNCHANGED <<conn, thread, addr, posted, seen>>

\* read() of any other command of the handler's table.
OtherCommand(c) ==
  /\ CanHandle(c)
  /\ Handled(c)
  /\ UNCHANGED <<conn, thread, addr, monitors, posted, seen, since>>

\* The test of broadcastCmd() without the lock.
ListEmpty == monitors = <<>>

CheckMonitors(t) ==
  /\ doing[t].pc = "check"
  /\ doing' = [doing EXCEPT ![t] = IF ListEmpty THEN Idle ELSE [@ EXCEPT !.pc = "post"]]
  /\ UNCHANGED <<conn, thread, addr, monitors, handled, posted, seen, since>>

\* The event base thread a callback for a monitor is sent to.
CallbackThread(a, t) == thread[HolderOf(a)]

\* runInEventBaseThread(): callbacks from one thread to another are a queue.
Post(queues, s, t, callback) == [queues EXCEPT ![<<s, t>>] = Append(@, callback)]

\* The loop of broadcastCmd(), after the first i monitors: a callback for every
\* one of them but the sender.
Posting(t, cmd) ==
  LET after[i \in 0..Len(monitors)] ==
        IF i = 0 THEN posted
        ELSE IF monitors[i] = addr[cmd.from] THEN after[i - 1]
        ELSE Post(after[i - 1], t, CallbackThread(monitors[i], t),
                  [cmd |-> cmd, to |-> monitors[i]])
  IN  after

\* The rest of broadcastCmd(), under the lock.
BroadcastCmd(t) ==
  /\ doing[t].pc = "post"
  /\ posted' = Posting(t, doing[t].cmd)[Len(monitors)]
  /\ doing' = [doing EXCEPT ![t] = Idle]
  /\ UNCHANGED <<conn, thread, addr, monitors, handled, seen, since>>

MayWrite(a) == IsMonitor(a)

\* The callback writeToMonitorContext(), on the thread it was posted to.
WriteToMonitorContext(s, t) ==
  LET cb == Head(posted[<<s, t>>])
  IN /\ doing[t] = Idle
     /\ posted[<<s, t>>] # <<>>
     /\ posted' = [posted EXCEPT ![<<s, t>>] = Tail(@)]
     /\ seen' = IF MayWrite(cb.to)
                  THEN [seen EXCEPT ![HolderOf(cb.to)] =
                          Append(@, [cmd |-> cb.cmd, by |-> t])]
                  ELSE seen
     /\ UNCHANGED <<conn, thread, addr, monitors, handled, doing, since>>

\* std::find() and erase(): s without the first e in it.
EraseFirst(s, e) ==
  IF \E i \in 1..Len(s) : s[i] = e
  THEN LET k == CHOOSE k \in 1..Len(s) : s[k] = e /\ \A i \in 1..(k - 1) : s[i] # e
       IN  SubSeq(s, 1, k - 1) \o SubSeq(s, k + 1, Len(s))
  ELSE s

\* removeMonitor(), under the lock.
RemoveMonitor(c) == monitors' = EraseFirst(monitors, addr[c])

\* close(), on end of file or an exception: the context is freed after it.
Close(c) ==
  /\ conn[c] = "open"
  /\ doing[thread[c]] = Idle
  /\ RemoveMonitor(c)
  /\ conn' = [conn EXCEPT ![c] = "closed"]
  /\ UNCHANGED <<thread, addr, handled, doing, posted, seen, since>>

Next ==
  \/ \E c \in Connections : Open(c) \/ MonitorCommand(c) \/ OtherCommand(c) \/ Close(c)
  \/ \E t \in Threads : CheckMonitors(t) \/ BroadcastCmd(t)
  \/ \E s, t \in Threads : WriteToMonitorContext(s, t)

Spec == Init /\ [][Next]_vars
-----------------------------------------------------------------------------
(* Properties. *)

\* broadcastCmd() follows every pointer of the list: each is the context of
\* an open connection, and is there once.
MonitorsAlive ==
  /\ \A i \in 1..Len(monitors) :
       \E c \in Connections : conn[c] = "open" /\ addr[c] = monitors[i]
  /\ \A i, j \in 1..Len(monitors) : monitors[i] = monitors[j] => i = j

\* A callback that comes after close() writes nothing: what a connection was
\* shown does not change once it is closed.
SilentAfterClose ==
  [][\A c \in Connections : conn[c] = "closed" => seen'[c] = seen[c]]_vars

\* The callbacks of one thread show a monitor the commands of another connection
\* once each and in the order that connection sent them.
ShownInOrder ==
  \A c \in Connections : \A i, j \in 1..Len(seen[c]) :
    (i < j /\ seen[c][i].by = seen[c][j].by /\ seen[c][i].cmd.from = seen[c][j].cmd.from)
       => seen[c][i].cmd.n < seen[c][j].cmd.n

InProgress(cmd, c) ==
  \/ \E i \in 1..Len(seen[c]) : seen[c][i].cmd = cmd
  \/ \E t \in Threads : doing[t].pc # "idle" /\ doing[t].cmd = cmd
  \/ \E p \in Threads \X Threads :
       \E i \in 1..Len(posted[p]) : posted[p][i] = [cmd |-> cmd, to |-> addr[c]]

\* The look at the list without the lock misses nothing: a command handled
\* after a monitor registered is shown to it, or still on its way.
NothingMissed ==
  \A c \in Connections : conn[c] = "open" /\ since[c] # <<>> =>
    \A d \in Connections \ {c} : \A n \in (since[c][d] + 1)..handled[d] :
      InProgress([from |-> d, n |-> n], c)

\* "we cannot write to otherCtx directly but send it callback to it's thread":
\* a context is written to by the thread of its connection only.
WrittenByOwnThread ==
  \A c \in Connections : \A i \in 1..Len(seen[c]) : seen[c][i].by = thread[c]

\* What another thread wrote to a context was posted for a closed connection whose
\* Context had the same address.
StrayFromClosed ==
  \A c \in Connections : \A i \in 1..Len(seen[c]) :
    \/ seen[c][i].by = thread[c]
    \/ \E d \in Connections :
         conn[d] = "closed" /\ addr[d] = addr[c] /\ thread[d] = seen[c][i].by
=============================================================================
