--------------------------- MODULE MonitorsProofs ---------------------------
(***************************************************************************)
(* The list of monitors holds open contexts only, and a closed connection  *)
(* is shown nothing, whether or not addresses are reused.                  *)
(***************************************************************************)
EXTENDS Monitors, TLAPS

LOCAL INSTANCE WellFoundedInduction

\* A set of naturals that is not empty has a least member.
LEMMA LeastNatural ==
  ASSUME NEW S, S \subseteq Nat, S # {} PROVE \E n \in S : \A m \in S : n <= m
<1>1. \E n \in S : \A m \in S : ~(<<m, n>> \in OpToRel(<, Nat))
  BY NatLessThanWellFounded, WFMin, Zenon
<1>2. PICK n \in S : \A m \in S : ~(<<m, n>> \in OpToRel(<, Nat))
  BY <1>1, Zenon
<1>3. \A m \in S : ~(m < n)
  BY <1>2, Zenon DEF OpToRel
<1>4. \A m \in S : m \in Int
  OBVIOUS
<1>5. ASSUME NEW m \in S PROVE n <= m
  <2>1. m \in Int /\ n \in Int /\ ~(m < n)
    BY <1>3, <1>4
  <2>. QED
    BY <2>1
<1>. QED
  BY <1>5

\* Commands, callbacks, what is written and the work of a thread, without the
\* bound on commands.
AnyCommand == [from: Connections, n: Nat]
Callback == [cmd: AnyCommand, to: Addresses]
Note == [cmd: AnyCommand, by: Threads]
AnyWork == {Idle} \cup [pc: {"check", "post"}, cmd: AnyCommand]

\* The types of the variables, without the bound on commands.
MonitorTypes ==
  /\ conn \in [Connections -> {"new", "open", "closed"}]
  /\ thread \in [Connections -> Threads \cup {None}]
  /\ addr \in [Connections -> Addresses \cup {None}]
  /\ monitors \in Seq(Addresses)
  /\ handled \in [Connections -> Nat]
  /\ doing \in [Threads -> AnyWork]
  /\ posted \in [Threads \X Threads -> Seq(Callback)]
  /\ seen \in [Connections -> Seq(Note)]
  /\ since \in [Connections -> {<<>>} \cup [Connections -> Nat]]

\* An opened connection has a thread and a context, which no other open
\* connection has.
ContextInv ==
  /\ \A c \in Connections :
       IF conn[c] = "new" THEN addr[c] = None ELSE addr[c] \in Addresses /\ thread[c] \in Threads
  /\ \A c, d \in Connections :
       conn[c] = "open" /\ conn[d] = "open" /\ addr[c] = addr[d] => c = d

\* What holds whether or not addresses are reused.
ListInv == MonitorTypes /\ ContextInv /\ MonitorsAlive
-----------------------------------------------------------------------------
(* The loop of broadcastCmd(). *)

\* One turn of the loop.
Turn(t, cmd, i, queues) ==
  IF monitors[i] = addr[cmd.from] THEN queues
  ELSE Post(queues, t, CallbackThread(monitors[i], t), [cmd |-> cmd, to |-> monitors[i]])

\* The definition of the loop has a meaning: a function that makes its turns exists.
LEMMA PostingIs ==
  ASSUME NEW t, NEW cmd, monitors \in Seq(Addresses)
  PROVE  Posting(t, cmd) =
           [i \in 0..Len(monitors) |->
              IF i = 0 THEN posted ELSE Turn(t, cmd, i, Posting(t, cmd)[i - 1])]
<1> DEFINE Makes(f, n) == f = [i \in 0..n |-> IF i = 0 THEN posted ELSE Turn(t, cmd, i, f[i - 1])]
           bad == {n \in Nat : ~\E f : Makes(f, n)}
<1>1. 0 \notin bad
  <2> DEFINE f == [i \in 0..0 |-> posted]
  <2>1. \A i \in 0..0 : i = 0
    OBVIOUS
  <2>2. Makes(f, 0)
    BY <2>1
  <2>. QED
    BY <2>2, Zenon
<1>2. ASSUME NEW n \in Nat, NEW f, Makes(f, n) PROVE \E g : Makes(g, n + 1)
  <2> DEFINE g == [i \in 0..(n + 1) |-> IF i = n + 1 THEN Turn(t, cmd, i, f[n]) ELSE f[i]]
  <2>1. ASSUME NEW i \in 0..(n + 1)
        PROVE  g[i] = IF i = 0 THEN posted ELSE Turn(t, cmd, i, g[i - 1])
    <3>1. CASE i = n + 1
      <4>1. n \in 0..(n + 1) /\ n # n + 1 /\ i - 1 = n /\ i # 0
        BY <3>1
      <4>2. g[n] = f[n]
        BY <4>1
      <4>. QED
        BY <3>1, <4>1, <4>2
    <3>2. CASE i # n + 1
      <4>1. i \in 0..n /\ g[i] = f[i]
        BY <3>2
      <4>2. f[i] = IF i = 0 THEN posted ELSE Turn(t, cmd, i, f[i - 1])
        BY <1>2, <4>1
      <4>3. i # 0 => i - 1 \in 0..(n + 1) /\ i - 1 # n + 1
        BY <4>1
      <4>. QED
        BY <4>1, <4>2, <4>3
    <3>. QED
      BY <3>1, <3>2
  <2>2. Makes(g, n + 1)
    <3> HIDE DEF Turn
    <3>1. g = [i \in 0..(n + 1) |-> g[i]]
      OBVIOUS
    <3> HIDE DEF g
    <3>. QED
      BY <2>1, <3>1
  <2>. QED
    BY <2>2, Zenon
<1>3. \A n \in Nat : \E f : Makes(f, n)
  <2> HIDE DEF Makes
  <2> SUFFICES ASSUME bad # {} PROVE FALSE
    BY Zenon
  <2>1. PICK n \in bad : \A m \in bad : n <= m
    <3> HIDE DEF bad
    <3>1. bad \subseteq Nat
      BY DEF bad
    <3>. QED
      BY <3>1, LeastNatural, Zenon
  <2>2. n # 0 /\ n - 1 \in Nat /\ n - 1 \notin bad
    BY <1>1, <2>1
  <2>3. PICK f : Makes(f, n - 1)
    BY <2>2
  <2>4. \E g : Makes(g, (n - 1) + 1)
    BY <1>2, <2>2, <2>3
  <2>. QED
    BY <2>1, <2>4
<1>4. Posting(t, cmd) = CHOOSE f : Makes(f, Len(monitors))
  BY DEF Posting, Turn
<1>5. Makes(Posting(t, cmd), Len(monitors))
  <2>1. Len(monitors) \in Nat
    OBVIOUS
  <2> HIDE DEF Makes
  <2>. QED
    BY <1>3, <1>4, <2>1
<1>. QED
  BY <1>5

\* A queue after i turns of the loop of thread t, which was the queue old: what
\* was there is still there; what is new was posted by t for the command, to
\* other monitors, once each.
Row(t, cmd, i, p, old, new) ==
  /\ Len(new) >= Len(old)
  /\ \A k \in 1..Len(old) : new[k] = old[k]
  /\ \A k \in (Len(old) + 1)..Len(new) :
       /\ p[1] = t
       /\ new[k].cmd = cmd
       /\ new[k].to # addr[cmd.from]
       /\ p[2] = CallbackThread(new[k].to, t)
       /\ \E j \in 1..i : monitors[j] = new[k].to
  /\ \A k, l \in (Len(old) + 1)..Len(new) : new[k].to = new[l].to => k = l

\* All queues, and what is in them for the monitors that had their turn.
Posted(t, cmd, i, queues) ==
  /\ queues \in [Threads \X Threads -> Seq(Callback)]
  /\ \A p \in Threads \X Threads : Row(t, cmd, i, p, posted[p], queues[p])
  /\ \A j \in 1..i : monitors[j] # addr[cmd.from] =>
       \E k \in 1..Len(queues[<<t, CallbackThread(monitors[j], t)>>]) :
         queues[<<t, CallbackThread(monitors[j], t)>>][k] = [cmd |-> cmd, to |-> monitors[j]]

\* The queues with one more callback at the end of queue r.
Added(queues, r, cb, q) ==
  /\ q \in [Threads \X Threads -> Seq(Callback)]
  /\ \A p \in Threads \X Threads : p # r => q[p] = queues[p]
  /\ Len(q[r]) = Len(queues[r]) + 1
  /\ Len(queues[r]) \in Nat
  /\ \A k \in 1..Len(queues[r]) : q[r][k] = queues[r][k]
  /\ q[r][Len(queues[r]) + 1] = cb

\* A turn adds a callback at the end of one queue.
LEMMA PostIs ==
  ASSUME NEW queues \in [Threads \X Threads -> Seq(Callback)],
         NEW s \in Threads, NEW t \in Threads, NEW cb \in Callback
  PROVE  Added(queues, <<s, t>>, cb, Post(queues, s, t, cb))
<1> DEFINE r == <<s, t>>
           q == Post(queues, s, t, cb)
           old == queues[r]
<1>1. r \in Threads \X Threads /\ old \in Seq(Callback)
  OBVIOUS
<1>2. /\ Append(old, cb) \in Seq(Callback) /\ Len(old) \in Nat
      /\ Len(Append(old, cb)) = Len(old) + 1
      /\ \A k \in 1..Len(old) : Append(old, cb)[k] = old[k]
      /\ Append(old, cb)[Len(old) + 1] = cb
  <2> HIDE DEF old
  <2>. QED
    BY <1>1
<1>3. q = [queues EXCEPT ![r] = Append(old, cb)]
  BY DEF Post
<1> HIDE DEF old, q, r
<1>4. q[r] = Append(old, cb)
  BY <1>1, <1>3
<1>5. q \in [Threads \X Threads -> Seq(Callback)]
  BY <1>2, <1>3, Zenon
<1>6. \A p \in Threads \X Threads : p # r => q[p] = queues[p]
  BY <1>3
<1>. QED
  BY <1>2, <1>4, <1>5, <1>6 DEF Added, old, q, r

\* More turns allow more.
LEMMA RowMore ==
  ASSUME NEW t, NEW cmd, NEW i, NEW p, NEW old, NEW new, Row(t, cmd, i - 1, p, old, new),
         \A j \in 1..(i - 1) : j \in 1..i
  PROVE  Row(t, cmd, i, p, old, new)
BY DEF Row

\* A turn for a monitor that had none yet keeps Posted.
LEMMA TurnKeeps ==
  ASSUME MonitorTypes, NEW t \in Threads, NEW cmd \in AnyCommand, NEW i \in 1..Len(monitors),
         \A j \in 1..Len(monitors) : CallbackThread(monitors[j], t) \in Threads,
         \A j, k \in 1..Len(monitors) : monitors[j] = monitors[k] => j = k,
         NEW queues, Posted(t, cmd, i - 1, queues)
  PROVE  Posted(t, cmd, i, Turn(t, cmd, i, queues))
<1> DEFINE a == monitors[i]
           u == CallbackThread(a, t)
           q == Turn(t, cmd, i, queues)
<1>0. /\ a \in Addresses /\ u \in Threads /\ i \in Nat /\ i - 1 \in Nat
      /\ i \in 1..i /\ \A j \in 1..(i - 1) : j \in 1..i /\ j \in 1..Len(monitors) /\ j # i
      /\ \A j \in 1..i : j = i \/ j \in 1..(i - 1)
  BY DEF MonitorTypes
<1>1. CASE a = addr[cmd.from]
  <2>1. q = queues
    BY <1>1 DEF Turn
  <2>2. \A j \in 1..i : monitors[j] # addr[cmd.from] => j \in 1..(i - 1)
    BY <1>0, <1>1
  <2>3. queues \in [Threads \X Threads -> Seq(Callback)]
    BY DEF Posted
  <2>4. \A p \in Threads \X Threads : Row(t, cmd, i, p, posted[p], queues[p])
    BY <1>0, RowMore, Zenon DEF Posted
  <2>5. \A j \in 1..(i - 1) : monitors[j] # addr[cmd.from] =>
         \E k \in 1..Len(queues[<<t, CallbackThread(monitors[j], t)>>]) :
           queues[<<t, CallbackThread(monitors[j], t)>>][k] = [cmd |-> cmd, to |-> monitors[j]]
    BY DEF Posted
  <2> HIDE DEF q
  <2>6. Posted(t, cmd, i, queues)
    BY <2>2, <2>3, <2>4, <2>5, Zenon DEF Posted
  <2>. QED
    BY <2>1, <2>6 DEF q
<1>2. CASE a # addr[cmd.from]
  <2> DEFINE cb == [cmd |-> cmd, to |-> a]
             r == <<t, u>>
             n == Len(queues[r])
             m == Len(posted[r])
  <2>1. q = Post(queues, t, u, cb) /\ cb \in Callback /\ cb.cmd = cmd /\ cb.to = a
    BY <1>0, <1>2 DEF Turn, Callback
  <2>2. /\ queues \in [Threads \X Threads -> Seq(Callback)]
        /\ r \in Threads \X Threads /\ r[1] = t /\ r[2] = u
    BY <1>0 DEF Posted
  <2>3. r = <<t, u>>
    OBVIOUS
  <2> HIDE DEF q, cb, r
  <2>4. Added(queues, r, cb, q)
    <3>1. /\ queues \in [Threads \X Threads -> Seq(Callback)]
          /\ t \in Threads /\ u \in Threads /\ cb \in Callback
      BY <1>0, <2>1, <2>2
    <3>2. q = Post(queues, t, u, cb)
      BY <2>1
    <3> HIDE DEF u
    <3>3. Added(queues, <<t, u>>, cb, Post(queues, t, u, cb))
      BY <3>1, PostIs, Zenon
    <3>. QED
      BY <2>3, <3>2, <3>3
  <2>5. /\ q \in [Threads \X Threads -> Seq(Callback)]
        /\ \A p \in Threads \X Threads : p # r => q[p] = queues[p]
        /\ Len(q[r]) = n + 1 /\ n \in Nat
        /\ \A k \in 1..n : q[r][k] = queues[r][k]
        /\ q[r][n + 1] = cb
    BY <2>4 DEF Added
  <2>m. m \in Nat
    <3>1. posted \in [Threads \X Threads -> Seq(Callback)]
      BY DEF MonitorTypes
    <3>. QED
      BY <2>2, <3>1
  <2>r. Row(t, cmd, i - 1, r, posted[r], queues[r])
    BY <2>2 DEF Posted
  <2> HIDE DEF n, m
  <2>6. ASSUME NEW p \in Threads \X Threads PROVE Row(t, cmd, i, p, posted[p], q[p])
    <3>1. CASE p # r
      <4>1. q[p] = queues[p]
        BY <2>5, <3>1
      <4>2. Row(t, cmd, i - 1, p, posted[p], queues[p])
        BY DEF Posted
      <4>. QED
        BY <1>0, <4>1, <4>2, RowMore, Zenon
    <3>2. CASE p = r
      <4>1. /\ Len(posted[p]) = m /\ Len(q[p]) = n + 1 /\ n + 1 >= m
            /\ \A k \in 1..m : k \in 1..n
            /\ \A k \in (m + 1)..n : k \in 1..n
            /\ \A k \in (m + 1)..(n + 1) : k = n + 1 \/ k \in (m + 1)..n
        BY <2>5, <2>m, <2>r, <3>2 DEF m, n, Row
      <4>2. \A k \in 1..m : q[r][k] = posted[r][k]
        BY <2>5, <2>r, <4>1 DEF m, Row
      <4>3. ASSUME NEW k \in (m + 1)..n
            PROVE  /\ q[r][k] = queues[r][k]
                   /\ q[r][k].cmd = cmd
                   /\ q[r][k].to # addr[cmd.from]
                   /\ r[2] = CallbackThread(q[r][k].to, t)
                   /\ \E j \in 1..i : monitors[j] = q[r][k].to
                   /\ q[r][k].to # a
        <5>1. q[r][k] = queues[r][k]
          BY <2>5, <4>1
        <5>2. PICK j \in 1..(i - 1) : monitors[j] = queues[r][k].to
          BY <2>r DEF m, n, Row
        <5>3. j \in 1..i /\ monitors[j] # a
          BY <1>0, <5>2
        <5>. QED
          BY <2>r, <5>1, <5>2, <5>3 DEF m, n, Row
      <4>4. /\ q[r][n + 1].cmd = cmd /\ q[r][n + 1].to = a
            /\ q[r][n + 1].to # addr[cmd.from]
            /\ r[2] = CallbackThread(q[r][n + 1].to, t)
            /\ \E j \in 1..i : monitors[j] = q[r][n + 1].to
        BY <1>0, <1>2, <2>1, <2>2, <2>5
      <4> HIDE DEF a, u
      <4>5. \A k, l \in (m + 1)..(n + 1) : q[r][k].to = q[r][l].to => k = l
        <5> SUFFICES ASSUME NEW k \in (m + 1)..(n + 1), NEW l \in (m + 1)..(n + 1),
                            q[r][k].to = q[r][l].to
                     PROVE  k = l
          OBVIOUS
        <5>1. CASE k = n + 1
          BY <4>1, <4>3, <4>4, <5>1
        <5>2. CASE l = n + 1
          BY <4>1, <4>3, <4>4, <5>2
        <5>3. CASE k \in (m + 1)..n /\ l \in (m + 1)..n
          BY <2>r, <4>3, <5>3, ZenonT(30) DEF m, n, Row
        <5>. QED
          BY <4>1, <5>1, <5>2, <5>3
      <4>6. ASSUME NEW k \in (m + 1)..(n + 1)
            PROVE  /\ q[r][k].cmd = cmd
                   /\ q[r][k].to # addr[cmd.from]
                   /\ r[2] = CallbackThread(q[r][k].to, t)
                   /\ \E j \in 1..i : monitors[j] = q[r][k].to
        <5>1. CASE k = n + 1
          BY <4>4, <5>1, Zenon
        <5>2. CASE k \in (m + 1)..n
          BY <4>3, <5>2, Zenon
        <5>. QED
          BY <4>1, <5>1, <5>2
      <4>. QED
        BY <2>2, <3>2, <4>1, <4>2, <4>5, <4>6 DEF Row, m
    <3>. QED
      BY <3>1, <3>2
  <2>7. ASSUME NEW j \in 1..i, monitors[j] # addr[cmd.from]
        PROVE  \E k \in 1..Len(q[<<t, CallbackThread(monitors[j], t)>>]) :
                 q[<<t, CallbackThread(monitors[j], t)>>][k] = [cmd |-> cmd, to |-> monitors[j]]
    <3> DEFINE p == <<t, CallbackThread(monitors[j], t)>>
    <3>1. CASE j = i
      <4>1. n + 1 \in 1..(n + 1) /\ p = r
        BY <2>3, <2>5, <3>1
      <4> HIDE DEF p
      <4>2. n + 1 \in 1..Len(q[p]) /\ q[p][n + 1] = [cmd |-> cmd, to |-> monitors[j]]
        BY <2>5, <3>1, <4>1 DEF cb
      <4>. QED
        BY <4>2 DEF p
    <3>2. CASE j # i
      <4>1. j \in 1..(i - 1) /\ p \in Threads \X Threads
        BY <1>0, <3>2
      <4>2. PICK k \in 1..Len(queues[p]) : queues[p][k] = [cmd |-> cmd, to |-> monitors[j]]
        BY <2>7, <4>1 DEF Posted
      <4> HIDE DEF p
      <4>3. k \in 1..Len(q[p]) /\ q[p][k] = queues[p][k]
        <5>1. CASE p = r
          <6>1. k \in 1..n /\ k \in 1..(n + 1)
            BY <2>5, <5>1 DEF n
          <6>. QED
            BY <2>5, <5>1, <6>1
        <5>2. CASE p # r
          BY <2>5, <4>1, <5>2
        <5>. QED
          BY <5>1, <5>2
      <4>. QED
        BY <4>2, <4>3 DEF p
    <3>. QED
      BY <3>1, <3>2
  <2>8. q \in [Threads \X Threads -> Seq(Callback)]
    BY <2>5
  <2> HIDE DEF a, u
  <2>. QED
    BY <2>6, <2>7, <2>8 DEF Posted, q
<1>. QED
  BY <1>1, <1>2

\* So Posted holds at the end of the loop.
LEMMA PostingKeeps ==
  ASSUME MonitorTypes, NEW t \in Threads, NEW cmd \in AnyCommand,
         \A j \in 1..Len(monitors) : CallbackThread(monitors[j], t) \in Threads,
         \A j, k \in 1..Len(monitors) : monitors[j] = monitors[k] => j = k
  PROVE  Posted(t, cmd, Len(monitors), Posting(t, cmd)[Len(monitors)])
<1> DEFINE P == Posting(t, cmd)
           bad == {i \in 0..Len(monitors) : ~Posted(t, cmd, i, P[i])}
<1>1. monitors \in Seq(Addresses) /\ Len(monitors) \in Nat
  BY DEF MonitorTypes
<1>2. P = [i \in 0..Len(monitors) |-> IF i = 0 THEN posted ELSE Turn(t, cmd, i, P[i - 1])]
  BY <1>1, PostingIs
<1> HIDE DEF P
<1>3. P[0] = posted /\ \A i \in 1..Len(monitors) : P[i] = Turn(t, cmd, i, P[i - 1])
  <2>1. 0 \in 0..Len(monitors) /\ \A i \in 1..Len(monitors) : i \in 0..Len(monitors) /\ i # 0
    BY <1>1
  <2>. QED
    BY <1>2, <2>1, Zenon
<1>4. Posted(t, cmd, 0, P[0])
  <2>1. \A p \in Threads \X Threads : Len(posted[p]) \in Nat
    BY DEF MonitorTypes
  <2>2. posted \in [Threads \X Threads -> Seq(Callback)]
    BY DEF MonitorTypes
  <2>. QED
    BY <1>3, <2>1, <2>2 DEF Posted, Row
<1>5. ASSUME bad # {} PROVE FALSE
  <2>1. bad \subseteq Nat
    BY <1>1
  <2>2. PICK i \in bad : \A j \in bad : i <= j
    <3> HIDE DEF bad
    <3>. QED
      BY <1>5, <2>1, LeastNatural, Zenon
  <2>3. i # 0 /\ i \in 1..Len(monitors) /\ i - 1 \in 0..Len(monitors) /\ i - 1 \notin bad
    BY <1>1, <1>4, <2>2
  <2>4. Posted(t, cmd, i - 1, P[i - 1])
    BY <2>3
  <2>5. Posted(t, cmd, i, P[i])
    BY <1>3, <2>3, <2>4, TurnKeeps
  <2>. QED
    BY <2>2, <2>5
<1>6. Len(monitors) \in 0..Len(monitors)
  BY <1>1
<1>. QED
  BY <1>5, <1>6 DEF P

-----------------------------------------------------------------------------
(* The list of monitors. *)

\* removeMonitor() takes its context out of a list without duplicates and
\* leaves the others in it.
LEMMA RemoveIs ==
  ASSUME NEW s \in Seq(Addresses), NEW e,
         \A i, j \in 1..Len(s) : s[i] = s[j] => i = j
  PROVE  LET r == EraseFirst(s, e) IN
           /\ r \in Seq(Addresses)
           /\ \A i \in 1..Len(r) : \E j \in 1..Len(s) : s[j] = r[i] /\ s[j] # e
           /\ \A i, j \in 1..Len(r) : r[i] = r[j] => i = j
           /\ \A j \in 1..Len(s) : s[j] # e => \E i \in 1..Len(r) : r[i] = s[j]
<1> DEFINE r == EraseFirst(s, e)
<1>1. CASE \E i \in 1..Len(s) : s[i] = e
  <2>1. PICK k \in 1..Len(s) : s[k] = e
    BY <1>1
  <2>2. \A l \in 1..Len(s) : s[l] = e => l = k
    BY <2>1
  <2>3. (CHOOSE l \in 1..Len(s) : s[l] = e /\ \A i \in 1..(l - 1) : s[i] # e) = k
    <3>1. \A i \in 1..(k - 1) : i \in 1..Len(s) /\ i # k
      OBVIOUS
    <3>. QED
      BY <2>1, <2>2, <3>1
  <2>4. r = SubSeq(s, 1, k - 1) \o SubSeq(s, k + 1, Len(s))
    BY <1>1, <2>3, Zenon DEF EraseFirst
  <2> DEFINE n == Len(s)
             left == SubSeq(s, 1, k - 1)
             right == SubSeq(s, k + 1, n)
  <2>5. n \in Nat /\ k \in Nat /\ 1 <= k /\ k <= n
    OBVIOUS
  <2>6. /\ left \in Seq(Addresses) /\ Len(left) = k - 1
        /\ \A i \in 1..(k - 1) : left[i] = s[i]
    BY <2>5
  <2>7. /\ right \in Seq(Addresses) /\ Len(right) = n - k
        /\ \A i \in 1..(n - k) : right[i] = s[k + i]
    BY <2>5
  <2>8. r = left \o right
    BY <2>4
  <2> HIDE DEF r, left, right
  <2>9. /\ r \in Seq(Addresses) /\ Len(r) = n - 1
        /\ \A i \in 1..(n - 1) : r[i] = IF i < k THEN left[i] ELSE right[i - (k - 1)]
    <3>0. left \in Seq(Addresses) /\ right \in Seq(Addresses)
      BY <2>6, <2>7
    <3>1. r \in Seq(Addresses) /\ Len(r) = Len(left) + Len(right)
      BY <2>8, <3>0
    <3>2. \A i \in 1..(Len(left) + Len(right)) :
            r[i] = IF i <= Len(left) THEN left[i] ELSE right[i - Len(left)]
      BY <2>8, <3>0
    <3>3. Len(left) + Len(right) = n - 1 /\ \A i \in 1..(n - 1) : i <= k - 1 <=> i < k
      BY <2>5, <2>6, <2>7
    <3>. QED
      BY <2>6, <3>1, <3>2, <3>3
  <2>10. \A i \in 1..(n - 1) : r[i] = IF i < k THEN s[i] ELSE s[i + 1]
    <3> SUFFICES ASSUME NEW i \in 1..(n - 1) PROVE r[i] = IF i < k THEN s[i] ELSE s[i + 1]
      OBVIOUS
    <3>1. CASE i < k
      BY <2>5, <2>6, <2>9, <3>1
    <3>2. CASE ~(i < k)
      <4>1. i - (k - 1) \in 1..(n - k) /\ k + (i - (k - 1)) = i + 1
        BY <2>5, <3>2
      <4>. QED
        BY <2>7, <2>9, <3>2, <4>1
    <3>. QED
      BY <3>1, <3>2
  <2>11. ASSUME NEW i \in 1..(n - 1) PROVE \E j \in 1..n : s[j] = r[i] /\ s[j] # e
    <3>1. CASE i < k
      BY <2>1, <2>5, <2>10, <3>1
    <3>2. CASE ~(i < k)
      BY <2>1, <2>5, <2>10, <3>2
    <3>. QED
      BY <3>1, <3>2
  <2>12. ASSUME NEW i \in 1..(n - 1), NEW j \in 1..(n - 1), r[i] = r[j] PROVE i = j
    <3> DEFINE a == IF i < k THEN i ELSE i + 1
               b == IF j < k THEN j ELSE j + 1
    <3>1. a \in 1..n /\ b \in 1..n /\ (a = b => i = j)
      BY ONLY <2>5
    <3>2. r[i] = s[a] /\ r[j] = s[b]
      BY <2>10, Zenon
    <3> HIDE DEF a, b
    <3>3. s[a] = s[b]
      BY <2>12, <3>2, Zenon
    <3>. QED
      BY <3>1, <3>3
  <2>13. ASSUME NEW j \in 1..n, s[j] # e PROVE \E i \in 1..(n - 1) : r[i] = s[j]
    <3>1. CASE j < k
      BY <2>5, <2>10, <3>1
    <3>2. CASE ~(j < k)
      <4>1. j # k /\ j - 1 \in 1..(n - 1) /\ ~(j - 1 < k) /\ (j - 1) + 1 = j
        BY <2>1, <2>5, <2>13, <3>2
      <4>. QED
        BY <2>10, <4>1, Zenon
    <3>. QED
      BY <3>1, <3>2
  <2>. QED
    BY <2>9, <2>11, <2>12, <2>13 DEF r
<1>2. CASE ~\E i \in 1..Len(s) : s[i] = e
  <2>1. r = s
    BY <1>2 DEF EraseFirst
  <2> HIDE DEF r
  <2>. QED
    BY <1>2, <2>1 DEF r
<1>. QED
  BY <1>1, <1>2

\* The context at the address of an open connection is that connection's.
LEMMA HolderIs ==
  ASSUME ContextInv, NEW c \in Connections, conn[c] = "open"
  PROVE  HolderOf(addr[c]) = c
<1> DEFINE Holds(d) == addr[d] = addr[c] /\ \A e \in Connections :
                         addr[e] = addr[c] /\ conn[e] = "open" => e = d
<1>1. Holds(c)
  BY DEF ContextInv
<1>2. \A d \in Connections : Holds(d) => d = c
  OBVIOUS
<1>3. HolderOf(addr[c]) = CHOOSE d \in Connections : Holds(d)
  BY DEF HolderOf
<1> HIDE DEF Holds
<1>. QED
  BY <1>1, <1>2, <1>3

\* So is the one at an address of the list.
LEMMA MonitorIsOpen ==
  ASSUME ContextInv, MonitorsAlive, NEW a, IsMonitor(a)
  PROVE  HolderOf(a) \in Connections /\ conn[HolderOf(a)] = "open" /\ addr[HolderOf(a)] = a
<1>1. PICK c \in Connections : conn[c] = "open" /\ addr[c] = a
  BY DEF MonitorsAlive, IsMonitor
<1>. QED
  BY <1>1, HolderIs

\* Initially there is no connection and the list is empty.
LEMMA ListInit == Init => ListInv
<1> SUFFICES ASSUME Init PROVE ListInv
  OBVIOUS
<1>1. MonitorTypes
  <2>1. <<>> \in Seq(Addresses) /\ <<>> \in Seq(Callback) /\ <<>> \in Seq(Note)
    OBVIOUS
  <2>. QED
    BY <2>1 DEF Init, MonitorTypes, AnyWork
<1>2. ContextInv
  BY DEF Init, ContextInv
<1>3. MonitorsAlive
  BY DEF Init, MonitorsAlive
<1>. QED
  BY <1>1, <1>2, <1>3 DEF ListInv

\* Opening a connection gives it an address that no open connection has.
LEMMA OpenList == ASSUME ListInv, NEW c \in Connections, Open(c) PROVE ListInv'
<1>1. PICK t \in Threads, a \in Addresses :
        /\ FreeAddress(a)
        /\ thread' = [thread EXCEPT ![c] = t]
        /\ addr' = [addr EXCEPT ![c] = a]
  BY Zenon DEF Open
<1>2. /\ conn' = [conn EXCEPT ![c] = "open"] /\ conn[c] = "new"
      /\ UNCHANGED <<monitors, handled, doing, posted, seen, since>>
  BY DEF Open
<1>3. MonitorTypes'
  BY <1>1, <1>2 DEF ListInv, MonitorTypes
<1>4. /\ conn'[c] = "open" /\ addr'[c] = a /\ thread'[c] = t
      /\ \A d \in Connections : d # c => conn'[d] = conn[d] /\ addr'[d] = addr[d]
                                         /\ thread'[d] = thread[d]
  BY <1>1, <1>2 DEF ListInv, MonitorTypes
<1>5. \A d \in Connections : conn[d] = "open" => addr[d] # a
  BY <1>1 DEF FreeAddress
<1>6. ContextInv'
  <2>1. ASSUME NEW d \in Connections
        PROVE  IF conn'[d] = "new" THEN addr'[d] = None
               ELSE addr'[d] \in Addresses /\ thread'[d] \in Threads
    BY <1>4 DEF ListInv, ContextInv
  <2>2. ASSUME NEW d \in Connections, NEW e \in Connections,
               conn'[d] = "open", conn'[e] = "open", addr'[d] = addr'[e]
        PROVE  d = e
    BY <1>4, <1>5, <2>2 DEF ListInv, ContextInv
  <2>. QED
    BY <2>1, <2>2 DEF ContextInv
<1>7. MonitorsAlive'
  BY <1>2, <1>4 DEF ListInv, MonitorsAlive
<1>. QED
  BY <1>3, <1>6, <1>7 DEF ListInv

\* Registering keeps every context in the list open and there once.
LEMMA AddList ==
  ASSUME ListInv, NEW c \in Connections, AddMonitor(c), conn[c] = "open", UNCHANGED <<conn, addr>>
  PROVE  /\ monitors' \in Seq(Addresses)
         /\ MonitorsAlive'
         /\ IsMonitor(addr[c])'
         /\ \A a : IsMonitor(a) => IsMonitor(a)'
<1>1. monitors \in Seq(Addresses) /\ addr[c] \in Addresses
  BY DEF ListInv, MonitorTypes, ContextInv
<1>2. CASE IsMonitor(addr[c])
  <2>1. monitors' = monitors
    BY <1>2 DEF AddMonitor
  <2>. QED
    BY <1>1, <1>2, <2>1 DEF ListInv, MonitorsAlive, IsMonitor
<1>3. CASE ~IsMonitor(addr[c])
  <2> DEFINE n == Len(monitors)
  <2>1. /\ monitors' = Append(monitors, addr[c]) /\ n \in Nat
    BY <1>1, <1>3 DEF AddMonitor
  <2>2. /\ monitors' \in Seq(Addresses) /\ Len(monitors') = n + 1
        /\ \A i \in 1..n : monitors'[i] = monitors[i]
        /\ monitors'[n + 1] = addr[c]
    BY <1>1, <2>1
  <2>3. /\ n + 1 \in 1..(n + 1)
        /\ \A i \in 1..n : i \in 1..(n + 1)
        /\ \A i \in 1..(n + 1) : i = n + 1 \/ i \in 1..n
    BY <2>1
  <2>4. \A i \in 1..n : monitors[i] # addr[c]
    BY <1>3 DEF IsMonitor
  <2>5. /\ \A i \in 1..n : \E d \in Connections : conn[d] = "open" /\ addr[d] = monitors[i]
        /\ \A i, j \in 1..n : monitors[i] = monitors[j] => i = j
    BY DEF ListInv, MonitorsAlive
  <2>6. /\ addr' = addr /\ conn' = conn
        /\ IsMonitor(addr[c])' <=> \E i \in 1..(n + 1) : monitors'[i] = addr[c]
        /\ \A a : IsMonitor(a) <=> \E i \in 1..n : monitors[i] = a
        /\ \A a : IsMonitor(a)' <=> \E i \in 1..(n + 1) : monitors'[i] = a
    BY <2>2 DEF IsMonitor
  <2> HIDE DEF n
  <2>7. MonitorsAlive'
    <3>1. \A i \in 1..(n + 1) : \E d \in Connections : conn'[d] = "open" /\ addr'[d] = monitors'[i]
      BY <2>2, <2>3, <2>5, <2>6
    <3>2. \A i, j \in 1..(n + 1) : monitors'[i] = monitors'[j] => i = j
      BY <2>2, <2>3, <2>4, <2>5
    <3>. QED
      BY <2>2, <3>1, <3>2 DEF MonitorsAlive
  <2>. QED
    BY <2>2, <2>3, <2>6, <2>7
<1>. QED
  BY <1>2, <1>3

\* A command that is handled changes what its thread is doing.
LEMMA HandledTypes ==
  ASSUME MonitorTypes, ContextInv, NEW c \in Connections, CanHandle(c), Handled(c)
  PROVE  /\ thread[c] \in Threads /\ conn[c] = "open"
         /\ handled' \in [Connections -> Nat] /\ doing' \in [Threads -> AnyWork]
         /\ handled'[c] = handled[c] + 1 /\ handled[c] \in Nat
         /\ \A d \in Connections : d # c => handled'[d] = handled[d]
         /\ doing[thread[c]] = Idle
         /\ doing'[thread[c]].pc = "check"
         /\ doing'[thread[c]].cmd = [from |-> c, n |-> handled[c] + 1]
         /\ \A t \in Threads : t # thread[c] => doing'[t] = doing[t]
<1>1. thread[c] \in Threads /\ conn[c] = "open" /\ doing[thread[c]] = Idle
  BY Zenon DEF CanHandle, ContextInv
<1>2. handled \in [Connections -> Nat] /\ doing \in [Threads -> AnyWork] /\ handled[c] \in Nat
  BY DEF MonitorTypes
<1> DEFINE work == [pc |-> "check", cmd |-> [from |-> c, n |-> handled[c] + 1]]
<1>3. work \in AnyWork /\ work.pc = "check" /\ work.cmd = [from |-> c, n |-> handled[c] + 1]
  BY <1>2 DEF AnyWork, AnyCommand
<1>4. handled' = [handled EXCEPT ![c] = @ + 1] /\ doing' = [doing EXCEPT ![thread[c]] = work]
  BY DEF Handled
<1> HIDE DEF work
<1>5. /\ handled' \in [Connections -> Nat] /\ handled'[c] = handled[c] + 1
      /\ \A d \in Connections : d # c => handled'[d] = handled[d]
  BY <1>2, <1>4
<1>6. /\ doing' \in [Threads -> AnyWork] /\ doing'[thread[c]] = work
      /\ \A t \in Threads : t # thread[c] => doing'[t] = doing[t]
  BY <1>1, <1>2, <1>3, <1>4
<1>. QED
  BY <1>1, <1>2, <1>3, <1>5, <1>6

\* A thread that is not idle has a command.
LEMMA Busy ==
  ASSUME MonitorTypes, NEW t \in Threads
  PROVE  /\ doing[t] \in AnyWork
         /\ doing[t].pc \in {"idle", "check", "post"}
         /\ doing[t].pc # "idle" => /\ doing[t] \in [pc: {"check", "post"}, cmd: AnyCommand]
                                    /\ doing[t].cmd \in AnyCommand
                                    /\ doing[t].cmd.from \in Connections
                                    /\ doing[t].cmd.n \in Nat
         /\ doing[t].pc = "idle" => doing[t] = Idle
<1>1. doing[t] \in {Idle} \cup [pc: {"check", "post"}, cmd: AnyCommand]
  BY DEF MonitorTypes, AnyWork
<1>2. CASE doing[t] = Idle
  BY <1>1, <1>2 DEF Idle, AnyWork
<1>3. CASE doing[t] \in [pc: {"check", "post"}, cmd: AnyCommand]
  <2>1. /\ doing[t].pc \in {"check", "post"} /\ doing[t].pc # "idle" /\ doing[t].cmd \in AnyCommand
    BY <1>3
  <2>2. doing[t].cmd.from \in Connections /\ doing[t].cmd.n \in Nat
    BY <2>1 DEF AnyCommand
  <2>. QED
    BY <1>1, <1>3, <2>1, <2>2 DEF AnyWork
<1>. QED
  BY <1>1, <1>2, <1>3

\* "monitor" registers its context.
LEMMA MonitorList == ASSUME ListInv, NEW c \in Connections, MonitorCommand(c) PROVE ListInv'
<1>1. /\ CanHandle(c) /\ AddMonitor(c) /\ Handled(c)
      /\ since' = [since EXCEPT ![c] = IF IsMonitor(addr[c]) THEN @ ELSE handled]
      /\ UNCHANGED <<conn, thread, addr, posted, seen>>
  BY DEF MonitorCommand
<1>2. conn[c] = "open" /\ handled' \in [Connections -> Nat] /\ doing' \in [Threads -> AnyWork]
  BY <1>1, HandledTypes, Zenon DEF ListInv
<1>3. monitors' \in Seq(Addresses) /\ MonitorsAlive'
  BY <1>1, <1>2, AddList
<1>4. since' \in [Connections -> {<<>>} \cup [Connections -> Nat]]
  BY <1>1 DEF ListInv, MonitorTypes
<1>5. MonitorTypes'
  BY <1>1, <1>2, <1>3, <1>4 DEF ListInv, MonitorTypes
<1>6. ContextInv'
  BY <1>1 DEF ListInv, ContextInv
<1>. QED
  BY <1>3, <1>5, <1>6 DEF ListInv

\* Other commands leave the list alone.
LEMMA OtherList == ASSUME ListInv, NEW c \in Connections, OtherCommand(c) PROVE ListInv'
<1>1. /\ CanHandle(c) /\ Handled(c)
      /\ UNCHANGED <<conn, thread, addr, monitors, posted, seen, since>>
  BY DEF OtherCommand
<1>2. handled' \in [Connections -> Nat] /\ doing' \in [Threads -> AnyWork]
  BY <1>1, HandledTypes, Zenon DEF ListInv
<1>3. MonitorTypes'
  BY <1>1, <1>2 DEF ListInv, MonitorTypes
<1>4. ContextInv' /\ MonitorsAlive'
  BY <1>1 DEF ListInv, ContextInv, MonitorsAlive
<1>. QED
  BY <1>3, <1>4 DEF ListInv

\* The look at the list sends the thread on or back.
LEMMA CheckIs ==
  ASSUME MonitorTypes, NEW t \in Threads, CheckMonitors(t)
  PROVE  /\ doing' \in [Threads -> AnyWork]
         /\ doing[t].pc = "check"
         /\ \A u \in Threads : u # t => doing'[u] = doing[u]
         /\ IF monitors = <<>> THEN doing'[t] = Idle
            ELSE doing'[t].pc = "post" /\ doing'[t].cmd = doing[t].cmd
<1>1. doing[t].pc = "check" /\ doing \in [Threads -> AnyWork]
  BY DEF CheckMonitors, MonitorTypes
<1>2. doing[t] \in [pc: {"check", "post"}, cmd: AnyCommand]
  BY <1>1, Busy
<1> DEFINE next == IF monitors = <<>> THEN Idle ELSE [doing[t] EXCEPT !.pc = "post"]
<1>3. doing' = [doing EXCEPT ![t] = next]
  BY DEF CheckMonitors, ListEmpty
<1>4. /\ next \in AnyWork
      /\ IF monitors = <<>> THEN next = Idle ELSE next.pc = "post" /\ next.cmd = doing[t].cmd
  BY <1>2 DEF AnyWork
<1> HIDE DEF next
<1>. QED
  BY <1>1, <1>3, <1>4

\* It leaves the list alone.
LEMMA CheckList == ASSUME ListInv, NEW t \in Threads, CheckMonitors(t) PROVE ListInv'
<1>1. UNCHANGED <<conn, thread, addr, monitors, handled, posted, seen, since>>
  BY DEF CheckMonitors
<1>2. doing' \in [Threads -> AnyWork]
  BY CheckIs DEF ListInv
<1>3. MonitorTypes'
  BY <1>1, <1>2 DEF ListInv, MonitorTypes
<1>4. ContextInv' /\ MonitorsAlive'
  BY <1>1 DEF ListInv, ContextInv, MonitorsAlive
<1>. QED
  BY <1>3, <1>4 DEF ListInv

\* A broadcast adds callbacks for the monitors, on their threads.
LEMMA BroadcastIs ==
  ASSUME ListInv, NEW t \in Threads, BroadcastCmd(t)
  PROVE  /\ doing[t].pc = "post"
         /\ doing' \in [Threads -> AnyWork] /\ doing'[t] = Idle
         /\ \A u \in Threads : u # t => doing'[u] = doing[u]
         /\ Posted(t, doing[t].cmd, Len(monitors), posted')
         /\ \A i \in 1..Len(monitors) : /\ HolderOf(monitors[i]) \in Connections
                                        /\ conn[HolderOf(monitors[i])] = "open"
                                        /\ addr[HolderOf(monitors[i])] = monitors[i]
<1>1. doing[t].pc = "post" /\ doing' = [doing EXCEPT ![t] = Idle]
  BY DEF BroadcastCmd
<1>2. doing \in [Threads -> AnyWork] /\ Idle \in AnyWork /\ doing[t].cmd \in AnyCommand
  BY <1>1, Busy DEF ListInv, MonitorTypes, AnyWork
<1>3. ASSUME NEW i \in 1..Len(monitors)
      PROVE  /\ HolderOf(monitors[i]) \in Connections
             /\ conn[HolderOf(monitors[i])] = "open"
             /\ addr[HolderOf(monitors[i])] = monitors[i]
  BY MonitorIsOpen DEF ListInv, IsMonitor
<1>4. \A i \in 1..Len(monitors) : CallbackThread(monitors[i], t) \in Threads
  BY <1>3 DEF ListInv, ContextInv, CallbackThread
<1>5. \A j, k \in 1..Len(monitors) : monitors[j] = monitors[k] => j = k
  BY DEF ListInv, MonitorsAlive
<1>6. posted' = Posting(t, doing[t].cmd)[Len(monitors)]
  BY DEF BroadcastCmd
<1>7. Posted(t, doing[t].cmd, Len(monitors), Posting(t, doing[t].cmd)[Len(monitors)])
  BY <1>2, <1>4, <1>5, PostingKeeps DEF ListInv
<1>8. Posted(t, doing[t].cmd, Len(monitors), posted')
  BY <1>6, <1>7
<1>. QED
  BY <1>1, <1>2, <1>3, <1>8

\* It reads the list and leaves it alone.
LEMMA BroadcastList == ASSUME ListInv, NEW t \in Threads, BroadcastCmd(t) PROVE ListInv'
<1>1. UNCHANGED <<conn, thread, addr, monitors, handled, seen, since>>
  BY DEF BroadcastCmd
<1>2. doing' \in [Threads -> AnyWork] /\ posted' \in [Threads \X Threads -> Seq(Callback)]
  BY BroadcastIs, Zenon DEF Posted
<1>3. MonitorTypes'
  BY <1>1, <1>2 DEF ListInv, MonitorTypes
<1>4. ContextInv' /\ MonitorsAlive'
  BY <1>1 DEF ListInv, ContextInv, MonitorsAlive
<1>. QED
  BY <1>3, <1>4 DEF ListInv

\* A callback cb that s posted to t takes the head of its queue r, and writes it
\* to the connection at its address if that is a monitor.
Wrote(s, t, r, cb) ==
  /\ r \in Threads \X Threads /\ r[1] = s /\ r[2] = t
  /\ doing[t] = Idle
  /\ cb \in Callback /\ cb.cmd \in AnyCommand /\ cb.to \in Addresses
  /\ Len(posted[r]) \in Nat /\ 1 \in 1..Len(posted[r]) /\ posted[r][1] = cb
  /\ posted' \in [Threads \X Threads -> Seq(Callback)]
  /\ \A p \in Threads \X Threads : p # r => posted'[p] = posted[p]
  /\ Len(posted'[r]) = Len(posted[r]) - 1
  /\ \A i \in 1..(Len(posted[r]) - 1) : posted'[r][i] = posted[r][i + 1]
  /\ IF IsMonitor(cb.to)
     THEN /\ HolderOf(cb.to) \in Connections
          /\ conn[HolderOf(cb.to)] = "open" /\ addr[HolderOf(cb.to)] = cb.to
          /\ seen' = [seen EXCEPT ![HolderOf(cb.to)] = Append(@, [cmd |-> cb.cmd, by |-> t])]
     ELSE seen' = seen

\* writeToMonitorContext() does that.
LEMMA WriteIs ==
  ASSUME ListInv, NEW s \in Threads, NEW t \in Threads, WriteToMonitorContext(s, t)
  PROVE  \E r, cb : r = <<s, t>> /\ Wrote(s, t, r, cb)
<1> DEFINE r == <<s, t>>
           cb == posted[r][1]
<1>1. r \in Threads \X Threads /\ r[1] = s /\ r[2] = t /\ doing[t] = Idle
  BY DEF WriteToMonitorContext
<1>2. posted \in [Threads \X Threads -> Seq(Callback)] /\ posted[r] \in Seq(Callback)
  BY <1>1 DEF ListInv, MonitorTypes
<1>3. posted[r] # <<>> /\ posted' = [posted EXCEPT ![r] = Tail(posted[r])]
  BY DEF WriteToMonitorContext
<1> DEFINE q == posted[r]
<1>4. /\ q \in Seq(Callback) /\ q # <<>>
  BY <1>2, <1>3
<1>5. /\ Len(q) \in Nat /\ Len(q) >= 1 /\ 1 \in 1..Len(q) /\ q[1] \in Callback /\ Head(q) = q[1]
      /\ Tail(q) \in Seq(Callback) /\ Len(Tail(q)) = Len(q) - 1
      /\ \A i \in 1..(Len(q) - 1) : Tail(q)[i] = q[i + 1]
  <2> HIDE DEF q
  <2>. QED
    BY <1>4
<1>6. /\ posted' \in [Threads \X Threads -> Seq(Callback)]
      /\ posted'[r] = Tail(q)
      /\ \A p \in Threads \X Threads : p # r => posted'[p] = posted[p]
  <2>1. posted' = [posted EXCEPT ![r] = Tail(q)]
    BY <1>3
  <2> HIDE DEF q
  <2>. QED
    BY <1>1, <1>2, <1>5, <2>1
<1>7. cb \in Callback /\ cb.cmd \in AnyCommand /\ cb.to \in Addresses /\ cb = Head(posted[r])
  BY <1>5 DEF Callback
<1>8. IF IsMonitor(cb.to)
      THEN seen' = [seen EXCEPT ![HolderOf(cb.to)] = Append(@, [cmd |-> cb.cmd, by |-> t])]
      ELSE seen' = seen
  BY <1>7 DEF WriteToMonitorContext, MayWrite
<1>9. IsMonitor(cb.to) => /\ HolderOf(cb.to) \in Connections
                          /\ conn[HolderOf(cb.to)] = "open" /\ addr[HolderOf(cb.to)] = cb.to
  BY MonitorIsOpen DEF ListInv
<1> HIDE DEF cb, r
<1>10. Wrote(s, t, r, cb)
  BY <1>1, <1>5, <1>6, <1>7, <1>8, <1>9 DEF Wrote, cb
<1>. QED
  BY <1>10 DEF r

\* The types of what is shown.
LEMMA WriteList ==
  ASSUME ListInv, NEW s \in Threads, NEW t \in Threads, WriteToMonitorContext(s, t) PROVE ListInv'
<1>1. PICK r, cb : Wrote(s, t, r, cb)
  BY WriteIs
<1>2. UNCHANGED <<conn, thread, addr, monitors, handled, doing, since>>
  BY DEF WriteToMonitorContext
<1> DEFINE note == [cmd |-> cb.cmd, by |-> t]
<1>3. note \in Note
  BY <1>1 DEF Wrote, Note
<1>4. seen \in [Connections -> Seq(Note)]
  BY DEF ListInv, MonitorTypes
<1>5. seen' \in [Connections -> Seq(Note)]
  <2>1. IF IsMonitor(cb.to)
        THEN /\ HolderOf(cb.to) \in Connections
             /\ seen' = [seen EXCEPT ![HolderOf(cb.to)] = Append(seen[HolderOf(cb.to)], note)]
        ELSE seen' = seen
    BY <1>1 DEF Wrote
  <2> HIDE DEF note
  <2>2. IsMonitor(cb.to) =>
          Append(seen[HolderOf(cb.to)], note) \in Seq(Note)
    BY <1>3, <1>4, <2>1
  <2>. QED
    BY <1>4, <2>1, <2>2
<1>6. MonitorTypes'
  BY <1>1, <1>2, <1>5 DEF ListInv, MonitorTypes, Wrote
<1>7. ContextInv' /\ MonitorsAlive'
  BY <1>2 DEF ListInv, ContextInv, MonitorsAlive
<1>. QED
  BY <1>6, <1>7 DEF ListInv

\* close() takes the context out of the list before it is freed.
LEMMA CloseIs ==
  ASSUME ListInv, NEW c \in Connections, Close(c)
  PROVE  /\ monitors' \in Seq(Addresses)
         /\ \A a : IsMonitor(a)' <=> IsMonitor(a) /\ a # addr[c]
         /\ \A i, j \in 1..Len(monitors') : monitors'[i] = monitors'[j] => i = j
         /\ \A i \in 1..Len(monitors') : \E j \in 1..Len(monitors) :
              monitors[j] = monitors'[i] /\ monitors[j] # addr[c]
<1>1. /\ monitors \in Seq(Addresses)
      /\ \A i, j \in 1..Len(monitors) : monitors[i] = monitors[j] => i = j
  BY DEF ListInv, MonitorTypes, MonitorsAlive
<1>2. monitors' = EraseFirst(monitors, addr[c])
  BY DEF Close, RemoveMonitor
<1>3. LET r == EraseFirst(monitors, addr[c]) IN
       /\ r \in Seq(Addresses)
       /\ \A i \in 1..Len(r) : \E j \in 1..Len(monitors) :
            monitors[j] = r[i] /\ monitors[j] # addr[c]
       /\ \A i, j \in 1..Len(r) : r[i] = r[j] => i = j
       /\ \A j \in 1..Len(monitors) : monitors[j] # addr[c] =>
            \E i \in 1..Len(r) : r[i] = monitors[j]
  BY <1>1, RemoveIs, Zenon
<1>4. /\ monitors' \in Seq(Addresses)
      /\ \A i \in 1..Len(monitors') : \E j \in 1..Len(monitors) :
           monitors[j] = monitors'[i] /\ monitors[j] # addr[c]
      /\ \A i, j \in 1..Len(monitors') : monitors'[i] = monitors'[j] => i = j
      /\ \A j \in 1..Len(monitors) : monitors[j] # addr[c] =>
           \E i \in 1..Len(monitors') : monitors'[i] = monitors[j]
  BY <1>2, <1>3, Zenon
<1>5. ASSUME NEW a PROVE IsMonitor(a)' <=> IsMonitor(a) /\ a # addr[c]
  BY <1>4, ZenonT(30) DEF IsMonitor
<1>. QED
  BY <1>4, <1>5

\* So what is left in the list is open.
LEMMA CloseList == ASSUME ListInv, NEW c \in Connections, Close(c) PROVE ListInv'
<1>1. /\ conn' = [conn EXCEPT ![c] = "closed"] /\ conn[c] = "open"
      /\ UNCHANGED <<thread, addr, handled, doing, posted, seen, since>>
  BY DEF Close
<1>2. /\ conn'[c] = "closed" /\ \A d \in Connections : d # c => conn'[d] = conn[d]
  BY <1>1 DEF ListInv, MonitorTypes
<1>3. MonitorTypes'
  BY <1>1, CloseIs DEF ListInv, MonitorTypes
<1>4. ContextInv'
  BY <1>1, <1>2 DEF ListInv, ContextInv
<1>5. ASSUME NEW i \in 1..Len(monitors')
      PROVE  \E d \in Connections : conn'[d] = "open" /\ addr'[d] = monitors'[i]
  <2>2. PICK j \in 1..Len(monitors) : monitors[j] = monitors'[i] /\ monitors[j] # addr[c]
    BY CloseIs
  <2>3. PICK d \in Connections : conn[d] = "open" /\ addr[d] = monitors[j]
    BY DEF ListInv, MonitorsAlive
  <2>4. d # c
    BY <2>2, <2>3
  <2>. QED
    BY <1>1, <1>2, <2>2, <2>3, <2>4
<1>6. MonitorsAlive'
  BY <1>5, CloseIs DEF MonitorsAlive
<1>. QED
  BY <1>3, <1>4, <1>6 DEF ListInv

\* Every step keeps the list sound, whether or not addresses are reused.
LEMMA ListStep == ListInv /\ [Next]_vars => ListInv'
<1>1. ListInv /\ UNCHANGED vars => ListInv'
  BY DEF ListInv, MonitorTypes, ContextInv, MonitorsAlive, vars
<1>. QED
  BY <1>1, OpenList, MonitorList, OtherList, CloseList, CheckList, BroadcastList, WriteList DEF Next

\* So the list is sound in every reachable state.
LEMMA ListInvariance == Spec => []ListInv
  BY ListInit, ListStep, PTL DEF Spec

\* The types of what is queued and of what was shown.
LEMMA Items ==
  ASSUME MonitorTypes
  PROVE  /\ \A p \in Threads \X Threads :
              /\ posted[p] \in Seq(Callback) /\ Len(posted[p]) \in Nat
              /\ \A i \in 1..Len(posted[p]) :
                   posted[p][i] \in Callback /\ posted[p][i].cmd \in AnyCommand
         /\ \A c \in Connections :
              /\ seen[c] \in Seq(Note) /\ Len(seen[c]) \in Nat
              /\ \A i \in 1..Len(seen[c]) :
                   seen[c][i] \in Note /\ seen[c][i].cmd \in AnyCommand
<1>1. posted \in [Threads \X Threads -> Seq(Callback)] /\ seen \in [Connections -> Seq(Note)]
  BY DEF MonitorTypes
<1>2. ASSUME NEW p \in Threads \X Threads
      PROVE  /\ posted[p] \in Seq(Callback) /\ Len(posted[p]) \in Nat
             /\ \A i \in 1..Len(posted[p]) : posted[p][i] \in Callback
  <2>1. posted[p] \in Seq(Callback)
    BY <1>1
  <2>. QED
    BY <2>1
<1>3. ASSUME NEW c \in Connections
      PROVE  /\ seen[c] \in Seq(Note) /\ Len(seen[c]) \in Nat
             /\ \A i \in 1..Len(seen[c]) : seen[c][i] \in Note
  <2>1. seen[c] \in Seq(Note)
    BY <1>1
  <2>. QED
    BY <2>1
<1>4. \A x \in Callback : x.cmd \in AnyCommand
  BY DEF Callback
<1>5. \A x \in Note : x.cmd \in AnyCommand
  BY DEF Note
<1>. QED
  BY <1>2, <1>3, <1>4, <1>5

\* An opened connection stays opened, on its thread and with its address.
LEMMA Stable ==
  ASSUME ListInv, Next, NEW c \in Connections, conn[c] # "new"
  PROVE  conn'[c] # "new" /\ thread'[c] = thread[c] /\ addr'[c] = addr[c]
<1>1. ASSUME NEW d \in Connections, Open(d)
      PROVE  conn'[c] # "new" /\ thread'[c] = thread[c] /\ addr'[c] = addr[c]
  <2>1. d # c /\ conn' = [conn EXCEPT ![d] = "open"]
        /\ \E t, a : thread' = [thread EXCEPT ![d] = t] /\ addr' = [addr EXCEPT ![d] = a]
    BY <1>1, Zenon DEF Open
  <2>. QED
    BY <2>1 DEF ListInv, MonitorTypes
<1>2. ASSUME NEW d \in Connections, Close(d)
      PROVE  conn'[c] # "new" /\ thread'[c] = thread[c] /\ addr'[c] = addr[c]
  BY <1>2 DEF Close, ListInv, MonitorTypes
<1>3. ASSUME UNCHANGED <<conn, thread, addr>>
      PROVE  conn'[c] # "new" /\ thread'[c] = thread[c] /\ addr'[c] = addr[c]
  BY <1>3
<1>. QED
  BY <1>1, <1>2, <1>3, Zenon DEF Next, MonitorCommand, OtherCommand, CheckMonitors, BroadcastCmd,
                          WriteToMonitorContext

\* MonitorsAlive for any number of connections, threads, addresses and commands,
\* with reuse of addresses: broadcastCmd() never follows a pointer to a context
\* that is gone, and no context is in the list twice.
THEOREM ListedAreAlive == Spec => []MonitorsAlive
<1>1. ListInv => MonitorsAlive
  BY DEF ListInv
<1>. QED
  BY <1>1, ListInvariance, PTL

\* SilentAfterClose for any number of connections, threads, addresses and
\* commands, with reuse of addresses: writeToMonitorContext() looks its context up
\* in a list of open ones, so a late callback never writes to a closed connection.
THEOREM SilenceAfterClose == Spec => SilentAfterClose
<1>1. ListInv /\ [Next]_vars =>
        [\A c \in Connections : conn[c] = "closed" => seen'[c] = seen[c]]_vars
  <2> SUFFICES ASSUME ListInv, [Next]_vars, NEW c \in Connections, conn[c] = "closed"
               PROVE  seen'[c] = seen[c]
    OBVIOUS
  <2>1. CASE UNCHANGED seen
    BY <2>1
  <2>2. ASSUME NEW s \in Threads, NEW t \in Threads, WriteToMonitorContext(s, t)
        PROVE  seen'[c] = seen[c]
    <3>1. PICK r, cb : Wrote(s, t, r, cb)
      BY <2>2, WriteIs
    <3>2. IF IsMonitor(cb.to)
          THEN /\ conn[HolderOf(cb.to)] = "open"
               /\ seen' = [seen EXCEPT ![HolderOf(cb.to)] = Append(@, [cmd |-> cb.cmd, by |-> t])]
          ELSE seen' = seen
      BY <3>1 DEF Wrote
    <3>. QED
      BY <3>2 DEF ListInv, MonitorTypes
  <2>3. UNCHANGED seen \/ \E s, t \in Threads : WriteToMonitorContext(s, t)
    BY DEF Next, vars, Open, MonitorCommand, OtherCommand, Close, CheckMonitors, BroadcastCmd
  <2>. QED
    BY <2>1, <2>2, <2>3
<1>. QED
  BY <1>1, ListInvariance, PTL DEF Spec, SilentAfterClose
=============================================================================
