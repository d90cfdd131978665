\* Three connections on two threads with two addresses to share, three commands.
SPECIFICATION Spec
CONSTANTS
  c1 = c1
  c2 = c2
  c3 = c3
  t1 = t1
  t2 = t2
  a1 = a1
  a2 = a2
  Connections = {c1, c2, c3}
  Threads = {t1, t2}
  Addresses = {a1, a2}
  MaxCommands = 3
SYMMETRY Symmetry
INVARIANT WrittenByOwnThread
\* Connections may all be closed.
CHECK_DEADLOCK FALSE
