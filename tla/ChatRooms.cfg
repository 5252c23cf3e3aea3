\* Two users and two connections, so that one user may reconnect; two handlers at a
\* time; one message per window and one that is refused.
CONSTANTS
  Users = {u1, u2}
  Sockets = {s1, s2}
  Calls = {c1, c2}
  Limit = 1
  CountBound = 2
  None = None
SPECIFICATION Spec
SYMMETRY Symmetry
\* Without connections and handlers nothing happens; connections are bounded.
CHECK_DEADLOCK FALSE
INVARIANTS
  PassedWithinLimit
  CounterHasEnd
  SocketsAreCurrent
