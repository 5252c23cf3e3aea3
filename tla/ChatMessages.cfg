\* Two processes and two users, so that either process may have either user's socket;
\* one message, since no step is about two.
CONSTANTS
  Processes = {p1, p2}
  Users = {u1, u2}
  Messages = {m1}
  MaxWire = 2
  None = None
SPECIFICATION Spec
SYMMETRY Symmetry
INVARIANTS
  ChatsPerPair
  DeletedIsTakenAway
  ReadingIsReported
