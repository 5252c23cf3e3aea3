\* The resolver: two subjects, so that a bulk resolution is interrupted between them, and
\* two resolutions at a time; every interleaving of the two with joins of the subjects.
\* The reveal: one chat with both participants, two listeners each.  The scopes: a user with
\* a default, one Cirvia and one chat, and one toggle of each kind.  All three are finite
\* without bounds.  A user whose profile has a name that is refused can do nothing: such a
\* behaviour ends.
CONSTANTS
  Subjects = {u1, u2}
  Tasks = {t1, t2}
  Levels = {"ANONYMOUS", "FULL"}
  None = None
  Listeners = {l1, l2}
  Cirvias = {c1}
  Chats = {ch1}
  NoScope = NoScope
SPECIFICATION IdentitySpec
SYMMETRY Symmetry
INVARIANTS
  VisibleOnlyWithConsent
  VisibleCanRevoke
  StoredScopeCoversResolver
  WithdrawalIsHeard
  ChosenDefaultIsAlone
  DuplicatesBounded
  AnswersWereCurrent
PROPERTY ExcessIsKept
CHECK_DEADLOCK FALSE
