\* Two users, two posts and two comments, so that a reply may outlive what it answers
\* or belong to another post; one like at a time, which comes and goes.
CONSTANTS
  Users = {u1, u2}
  Posts = {p1, p2}
  Comments = {c1, c2}
  Views = {v1}
  MaxLikes = 1
  None = None
SPECIFICATION Spec
SYMMETRY Symmetry
INVARIANTS
  ThreadIsWhole
  LikedIsCounted
PROPERTIES
  DeletedIsFrozen
