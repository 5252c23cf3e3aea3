CONSTANTS
  Users = {u1, u2}
  Invites = {i1}
  Instances = {p1, p2}
  ModerationOps = {"kick", "mute"}
  NoLimit = NoLimit
  MaxUsesChoices <- MCOneUse
  MaxMembersChoices <- MCNoLimit
  UseBound = 3
SPECIFICATION InstSpec
SYMMETRY FullSymmetry
CHECK_DEADLOCK FALSE
INVARIANTS
  OvershootBounded
