CONSTANTS
  Users = {u1, u2}
  Invites = {i1}
  Instances = {p1}
  ModerationOps = {"approve", "kick", "ban", "mute", "unmute"}
  NoLimit = NoLimit
  MaxUsesChoices <- MCFewUses
  MaxMembersChoices <- MCRoomForTwo
  UseBound = 2
SPECIFICATION InstSpec
SYMMETRY Symmetry
CHECK_DEADLOCK FALSE
PROPERTIES
  ImplementsAtomicHandlers
