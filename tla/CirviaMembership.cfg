\* Three users: an owner, a second member of staff and a target.  One invite of
\* one, two or unlimited uses; capacity one, two or none.
CONSTANTS
  u1 = u1
  u2 = u2
  u3 = u3
  Users <- MCUsers
  Invites = {i1}
  NoLimit = NoLimit
  MaxUsesChoices <- MCLimits
  MaxMembersChoices <- MCLimits
  UseBound = 3
\* A Cirvia without staff and usable invites accepts no call: it really stops.
CHECK_DEADLOCK FALSE
SPECIFICATION Spec
SYMMETRY Symmetry
INVARIANTS
  InviteWithinLimit
  RowInv
PROPERTIES
  JoinRespectsCapacity
  LastOwnerKept
  OwnershipIsNotRegained
  AdmissionNeedsStaff
