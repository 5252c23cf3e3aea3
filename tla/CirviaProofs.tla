------------------------------ MODULE CirviaProofs ------------------------------
(***************************************************************************)
(* Proofs about the Cirvia: the atomic handlers of CirviaMembership first, *)
(* then the handlers split into statements of CirviaInstances, for every   *)
(* set of users and invites, all limits and every number of API processes, *)
(* and last that a single process implements the atomic handlers.          *)
(***************************************************************************)
EXTENDS CirviaInstances, FiniteSetTheorems, TLAPS

-----------------------------------------------------------------------------
(* Typing *)

\* Redeeming an invite leaves a well-formed row, whether the user had one or not.
LEMMA JoinedRowType ==
  ASSUME TypeOK, NEW u \in Users
  PROVE  JoinedRow(u) \in MemberRows
<1>1. JoinStatus \in Statuses
  BY DEF JoinStatus, Statuses
<1>2. member[u].mutedUntil \in MutedUntil
  BY DEF TypeOK, MemberRows, NoRow, MutedUntil
<1>3. QED BY <1>1, <1>2 DEF JoinedRow, MemberRows, Roles

\* Every step keeps every column within its type.
LEMMA NextTypeOK == TypeOK /\ [Next]_vars => TypeOK'
<1> SUFFICES ASSUME TypeOK, [Next]_vars PROVE TypeOK'
  OBVIOUS
<1> USE DEF TypeOK, cirviaVars, scopeVars
<1>1. ASSUME NEW u \in Users, NEW approval \in BOOLEAN, NEW limit \in MaxMembersChoices,
             Create(u, approval, limit)
      PROVE TypeOK'
  BY <1>1 DEF Create, ensureScopes, MemberRows, Roles, Statuses, MutedUntil
<1>2. ASSUME NEW i \in Invites, NEW a \in Users, NEW limit \in MaxUsesChoices,
             CreateInvite(a, i, limit)
      PROVE TypeOK'
  BY <1>2 DEF CreateInvite, InviteRows, InvitePhases
<1>3. ASSUME NEW i \in Invites, NEW u \in Users, Join(u, i)
      PROVE TypeOK'
  <2>1. member' \in [Users -> MemberRows \cup {NoRow}]
    BY <1>3, JoinedRowType DEF Join
  <2>2. invite' \in [Invites -> InviteRows]
    BY <1>3 DEF Join, InviteRows
  <2>3. QED BY <1>3, <2>1, <2>2 DEF Join, ensureScopes
<1>4. ASSUME NEW i \in Invites, ExpireInvite(i) \/ DeactivateInvite(i)
      PROVE TypeOK'
  BY <1>4 DEF ExpireInvite, DeactivateInvite, InviteRows, InvitePhases
<1>5. ASSUME NEW a \in Users, NEW t \in Users, NEW until \in MutedUntil, NEW newRole \in Roles,
             \/ ApproveMember(a, t)
             \/ KickMember(a, t)
             \/ BanMember(a, t, until)
             \/ MuteMember(a, t, until)
             \/ UnmuteMember(a, t)
             \/ UpdateRole(a, t, newRole)
      PROVE TypeOK'
  BY <1>5 DEF ApproveMember, KickMember, BanMember, MuteMember, UnmuteMember, UpdateRole,
              SetStatus, SetStatusAndMute, HasRow, assertTargetNotOwner,
              MemberRows, Roles, Statuses, MutedUntil
<1>6. ASSUME NEW u \in Users, ExpireMute(u)
      PROVE TypeOK'
  BY <1>6 DEF ExpireMute, MemberRows, NoRow, MutedUntil
<1>7. CASE UNCHANGED vars
  BY <1>7 DEF vars
<1>8. QED
  BY <1>1, <1>2, <1>3, <1>4, <1>5, <1>6, <1>7 DEF Next, InviteNext, ModerationNext, MutedUntil, Roles

\* Every column holds a value of its type in every reachable state.
THEOREM TypeCorrect == Spec => []TypeOK
<1>1. Init => TypeOK
  <2> SUFFICES ASSUME Init PROVE TypeOK
    OBVIOUS
  <2>1. created \in BOOLEAN /\ requireApproval \in BOOLEAN
    BY Zenon DEF Init
  <2>2. invite \in [Invites -> InviteRows]
    BY DEF Init, InviteRows, InvitePhases
  <2>3. member \in [Users -> MemberRows \cup {NoRow}]
    BY Zenon DEF Init
  <2>4. QED BY <2>1, <2>2, <2>3 DEF Init, TypeOK
<1>2. QED
  BY <1>1, NextTypeOK, PTL DEF Spec

-----------------------------------------------------------------------------
(* Invariants.  Each is inductive together with TypeOK. *)

\* A moderation call: what the six handlers have in common.
LEMMA ModerationStep ==
  ASSUME TypeOK, NEW a \in Users, NEW t \in Users,
         NEW until \in MutedUntil, NEW newRole \in Roles,
         \/ ApproveMember(a, t)
         \/ KickMember(a, t)
         \/ BanMember(a, t, until)
         \/ MuteMember(a, t, until)
         \/ UnmuteMember(a, t)
         \/ UpdateRole(a, t, newRole)
  PROVE  /\ HasRow(t)
         /\ HasRow(t)'
         /\ \A u \in Users \ {t} : member'[u] = member[u]
         /\ requireRole(a, "MODERATOR")
         /\ UNCHANGED <<cirviaVars, invite, scopeVars>>
<1> USE DEF ApproveMember, KickMember, BanMember, MuteMember, UnmuteMember, UpdateRole
<1>1. HasRow(t)
  BY DEF assertTargetNotOwner
<1>2. /\ \A u \in Users \ {t} : member'[u] = member[u]
      /\ HasRow(t)'
  BY <1>1 DEF SetStatus, SetStatusAndMute, HasRow, TypeOK, MemberRows, NoRow, Roles, Statuses
<1>3. requireRole(a, "MODERATOR")
  <2>1. member[a].role \in Roles \cup {"NONE"}
    BY DEF TypeOK, MemberRows, NoRow
  <2>2. requireRole(a, "MODERATOR") \/ requireRole(a, "ADMIN") \/ requireRole(a, "OWNER")
    OBVIOUS
  <2>3. Effective(a) /\ member[a].role # "NONE"
    BY <2>2 DEF requireRole, Effective, TypeOK, MemberRows, NoRow, Roles
  <2>4. QED BY <2>1, <2>2, <2>3 DEF requireRole, hasRoleAtLeast, roleRank, Roles
<1>4. QED BY <1>1, <1>2, <1>3

\* An invite is never used more often than its maxUses.
THEOREM InviteLimit == Spec => []InviteWithinLimit
<1>1. Init => InviteWithinLimit
  BY DEF Init, InviteWithinLimit
<1>2. TypeOK /\ InviteWithinLimit /\ [Next]_vars => InviteWithinLimit'
  <2> SUFFICES ASSUME TypeOK, InviteWithinLimit, [Next]_vars
               PROVE  InviteWithinLimit'
    OBVIOUS
  <2> USE DEF InviteWithinLimit
  <2>1. ASSUME NEW i \in Invites, NEW a \in Users, NEW limit \in MaxUsesChoices,
               CreateInvite(a, i, limit)
        PROVE InviteWithinLimit'
    BY <2>1, LimitsAssumption DEF CreateInvite, TypeOK
  <2>2. ASSUME NEW i \in Invites, NEW u \in Users, Join(u, i)
        PROVE InviteWithinLimit'
    BY <2>2, LimitsAssumption DEF Join, WithinLimit, TypeOK, InviteRows
  <2>3. ASSUME NEW i \in Invites, ExpireInvite(i) \/ DeactivateInvite(i)
        PROVE InviteWithinLimit'
    BY <2>3 DEF ExpireInvite, DeactivateInvite, TypeOK, InviteRows
  <2>4. CASE UNCHANGED invite
    BY <2>4
  <2>5. QED
    <3>1. CASE InviteNext
      BY <3>1, <2>1, <2>2, <2>3 DEF InviteNext
    <3>2. CASE ModerationNext
      BY <3>2, <2>4, ModerationStep DEF ModerationNext, MutedUntil, Roles
    <3>3. QED
      BY <3>1, <3>2, <2>4 DEF Next, Create, ExpireMute, vars
<1>3. QED
  BY <1>1, <1>2, TypeCorrect, PTL DEF Spec

LEMMA RowInvStep == TypeOK /\ RowInv /\ [Next]_vars => RowInv'
<1> SUFFICES ASSUME TypeOK, RowInv, [Next]_vars PROVE RowInv'
  OBVIOUS
<1> USE DEF RowInv, MutedHasDeadline, NoRemovedOwner, ScopesFollowMembership
<1>1. ASSUME NEW u \in Users, NEW approval \in BOOLEAN, NEW limit \in MaxMembersChoices,
             Create(u, approval, limit)
      PROVE RowInv'
  BY <1>1 DEF Create, ensureScopes, HasRow, TypeOK
<1>2. ASSUME NEW i \in Invites, NEW u \in Users, Join(u, i)
      PROVE RowInv'
  BY <1>2 DEF Join, JoinedRow, JoinStatus, ensureScopes, HasRow, TypeOK
<1>3. ASSUME NEW a \in Users, NEW t \in Users, NEW until \in MutedUntil, NEW newRole \in Roles,
             \/ ApproveMember(a, t)
             \/ KickMember(a, t)
             \/ BanMember(a, t, until)
             \/ MuteMember(a, t, until)
             \/ UnmuteMember(a, t)
             \/ UpdateRole(a, t, newRole)
      PROVE RowInv'
  <2>1. ScopesFollowMembership'
    BY <1>3, ModerationStep DEF scopeVars, HasRow
  <2>2. MutedHasDeadline'
    BY <1>3 DEF ApproveMember, KickMember, BanMember, MuteMember, UnmuteMember, UpdateRole,
                SetStatus, SetStatusAndMute, HasRow, TypeOK, MemberRows, NoRow
  <2>3. NoRemovedOwner'
    BY <1>3 DEF ApproveMember, KickMember, BanMember, MuteMember, UnmuteMember, UpdateRole,
                SetStatus, SetStatusAndMute, HasRow, assertTargetNotOwner, TypeOK, MemberRows, NoRow
  <2>4. QED BY <2>1, <2>2, <2>3
<1>4. ASSUME NEW u \in Users, ExpireMute(u)
      PROVE RowInv'
  <2>1. member[u] \in MemberRows
    BY <1>4 DEF ExpireMute, NoRow, TypeOK
  <2>2. /\ \A v \in Users \ {u} : member'[v] = member[v]
        /\ member'[u].role = member[u].role
        /\ member'[u].status = member[u].status
        /\ member'[u].mutedUntil = "past"
    BY <1>4, <2>1 DEF ExpireMute, TypeOK, MemberRows
  <2>3. HasRow(u)
    BY <2>1 DEF HasRow, NoRow, MemberRows, Roles
  <2>4. QED BY <1>4, <2>2, <2>3 DEF ExpireMute, HasRow, scopeVars
<1>5. CASE UNCHANGED <<member, scopeVars>>
  BY <1>5 DEF scopeVars, HasRow
<1>6. QED
  <2>1. CASE InviteNext
    BY <2>1, <1>2, <1>5 DEF InviteNext, CreateInvite, ExpireInvite, DeactivateInvite
  <2>2. CASE ModerationNext
    BY <2>2, <1>3 DEF ModerationNext, MutedUntil, Roles
  <2>3. CASE UNCHANGED vars
    BY <2>3, <1>5 DEF vars
  <2>4. QED
    BY <2>1, <2>2, <2>3, <1>1, <1>4 DEF Next

\* A MUTED member has a deadline, no OWNER is REMOVED, and every membership row
\* comes with its two identity scopes.
THEOREM RowsConsistent == Spec => []RowInv
<1>1. Init => RowInv
  <2> SUFFICES ASSUME Init, NEW u \in Users PROVE member[u] = NoRow
    BY DEF RowInv, MutedHasDeadline, NoRemovedOwner, ScopesFollowMembership, HasRow, NoRow
  <2> QED BY Zenon DEF Init
<1>2. QED
  BY <1>1, RowInvStep, TypeCorrect, PTL DEF Spec

-----------------------------------------------------------------------------
(* Action properties *)

\* Redeeming an invite is the only step that raises a usesCount, and it does.
LEMMA JoinUsesInvite ==
  ASSUME TypeOK, NEW i \in Invites, NEW u \in Users, Join(u, i)
  PROVE  AnInviteIsUsed
BY DEF Join, AnInviteIsUsed, TypeOK, InviteRows

\* A set with more than one element has one that differs from a given element.
LEMMA AnotherElement ==
  ASSUME NEW S, IsFiniteSet(S), Cardinality(S) > 1, NEW e
  PROVE  \E x \in S : x # e
<1> SUFFICES ASSUME \A x \in S : x = e PROVE FALSE
  OBVIOUS
<1>1. S \subseteq {e}
  OBVIOUS
<1>2. IsFiniteSet({e}) /\ Cardinality({e}) = 1
  BY FS_Singleton
<1>3. Cardinality(S) <= 1 /\ Cardinality(S) \in Nat
  BY <1>1, <1>2, FS_Subset, FS_CardinalityType
<1>4. QED BY <1>3

\* Where a moderation call is made by an owner, or spares owners, an owner who can
\* act remains.
LEMMA ModerationKeepsOwner ==
  ASSUME TypeOK, HasEffectiveOwner, ModerationNext
  PROVE  HasEffectiveOwner'
<1> PICK o \in Users : member[o].role = "OWNER" /\ Effective(o)
  BY DEF HasEffectiveOwner
<1> PICK a \in Users, t \in Users, until \in MutedUntil, newRole \in Roles :
      \/ ApproveMember(a, t)
      \/ KickMember(a, t)
      \/ BanMember(a, t, until)
      \/ MuteMember(a, t, until)
      \/ UnmuteMember(a, t)
      \/ UpdateRole(a, t, newRole)
  BY DEF ModerationNext, MutedUntil, Roles
<1>1. member[o] \in MemberRows /\ \A u \in Users \ {t} : member'[u] = member[u]
  BY ModerationStep DEF TypeOK, Effective, NoRow
<1>2. CASE o # t
  BY <1>1, <1>2 DEF HasEffectiveOwner, Effective
<1>3. CASE o = t /\ ~\E r \in Roles : UpdateRole(a, t, r)
  <2>1. ApproveMember(a, t)
    BY <1>3 DEF KickMember, BanMember, MuteMember, UnmuteMember, assertTargetNotOwner
  <2>2. member'[t].role = "OWNER" /\ member'[t].status = "ACTIVE"
    BY <2>1, <1>1, <1>3 DEF ApproveMember, SetStatus, TypeOK, MemberRows
  <2>3. QED BY <2>2 DEF HasEffectiveOwner, Effective
<1>4. ASSUME NEW r \in Roles, UpdateRole(a, t, r), o = t, a # t
      PROVE  HasEffectiveOwner'
  <2>1. Effective(a) /\ member[a].role = "OWNER"
    <3>1. requireRole(a, "OWNER")
      BY <1>4 DEF UpdateRole
    <3>2. member[a].role \in Roles
      BY <3>1 DEF requireRole, Effective, TypeOK, MemberRows, NoRow
    <3>3. QED BY <3>1, <3>2 DEF requireRole, hasRoleAtLeast, roleRank, Roles
  <2>2. QED BY <2>1, <1>1, <1>4 DEF HasEffectiveOwner, Effective
<1>5. ASSUME NEW r \in Roles, UpdateRole(a, t, r), a = t, r # "OWNER"
      PROVE  HasEffectiveOwner'
  <2>1. Cardinality(ActiveOwners) > 1
    BY <1>5 DEF UpdateRole
  <2>2. IsFiniteSet(ActiveOwners)
    BY UsersAssumption, FS_Subset DEF ActiveOwners
  <2>3. PICK x \in ActiveOwners : x # t
    BY <2>1, <2>2, AnotherElement
  <2>4. QED BY <2>3, <1>1 DEF ActiveOwners, HasEffectiveOwner, Effective
<1>6. ASSUME UpdateRole(a, t, "OWNER"), o = t
      PROVE  HasEffectiveOwner'
  <2>1. member'[t].role = "OWNER" /\ member'[t].status = member[t].status
    BY <1>6, <1>1 DEF UpdateRole, TypeOK, MemberRows
  <2>2. QED BY <2>1, <1>6 DEF HasEffectiveOwner, Effective
<1>7. QED BY <1>2, <1>3, <1>4, <1>5, <1>6

\* The Cirvia loses its last owner who can act only when an invite is redeemed.
THEOREM LastOwner == Spec => LastOwnerKept
<1>1. TypeOK /\ [Next]_vars => [HasEffectiveOwner /\ ~HasEffectiveOwner' => AnInviteIsUsed]_vars
  <2> SUFFICES ASSUME TypeOK, Next, HasEffectiveOwner, ~HasEffectiveOwner' PROVE AnInviteIsUsed
    OBVIOUS
  <2>1. ASSUME NEW i \in Invites, NEW u \in Users, Join(u, i)
        PROVE  AnInviteIsUsed
    BY <2>1, JoinUsesInvite
  <2>2. ~ModerationNext
    BY ModerationKeepsOwner
  <2>3. member' # member
    BY DEF HasEffectiveOwner, Effective
  <2>4. ASSUME NEW u \in Users, NEW approval \in BOOLEAN, NEW limit \in MaxMembersChoices,
               Create(u, approval, limit)
        PROVE  FALSE
    <3>1. member'[u].role = "OWNER" /\ member'[u].status = "ACTIVE"
      BY <2>4 DEF Create, TypeOK
    <3>2. QED BY <3>1 DEF HasEffectiveOwner, Effective
  <2>5. ASSUME NEW u \in Users, ExpireMute(u)
        PROVE  FALSE
    <3>1. PICK o \in Users : member[o].role = "OWNER" /\ Effective(o)
      BY DEF HasEffectiveOwner
    <3>2. member[o] \in MemberRows
      BY <3>1 DEF TypeOK, NoRow, Effective
    <3>3. member'[o].role = member[o].role /\ member'[o].status = member[o].status
      BY <2>5, <3>2 DEF ExpireMute, TypeOK, MemberRows
    <3>4. QED BY <3>1, <3>3 DEF HasEffectiveOwner, Effective
  <2>6. QED
    BY <2>1, <2>2, <2>3, <2>4, <2>5
       DEF Next, InviteNext, CreateInvite, ExpireInvite, DeactivateInvite
<1>2. QED
  BY <1>1, TypeCorrect, PTL DEF Spec, LastOwnerKept

\* Once a created Cirvia has no owner, it never gets one.
THEOREM NoOwnerAgain == Spec => OwnershipIsNotRegained
<1>1. TypeOK /\ [Next]_vars => [created /\ ~HasOwner => ~HasOwner']_vars
  <2> SUFFICES ASSUME TypeOK, Next, created, ~HasOwner, NEW o \in Users, member'[o].role = "OWNER"
               PROVE  FALSE
    BY DEF HasOwner
  <2>1. \A u \in Users : member[u].role # "OWNER" /\ ~requireRole(u, "OWNER")
    <3> TAKE u \in Users
    <3>1. member[u].role # "OWNER" /\ member[u].role \in Roles \cup {"NONE"}
      BY DEF HasOwner, TypeOK, MemberRows, NoRow
    <3>2. Effective(u) => member[u].role \in Roles
      BY DEF Effective, TypeOK, MemberRows, NoRow
    <3>3. QED BY <3>1, <3>2 DEF requireRole, hasRoleAtLeast, roleRank, Roles
  <2>2. ASSUME NEW i \in Invites, NEW u \in Users, Join(u, i)
        PROVE  FALSE
    BY <2>1, <2>2 DEF Join, JoinedRow, TypeOK
  <2>3. ~ModerationNext
    <3> SUFFICES ASSUME NEW a \in Users, NEW t \in Users, NEW until \in MutedUntil, NEW newRole \in Roles,
                        \/ ApproveMember(a, t)
                        \/ KickMember(a, t)
                        \/ BanMember(a, t, until)
                        \/ MuteMember(a, t, until)
                        \/ UnmuteMember(a, t)
                        \/ UpdateRole(a, t, newRole)
                 PROVE  FALSE
      BY DEF ModerationNext, MutedUntil, Roles
    <3>1. ~UpdateRole(a, t, newRole)
      BY <2>1 DEF UpdateRole
    <3>2. HasRow(t) /\ \A u \in Users \ {t} : member'[u] = member[u]
      BY ModerationStep
    <3>3. member'[t].role = member[t].role
      BY <3>1, <3>2 DEF ApproveMember, KickMember, BanMember, MuteMember, UnmuteMember,
                        SetStatus, SetStatusAndMute, HasRow, TypeOK, MemberRows
    <3>4. QED BY <2>1, <3>2, <3>3
  <2>4. ASSUME NEW u \in Users, ExpireMute(u)
        PROVE  FALSE
    <3>1. member[u] \in MemberRows
      BY <2>4 DEF ExpireMute, TypeOK, NoRow
    <3>2. member'[o].role = member[o].role
      BY <2>4, <3>1 DEF ExpireMute, TypeOK, MemberRows
    <3>3. QED BY <2>1, <3>2
  <2>5. ASSUME UNCHANGED member
        PROVE  FALSE
    BY <2>1, <2>5
  <2>6. QED
    BY <2>2, <2>3, <2>4, <2>5
       DEF Next, Create, InviteNext, CreateInvite, ExpireInvite, DeactivateInvite
<1>2. QED
  BY <1>1, TypeCorrect, PTL DEF Spec, OwnershipIsNotRegained

\* Where approval is required, only staff lets somebody in.
THEOREM Admission == Spec => AdmissionNeedsStaff
<1> DEFINE Admitted(u) == ~Effective(u) /\ Effective(u)' => \E a \in Users \ {u} : requireRole(a, "MODERATOR")
<1>1. TypeOK /\ [Next]_vars => [created /\ requireApproval => \A u \in Users : Admitted(u)]_vars
  <2> SUFFICES ASSUME TypeOK, Next, created, requireApproval, NEW u \in Users,
                      ~Effective(u), Effective(u)'
               PROVE  \E a \in Users \ {u} : requireRole(a, "MODERATOR")
    OBVIOUS
  <2>1. ASSUME NEW i \in Invites, NEW v \in Users, Join(v, i)
        PROVE  FALSE
    BY <2>1 DEF Join, JoinedRow, JoinStatus, Effective, TypeOK
  <2>2. ASSUME NEW v \in Users, ExpireMute(v)
        PROVE  FALSE
    <3>1. member[v] \in MemberRows
      BY <2>2 DEF ExpireMute, TypeOK, NoRow
    <3>2. member'[u].status = member[u].status
      BY <2>2, <3>1 DEF ExpireMute, TypeOK, MemberRows
    <3>3. QED BY <3>2 DEF Effective
  <2>3. ASSUME UNCHANGED member
        PROVE  FALSE
    BY <2>3 DEF Effective
  <2>4. CASE ModerationNext
    <3> PICK a \in Users, t \in Users, until \in MutedUntil, newRole \in Roles :
          \/ ApproveMember(a, t)
          \/ KickMember(a, t)
          \/ BanMember(a, t, until)
          \/ MuteMember(a, t, until)
          \/ UnmuteMember(a, t)
          \/ UpdateRole(a, t, newRole)
      BY <2>4 DEF ModerationNext, MutedUntil, Roles
    <3>1. requireRole(a, "MODERATOR")
      BY ModerationStep
    <3>2. a # u
      BY <3>1 DEF requireRole
    <3>3. QED BY <3>1, <3>2
  <2>5. QED
    BY <2>1, <2>2, <2>3, <2>4
       DEF Next, Create, InviteNext, CreateInvite, ExpireInvite, DeactivateInvite
<1>2. QED
  BY <1>1, TypeCorrect, PTL DEF Spec, AdmissionNeedsStaff

\* A step that redeems an invite redeems it for one user, while there is a place.
LEMMA OnlyJoinUses ==
  ASSUME TypeOK, Next, AnInviteIsUsed
  PROVE  \E i \in Invites, u \in Users : Join(u, i)
<1>1. PICK j \in Invites : invite'[j].uses > invite[j].uses
  BY DEF AnInviteIsUsed
<1>2. invite[j].uses \in Nat
  BY DEF TypeOK, InviteRows
<1>3. ASSUME NEW i \in Invites, NEW a \in Users, NEW limit \in MaxUsesChoices, CreateInvite(a, i, limit)
      PROVE  FALSE
  BY <1>1, <1>2, <1>3 DEF CreateInvite, TypeOK
<1>4. ASSUME NEW i \in Invites, ExpireInvite(i) \/ DeactivateInvite(i)
      PROVE  FALSE
  BY <1>1, <1>2, <1>4 DEF ExpireInvite, DeactivateInvite, TypeOK, InviteRows
<1>5. ~(UNCHANGED invite)
  BY <1>1, <1>2
<1>6. ~ModerationNext
  BY <1>5, ModerationStep DEF ModerationNext, MutedUntil, Roles
<1>7. QED BY <1>3, <1>4, <1>5, <1>6 DEF Next, InviteNext, Create, ExpireMute

\* A join keeps the number of effective members within maxMembers.
THEOREM Capacity == Spec => JoinRespectsCapacity
<1>1. TypeOK /\ [Next]_vars
        => [AnInviteIsUsed /\ maxMembers # NoLimit => countActiveMembers' <= maxMembers]_vars
  <2> SUFFICES ASSUME TypeOK, Next, AnInviteIsUsed, maxMembers # NoLimit
               PROVE  countActiveMembers' <= maxMembers
    OBVIOUS
  <2>1. PICK i \in Invites, u \in Users : Join(u, i)
    BY OnlyJoinUses
  <2> DEFINE Before == {v \in Users : Effective(v)}
             After  == {v \in Users : Effective(v)'}
  <2>2. IsFiniteSet(Before) /\ IsFiniteSet(After)
    BY UsersAssumption, FS_Subset
  <2>3. After \subseteq Before \cup {u}
    BY <2>1 DEF Join, Effective, TypeOK
  <2>4. /\ IsFiniteSet(Before \cup {u})
        /\ Cardinality(Before \cup {u}) <= Cardinality(Before) + 1
        /\ Cardinality(Before) \in Nat
    <3> HIDE DEF Before
    <3>1. Cardinality(Before) \in Nat
      BY <2>2, FS_CardinalityType
    <3>2. /\ IsFiniteSet(Before \cup {u})
          /\ \/ Cardinality(Before \cup {u}) = Cardinality(Before)
             \/ Cardinality(Before \cup {u}) = Cardinality(Before) + 1
      BY <2>2, FS_AddElement, Zenon
    <3>3. QED BY <3>1, <3>2
  <2>5. Cardinality(After) <= Cardinality(Before \cup {u}) /\ Cardinality(After) \in Nat
    BY <2>2, <2>3, <2>4, FS_Subset, FS_CardinalityType
  <2>6. maxMembers \in Nat /\ Cardinality(Before) < maxMembers
    BY <2>1, LimitsAssumption DEF Join, WithinLimit, countActiveMembers, TypeOK
  <2>7. countActiveMembers' = Cardinality(After)
    BY DEF countActiveMembers
  <2>8. QED
    <3> HIDE DEF Before, After
    <3>1. Cardinality(Before \cup {u}) \in Nat
      BY <2>4, FS_CardinalityType
    <3>2. QED BY <2>4, <2>5, <2>6, <2>7, <3>1
<1>2. QED
  BY <1>1, TypeCorrect, PTL DEF Spec, JoinRespectsCapacity

-----------------------------------------------------------------------------
(* Typing.  The writes do not look at the row again, so the database stays     *)
(* well typed only because a row, once inserted, is never deleted.             *)

Updating(p) == request[p].op \in ModerationOps \cup {"updateRole"} /\ request[p].stage \in {"owners", "write"}

TargetsExist == \A p \in Instances : Updating(p) => HasRow(request[p].target)

InstTypeInv == InstTypeOK /\ TargetsExist

\* The kinds of requests are told apart by their op.
LEMMA RequestKinds ==
  ASSUME InstTypeOK, NEW p \in Instances
  PROVE  /\ request[p].op = "join" => request[p] \in JoinRequests
         /\ request[p].op = "createInvite" => request[p] \in CreateInviteRequests
         /\ request[p].op = "updateRole" => request[p] \in UpdateRoleRequests
         /\ request[p].op \in ModerationOps => request[p] \in ModerationRequests
         /\ request[p] = Idle \/ request[p].op # "idle"
<1>1. request[p] \in Requests
  BY DEF InstTypeOK
<1>2. QED
  BY <1>1, OpsAssumption
     DEF Requests, Idle, JoinRequests, CreateInviteRequests, UpdateRoleRequests, ModerationRequests

\* Moving a request on leaves a request of the same kind and on the same data.
LEMMA GoToKeepsKind ==
  ASSUME InstTypeOK, NEW p \in Instances, NEW stage, request[p] # Idle, GoTo(p, stage),
         \/ request[p].op = "join" /\ stage \in {"count", "write", "reply"}
         \/ request[p].op = "createInvite" /\ stage \in {"write", "reply"}
         \/ request[p].op = "updateRole" /\ stage \in {"target", "owners", "write", "reply"}
         \/ request[p].op \in ModerationOps /\ stage \in {"target", "write", "reply"}
  PROVE  request' \in [Instances -> Requests]
<1>1. request' = [request EXCEPT ![p] = [request[p] EXCEPT !.stage = stage]]
  BY DEF GoTo
<1>2. [request[p] EXCEPT !.stage = stage] \in Requests
  <2>1. CASE request[p].op = "join"
    BY <2>1, RequestKinds, OpsAssumption DEF Requests, JoinRequests
  <2>2. CASE request[p].op = "createInvite"
    BY <2>2, RequestKinds, OpsAssumption DEF Requests, CreateInviteRequests
  <2>3. CASE request[p].op = "updateRole"
    BY <2>3, RequestKinds, OpsAssumption DEF Requests, UpdateRoleRequests
  <2>4. CASE request[p].op \in ModerationOps
    BY <2>4, RequestKinds, OpsAssumption DEF Requests, ModerationRequests
  <2>5. QED BY <2>1, <2>2, <2>3, <2>4
<1>3. QED BY <1>1, <1>2 DEF InstTypeOK

\* A row, once there, stays: the writes change columns of rows that exist.
LEMMA RowsStay ==
  ASSUME TypeOK, NEW t \in Users, HasRow(t), NEW row \in MemberRows, member' = [member EXCEPT ![t] = row]
  PROVE  /\ member' \in [Users -> MemberRows \cup {NoRow}]
         /\ \A u \in Users : HasRow(u) => HasRow(u)'
BY DEF TypeOK, HasRow, MemberRows, NoRow, Roles

\* The first statements leave the database alone and record a known request.
LEMMA BeginTypes ==
  ASSUME InstTypeInv, NEW p \in Instances, BeginRequest(p)
  PROVE  InstTypeInv'
<1> USE DEF InstTypeInv
<1>1. ASSUME NEW u \in Users, NEW i \in Invites, BeginJoin(p, u, i)
      PROVE  InstTypeInv'
  <2> DEFINE req == [op |-> "join", user |-> u, invite |-> i, stage |-> IF maxMembers = NoLimit THEN "write" ELSE "count"]
  <2>1. req \in Requests /\ req.op = "join" /\ "join" \notin ModerationOps
    BY OpsAssumption DEF Requests, JoinRequests
  <2>2. QED
    BY <1>1, <2>1, OpsAssumption DEF BeginJoin, vars, cirviaVars, scopeVars, InstTypeOK, TypeOK, TargetsExist, Updating, HasRow
<1>2. ASSUME NEW u \in Users, NEW i \in Invites, BeginCreateInvite(p, u, i)
      PROVE  InstTypeInv'
  <2> DEFINE req == [op |-> "createInvite", invite |-> i, stage |-> "write"]
  <2>1. req \in Requests /\ req.op = "createInvite" /\ "createInvite" \notin ModerationOps
    BY OpsAssumption DEF Requests, CreateInviteRequests
  <2>2. QED
    BY <1>2, <2>1, OpsAssumption DEF BeginCreateInvite, vars, cirviaVars, scopeVars, InstTypeOK, TypeOK, TargetsExist, Updating, HasRow
<1>3. ASSUME NEW a \in Users, NEW t \in Users, NEW op \in ModerationOps, BeginModeration(p, op, a, t)
      PROVE  InstTypeInv'
  <2> DEFINE req == [op |-> op, target |-> t, stage |-> "target"]
  <2>1. req \in Requests /\ req.stage = "target"
    BY DEF Requests, ModerationRequests
  <2>2. QED
    BY <1>3, <2>1, OpsAssumption DEF BeginModeration, vars, cirviaVars, scopeVars, InstTypeOK, TypeOK, TargetsExist, Updating, HasRow
<1>4. ASSUME NEW a \in Users, NEW t \in Users, NEW newRole \in Roles, BeginUpdateRole(p, a, t, newRole)
      PROVE  InstTypeInv'
  <2> DEFINE req == [op |-> "updateRole", target |-> t, role |-> newRole, self |-> (a = t), stage |-> "target"]
  <2>1. req \in Requests /\ req.stage = "target"
    BY DEF Requests, UpdateRoleRequests
  <2>2. QED
    BY <1>4, <2>1, OpsAssumption DEF BeginUpdateRole, vars, cirviaVars, scopeVars, InstTypeOK, TypeOK, TargetsExist, Updating, HasRow
<1>5. QED BY <1>1, <1>2, <1>3, <1>4 DEF BeginRequest

\* The checks leave the database alone, and those before an UPDATE find the row.
LEMMA CheckTypes ==
  ASSUME InstTypeInv, NEW p \in Instances,
         CountMembers(p) \/ CheckTarget(p) \/ CheckRoleTarget(p) \/ CountOwners(p) \/ Reply(p) \/ Fail(p)
  PROVE  InstTypeInv'
<1>1. UNCHANGED vars
  BY DEF CountMembers, CheckTarget, CheckRoleTarget, CountOwners, Reply, Fail
<1>2. TypeOK'
  BY <1>1 DEF InstTypeInv, InstTypeOK, TypeOK, vars, cirviaVars, scopeVars
<1>3. \A q \in Instances \ {p} : request'[q] = request[q]
  BY DEF CountMembers, CheckTarget, CheckRoleTarget, CountOwners, Reply, Fail, GoTo, InstTypeInv, InstTypeOK
<1>4. request' \in [Instances -> Requests] /\ (Updating(p)' => HasRow(request'[p].target))
  <2>1. CASE CountMembers(p)
    <3>1. request[p] \in JoinRequests /\ request[p] # Idle
      BY <2>1, RequestKinds DEF CountMembers, Running, InstTypeInv, JoinRequests, Idle
    <3>2. request' \in [Instances -> Requests]
      BY <2>1, <3>1, GoToKeepsKind DEF CountMembers, Running, InstTypeInv
    <3>3. request'[p].op = "join"
      BY <2>1, <3>1 DEF CountMembers, GoTo, InstTypeInv, InstTypeOK, JoinRequests
    <3>4. QED BY <3>2, <3>3, OpsAssumption DEF Updating
  <2>2. CASE CheckTarget(p)
    <3>1. request[p] \in ModerationRequests /\ request[p] # Idle /\ request[p].op \in ModerationOps
      BY <2>2, RequestKinds, OpsAssumption DEF CheckTarget, Running, InstTypeInv, ModerationRequests, Idle
    <3>2. request' \in [Instances -> Requests]
      BY <2>2, <3>1, GoToKeepsKind DEF CheckTarget, InstTypeInv
    <3>3. request'[p].target = request[p].target
      BY <2>2, <3>1 DEF CheckTarget, GoTo, InstTypeInv, InstTypeOK, ModerationRequests
    <3>4. HasRow(request[p].target)
      BY <2>2 DEF CheckTarget, assertTargetNotOwner
    <3>5. QED BY <3>2, <3>3, <3>4
  <2>3. CASE CheckRoleTarget(p) \/ CountOwners(p)
    <3>1. request[p] \in UpdateRoleRequests /\ request[p] # Idle /\ request[p].op = "updateRole"
      BY <2>3, RequestKinds DEF CheckRoleTarget, CountOwners, Running, InstTypeInv, UpdateRoleRequests, Idle
    <3>2. PICK stage \in {"owners", "write"} : GoTo(p, stage)
      BY <2>3 DEF CheckRoleTarget, CountOwners
    <3>3. request' \in [Instances -> Requests]
      BY <3>1, <3>2, GoToKeepsKind DEF InstTypeInv
    <3>4. request'[p].target = request[p].target
      BY <3>1, <3>2 DEF GoTo, InstTypeInv, InstTypeOK, UpdateRoleRequests
    <3>5. HasRow(request[p].target)
      BY <2>3, <3>1 DEF CheckRoleTarget, CountOwners, Running, InstTypeInv, TargetsExist, Updating
    <3>6. QED BY <3>3, <3>4, <3>5
  <2>4. CASE Reply(p) \/ Fail(p)
    BY <2>4, OpsAssumption DEF Reply, Fail, InstTypeInv, InstTypeOK, Requests, Idle, Updating
  <2>5. QED BY <2>1, <2>2, <2>3, <2>4
<1>5. TargetsExist'
  BY <1>1, <1>3, <1>4 DEF InstTypeInv, TargetsExist, Updating, HasRow, vars
<1>6. QED BY <1>2, <1>4, <1>5 DEF InstTypeInv, InstTypeOK

\* The writes keep the database well typed and end the request.
LEMMA WriteTypes ==
  ASSUME InstTypeInv, NEW p \in Instances,
         \/ \E limit \in MaxUsesChoices : WriteInvite(p, limit)
         \/ WriteJoin(p) \/ WriteModeration(p) \/ WriteRole(p)
  PROVE  InstTypeInv'
<1> USE DEF InstTypeInv
<1>0. TypeOK
  BY DEF InstTypeOK
<1>1. GoTo(p, "reply")
  BY DEF WriteInvite, WriteJoin, WriteModeration, WriteRole
<1>2. /\ request' \in [Instances -> Requests]
      /\ request'[p].stage = "reply"
      /\ \A q \in Instances \ {p} : request'[q] = request[q]
  <2>1. request[p] # Idle /\ request[p].op \in ModerationOps \cup {"join", "createInvite", "updateRole"}
    <3>1. request[p].op \in ModerationOps \cup {"join", "createInvite", "updateRole"} \/ request[p] = Idle
      BY DEF InstTypeOK, Requests, ModerationRequests, JoinRequests, CreateInviteRequests, UpdateRoleRequests
    <3>2. request[p].op # "idle"
      BY DEF WriteInvite, WriteJoin, WriteModeration, WriteRole, Running
    <3>3. QED BY <3>1, <3>2 DEF Idle
  <2>2. request' \in [Instances -> Requests]
    BY <1>1, <2>1, GoToKeepsKind
  <2>3. QED
    BY <1>1, <2>1, <2>2, RequestKinds
       DEF GoTo, InstTypeOK, ModerationRequests, JoinRequests, CreateInviteRequests, UpdateRoleRequests
<1>3. TypeOK' /\ \A u \in Users : HasRow(u) => HasRow(u)'
  <2>1. ASSUME NEW limit \in MaxUsesChoices, WriteInvite(p, limit)
        PROVE  TypeOK' /\ \A u \in Users : HasRow(u) => HasRow(u)'
    <3>1. request[p].invite \in Invites
      BY <2>1, RequestKinds DEF WriteInvite, Running, CreateInviteRequests
    <3>2. QED
      BY <1>0, <2>1, <3>1 DEF WriteInvite, TypeOK, InviteRows, InvitePhases, cirviaVars, scopeVars, HasRow
  <2>2. CASE WriteJoin(p)
    <3>1. request[p].invite \in Invites /\ request[p].user \in Users
      BY <2>2, RequestKinds DEF WriteJoin, Running, JoinRequests
    <3>2. JoinedRow(request[p].user) \in MemberRows
      <4>1. JoinStatus \in Statuses
        BY DEF JoinStatus, Statuses
      <4>2. member[request[p].user].mutedUntil \in MutedUntil
        BY <1>0, <3>1 DEF TypeOK, MemberRows, NoRow, MutedUntil
      <4>3. QED BY <4>1, <4>2 DEF JoinedRow, MemberRows, Roles
    <3>3. invite' \in [Invites -> InviteRows]
      BY <1>0, <2>2, <3>1 DEF WriteJoin, TypeOK, InviteRows
    <3>4. member' \in [Users -> MemberRows \cup {NoRow}] /\ \A u \in Users : HasRow(u) => HasRow(u)'
      BY <1>0, <2>2, <3>1, <3>2 DEF WriteJoin, TypeOK, HasRow, NoRow, MemberRows, Roles
    <3>5. QED
      BY <1>0, <2>2, <3>1, <3>3, <3>4 DEF WriteJoin, ensureScopes, TypeOK, cirviaVars
  <2>3. CASE WriteModeration(p)
    <3>1. request[p].op \in ModerationOps /\ request[p].stage = "write"
      BY <2>3, OpsAssumption, RequestKinds DEF WriteModeration, Running, InstTypeOK, Requests, Idle,
         ModerationRequests, JoinRequests, CreateInviteRequests, UpdateRoleRequests
    <3>2. request[p].target \in Users /\ HasRow(request[p].target)
      BY <3>1, RequestKinds DEF ModerationRequests, TargetsExist, Updating
    <3>3. \E row \in MemberRows : member' = [member EXCEPT ![request[p].target] = row]
      <4> DEFINE t == request[p].target
      <4>1. member[t] \in MemberRows
        BY <1>0, <3>2 DEF HasRow, TypeOK
      <4>2. CASE \E s \in Statuses : SetStatus(t, s)
        <5> PICK s \in Statuses : SetStatus(t, s)
          BY <4>2
        <5>1. [member[t] EXCEPT !.status = s] \in MemberRows
          BY <4>1 DEF MemberRows
        <5>2. member' = [member EXCEPT ![t] = [member[t] EXCEPT !.status = s]]
          BY DEF SetStatus
        <5>3. QED BY <5>1, <5>2
      <4>3. CASE \E s \in Statuses, m \in MutedUntil : SetStatusAndMute(t, s, m)
        <5> PICK s \in Statuses, m \in MutedUntil : SetStatusAndMute(t, s, m)
          BY <4>3
        <5>1. [role |-> member[t].role, status |-> s, mutedUntil |-> m] \in MemberRows
          BY <4>1 DEF MemberRows
        <5>2. QED BY <5>1 DEF SetStatusAndMute
      <4>4. QED BY <2>3, <4>2, <4>3 DEF WriteModeration, Statuses, MutedUntil
    <3>4. /\ member' \in [Users -> MemberRows \cup {NoRow}]
          /\ \A u \in Users : HasRow(u) => HasRow(u)'
      BY <1>0, <3>2, <3>3, RowsStay
    <3>5. QED
      BY <1>0, <2>3, <3>4 DEF WriteModeration, TypeOK, cirviaVars, scopeVars
  <2>4. CASE WriteRole(p)
    <3>1. request[p].target \in Users /\ request[p].role \in Roles /\ HasRow(request[p].target)
      BY <2>4, RequestKinds DEF WriteRole, Running, UpdateRoleRequests, TargetsExist, Updating
    <3>2. [member[request[p].target] EXCEPT !.role = request[p].role] \in MemberRows
      BY <1>0, <3>1 DEF HasRow, TypeOK, MemberRows
    <3>3. member' = [member EXCEPT ![request[p].target] = [member[request[p].target] EXCEPT !.role = request[p].role]]
      BY <2>4 DEF WriteRole
    <3>4. /\ member' \in [Users -> MemberRows \cup {NoRow}]
          /\ \A u \in Users : HasRow(u) => HasRow(u)'
      BY <1>0, <3>1, <3>2, <3>3, RowsStay
    <3>5. QED
      BY <1>0, <2>4, <3>4 DEF WriteRole, TypeOK, cirviaVars, scopeVars
  <2>5. QED BY <2>1, <2>2, <2>3, <2>4
<1>4. TargetsExist'
  <2> SUFFICES ASSUME NEW q \in Instances, Updating(q)' PROVE HasRow(request[q].target)'
    BY DEF TargetsExist
  <2>1. q # p /\ request'[q] = request[q]
    BY <1>2 DEF Updating
  <2>2. HasRow(request[q].target)
    BY <2>1 DEF Updating, TargetsExist
  <2>3. request[q].target \in Users
    BY <2>1, RequestKinds, OpsAssumption DEF Updating, ModerationRequests, UpdateRoleRequests
  <2>4. QED BY <1>3, <2>1, <2>2, <2>3
<1>5. QED BY <1>2, <1>3, <1>4 DEF InstTypeOK

LEMMA EnvironmentTypes ==
  ASSUME InstTypeInv, Environment
  PROVE  InstTypeInv'
<1> USE DEF InstTypeInv, InstTypeOK
<1>1. TypeOK' /\ \A u \in Users : HasRow(u) => HasRow(u)'
  <2>1. ASSUME NEW u \in Users, NEW approval \in BOOLEAN, NEW limit \in MaxMembersChoices,
               Create(u, approval, limit)
        PROVE  TypeOK' /\ \A v \in Users : HasRow(v) => HasRow(v)'
    BY <2>1 DEF Create, ensureScopes, TypeOK, HasRow, NoRow, MemberRows, Roles, Statuses, MutedUntil
  <2>2. ASSUME NEW i \in Invites, ExpireInvite(i) \/ DeactivateInvite(i)
        PROVE  TypeOK' /\ \A v \in Users : HasRow(v) => HasRow(v)'
    BY <2>2 DEF ExpireInvite, DeactivateInvite, InviteRows, InvitePhases, TypeOK, HasRow, cirviaVars, scopeVars
  <2>3. ASSUME NEW u \in Users, ExpireMute(u)
        PROVE  TypeOK' /\ \A v \in Users : HasRow(v) => HasRow(v)'
    <3>1. HasRow(u)
      BY <2>3 DEF ExpireMute, HasRow, NoRow
    <3>2. [member[u] EXCEPT !.mutedUntil = "past"] \in MemberRows
      BY <3>1 DEF HasRow, TypeOK, MemberRows, MutedUntil
    <3>3. member' = [member EXCEPT ![u] = [member[u] EXCEPT !.mutedUntil = "past"]]
      BY <2>3 DEF ExpireMute
    <3>4. /\ member' \in [Users -> MemberRows \cup {NoRow}]
          /\ \A v \in Users : HasRow(v) => HasRow(v)'
      BY <3>1, <3>2, <3>3, RowsStay
    <3>5. QED BY <2>3, <3>4 DEF ExpireMute, TypeOK, cirviaVars, scopeVars
  <2>4. QED BY <2>1, <2>2, <2>3 DEF Environment
<1>2. UNCHANGED request
  BY DEF Environment
<1>3. TargetsExist'
  <2> SUFFICES ASSUME NEW q \in Instances, Updating(q) PROVE HasRow(request[q].target)'
    BY <1>2 DEF TargetsExist, Updating
  <2>1. request[q].target \in Users
    BY RequestKinds, OpsAssumption DEF Updating, ModerationRequests, UpdateRoleRequests
  <2>2. QED BY <1>1, <1>2, <2>1 DEF TargetsExist, HasRow
<1>4. QED BY <1>1, <1>2, <1>3

LEMMA InstTypeStep == InstTypeInv /\ [InstNext]_instVars => InstTypeInv'
<1> SUFFICES ASSUME InstTypeInv, [InstNext]_instVars PROVE InstTypeInv'
  OBVIOUS
<1>1. CASE UNCHANGED instVars
  BY <1>1 DEF InstTypeInv, InstTypeOK, TypeOK, TargetsExist, Updating, HasRow,
     instVars, vars, cirviaVars, scopeVars
<1>2. CASE Environment
  BY <1>2, EnvironmentTypes
<1>3. QED
  BY <1>1, <1>2, BeginTypes, CheckTypes, WriteTypes DEF InstNext

LEMMA InstInitTypes == InstInit => InstTypeInv
<1> SUFFICES ASSUME InstInit PROVE InstTypeInv
  OBVIOUS
<1>1. TypeOK
  <2>1. created \in BOOLEAN /\ requireApproval \in BOOLEAN
    BY Zenon DEF InstInit, Init
  <2>2. invite \in [Invites -> InviteRows]
    BY DEF InstInit, Init, InviteRows, InvitePhases
  <2>3. member \in [Users -> MemberRows \cup {NoRow}]
    BY Zenon DEF InstInit, Init
  <2>4. QED BY <2>1, <2>2, <2>3 DEF InstInit, Init, TypeOK
<1>2. \A p \in Instances : request[p] = Idle
  BY DEF InstInit
<1>3. request \in [Instances -> Requests]
  BY DEF InstInit, Requests
<1>4. TargetsExist
  BY <1>2, OpsAssumption DEF TargetsExist, Updating, Idle
<1>5. QED BY <1>1, <1>3, <1>4 DEF InstTypeInv, InstTypeOK

\* However the processes interleave, the database stays well typed and every process
\* runs a well-formed request.
THEOREM InstTypeCorrect == InstSpec => []InstTypeOK
<1>1. InstInit => InstTypeInv
  BY InstInitTypes
<1>2. InstTypeInv => InstTypeOK
  BY DEF InstTypeInv
<1>3. QED BY <1>1, <1>2, InstTypeStep, PTL DEF InstSpec

-----------------------------------------------------------------------------
(* The overshoot of an invite *)

\* The processes that have seen invite i usable and have not used it yet.
Due(i) == {p \in Instances : request[p].op = "join" /\ request[p].stage \in {"count", "write"}
                                /\ request[p].invite = i}

\* The inductive form: each process that is due may use the invite once more.
DueInv ==
  \A i \in Invites : invite[i].maxUses # NoLimit =>
    invite[i].uses + Cardinality(Due(i)) <= invite[i].maxUses + Cardinality(Instances) - 1

LEMMA DueCardinality ==
  ASSUME NEW i \in Invites
  PROVE  /\ IsFiniteSet(Due(i)) /\ Cardinality(Due(i)) \in Nat
         /\ Cardinality(Instances) \in Nat
         /\ Cardinality(Due(i)) <= Cardinality(Instances)
BY InstancesAssumption, FS_Subset, FS_CardinalityType DEF Due

\* A step after which no more processes are due on i, and i is as before.
LEMMA DueShrinks ==
  ASSUME InstTypeOK, DueInv, NEW i \in Invites, Due(i)' \subseteq Due(i),
         invite'[i].uses = invite[i].uses, invite'[i].maxUses = invite[i].maxUses,
         invite[i].maxUses # NoLimit
  PROVE  invite'[i].uses + Cardinality(Due(i)') <= invite'[i].maxUses + Cardinality(Instances) - 1
<1>1. Cardinality(Due(i)') <= Cardinality(Due(i)) /\ Cardinality(Due(i)') \in Nat
  BY DueCardinality, FS_Subset, FS_CardinalityType
<1>2. invite[i].uses \in Nat /\ invite[i].maxUses \in Nat
  BY LimitsAssumption DEF InstTypeOK, TypeOK, InviteRows
<1>3. QED BY <1>1, <1>2, DueCardinality DEF DueInv

LEMMA DueStep == InstTypeInv /\ DueInv /\ [InstNext]_instVars => DueInv'
<1> SUFFICES ASSUME InstTypeInv, DueInv, [InstNext]_instVars,
                    NEW i \in Invites, invite'[i].maxUses # NoLimit
             PROVE  invite'[i].uses + Cardinality(Due(i)') <= invite'[i].maxUses + Cardinality(Instances) - 1
  BY DEF DueInv
<1> DEFINE Goal == invite'[i].uses + Cardinality(Due(i)') <= invite'[i].maxUses + Cardinality(Instances) - 1
<1>t. InstTypeOK /\ TypeOK /\ invite[i] \in InviteRows
  BY DEF InstTypeInv, InstTypeOK, TypeOK
<1>c. /\ IsFiniteSet(Due(i)') /\ Cardinality(Due(i)') \in Nat
      /\ Cardinality(Instances) \in Nat
      /\ Cardinality(Due(i)') <= Cardinality(Instances)
  BY InstancesAssumption, FS_Subset, FS_CardinalityType DEF Due
<1>1. ASSUME UNCHANGED invite, NEW p \in Instances, \A q \in Instances \ {p} : request'[q] = request[q],
             request'[p].op = "join" /\ request'[p].stage \in {"count", "write"} =>
               request[p].op = "join" /\ request[p].stage \in {"count", "write"}
                 /\ request'[p].invite = request[p].invite
      PROVE  Goal
  <2>1. Due(i)' \subseteq Due(i)
    BY <1>1 DEF Due
  <2>2. QED BY <1>t, <1>1, <2>1, DueShrinks
<1>2. ASSUME NEW p \in Instances, BeginRequest(p)
      PROVE  Goal
  <2>1. UNCHANGED invite
    BY <1>2 DEF BeginRequest, BeginJoin, BeginCreateInvite, BeginModeration, BeginUpdateRole, vars
  <2>2. CASE \E u \in Users : BeginJoin(p, u, i)
    <3>1. invite[i].uses < invite[i].maxUses
      BY <2>1, <2>2 DEF BeginJoin, WithinLimit
    <3>2. invite[i].uses \in Nat /\ invite[i].maxUses \in Nat
      BY <1>t, <2>1, LimitsAssumption DEF InviteRows
    <3>3. QED BY <1>c, <2>1, <3>1, <3>2
  <2>3. CASE ~\E u \in Users : BeginJoin(p, u, i)
    <3>1. \A q \in Instances \ {p} : request'[q] = request[q]
      BY <1>2 DEF BeginRequest, BeginJoin, BeginCreateInvite, BeginModeration, BeginUpdateRole, InstTypeInv, InstTypeOK
    <3>2. request'[p].op = "join" => request'[p].invite # i
      BY <1>2, <2>3, <1>t, OpsAssumption
         DEF BeginRequest, BeginJoin, BeginCreateInvite, BeginModeration, BeginUpdateRole, InstTypeOK
    <3>3. Due(i)' \subseteq Due(i)
      BY <3>1, <3>2 DEF Due
    <3>4. QED BY <1>t, <2>1, <3>3, DueShrinks
  <2>4. QED BY <2>2, <2>3
<1>3. ASSUME NEW p \in Instances,
             CountMembers(p) \/ CheckTarget(p) \/ CheckRoleTarget(p) \/ CountOwners(p) \/ Reply(p) \/ Fail(p)
      PROVE  Goal
  <2>1. UNCHANGED invite /\ \A q \in Instances \ {p} : request'[q] = request[q]
    BY <1>3, <1>t DEF CountMembers, CheckTarget, CheckRoleTarget, CountOwners, Reply, Fail, GoTo, InstTypeOK, vars
  <2>2. request'[p].op = "join" =>
          CountMembers(p) \/ (request'[p] = Idle)
    <3>1. CASE CheckTarget(p)
      <4>1. request[p] \in ModerationRequests
        BY <3>1, <1>t, RequestKinds, OpsAssumption DEF CheckTarget, Running
      <4>2. request'[p].op = request[p].op
        BY <3>1, <4>1, <1>t DEF CheckTarget, GoTo, InstTypeOK, ModerationRequests
      <4>3. QED BY <4>1, <4>2, OpsAssumption DEF ModerationRequests
    <3>2. CASE CheckRoleTarget(p) \/ CountOwners(p)
      <4>1. request[p] \in UpdateRoleRequests
        BY <3>2, <1>t, RequestKinds DEF CheckRoleTarget, CountOwners, Running
      <4>2. request'[p].op = request[p].op
        BY <3>2, <4>1, <1>t DEF CheckRoleTarget, CountOwners, GoTo, InstTypeOK, UpdateRoleRequests
      <4>3. QED BY <4>1, <4>2 DEF UpdateRoleRequests
    <3>3. CASE Reply(p) \/ Fail(p)
      BY <3>3, <1>t DEF Reply, Fail, InstTypeOK
    <3>4. QED BY <1>3, <3>1, <3>2, <3>3
  <2>3. CASE CountMembers(p)
    <3>1. request[p] \in JoinRequests /\ request[p].stage = "count"
      BY <2>3, <1>t, RequestKinds DEF CountMembers, Running
    <3>2. request'[p].invite = request[p].invite
      BY <2>3, <3>1, <1>t DEF CountMembers, GoTo, InstTypeOK, JoinRequests
    <3>3. QED BY <1>1, <2>1, <3>1, <3>2 DEF JoinRequests
  <2>4. CASE ~CountMembers(p)
    BY <1>1, <2>1, <2>2, <2>4 DEF Idle
  <2>5. QED BY <2>3, <2>4
<1>4. ASSUME NEW p \in Instances, WriteJoin(p)
      PROVE  Goal
  <2>1. request[p] \in JoinRequests /\ request[p].stage = "write" /\ request[p].op = "join"
    BY <1>4, <1>t, RequestKinds DEF WriteJoin, Running
  <2>2. /\ request'[p].stage = "reply"
        /\ \A q \in Instances \ {p} : request'[q] = request[q]
    BY <1>4, <1>t, <2>1 DEF WriteJoin, GoTo, InstTypeOK, JoinRequests
  <2>3. Due(i)' \subseteq Due(i) \ {p}
    BY <2>2 DEF Due
  <2>4. CASE request[p].invite = i
    <3>1. p \in Due(i)
      BY <2>1, <2>4 DEF Due
    <3>2. Cardinality(Due(i) \ {p}) = Cardinality(Due(i)) - 1 /\ IsFiniteSet(Due(i) \ {p})
      BY <3>1, DueCardinality, FS_RemoveElement
    <3>3. Cardinality(Due(i)') <= Cardinality(Due(i)) - 1
      BY <2>3, <3>2, FS_Subset
    <3>4. invite'[i].uses = invite[i].uses + 1 /\ invite'[i].maxUses = invite[i].maxUses
      BY <1>4, <1>t, <2>4 DEF WriteJoin, TypeOK, InviteRows
    <3>5. invite[i].uses \in Nat /\ invite[i].maxUses \in Nat
      BY <1>t, <3>4, LimitsAssumption DEF InviteRows
    <3>6. invite[i].uses + Cardinality(Due(i)) <= invite[i].maxUses + Cardinality(Instances) - 1
      BY <3>4 DEF DueInv
    <3>7. Cardinality(Due(i)) \in Nat
      BY DueCardinality
    <3>8. QED BY <1>c, <3>3, <3>4, <3>5, <3>6, <3>7
  <2>5. CASE request[p].invite # i
    <3>1. invite'[i] = invite[i]
      BY <1>4, <1>t, <2>5 DEF WriteJoin, TypeOK
    <3>2. QED BY <1>t, <2>3, <3>1, DueShrinks
  <2>6. QED BY <2>4, <2>5
<1>5. ASSUME NEW p \in Instances, NEW limit \in MaxUsesChoices, WriteInvite(p, limit)
      PROVE  Goal
  <2>1. request[p] \in CreateInviteRequests
    BY <1>5, <1>t, RequestKinds DEF WriteInvite, Running
  <2>2. request'[p].op = "createInvite" /\ \A q \in Instances \ {p} : request'[q] = request[q]
    BY <1>5, <1>t, <2>1 DEF WriteInvite, GoTo, InstTypeOK, CreateInviteRequests
  <2>3. CASE request[p].invite = i
    <3>1. invite'[i].uses = 0 /\ invite'[i].maxUses = limit
      BY <1>5, <1>t, <2>3 DEF WriteInvite, TypeOK
    <3>2. limit \in Nat /\ limit >= 1
      BY <3>1, LimitsAssumption
    <3>3. QED BY <1>c, <3>1, <3>2
  <2>4. CASE request[p].invite # i
    <3>1. invite'[i] = invite[i]
      BY <1>5, <1>t, <2>4 DEF WriteInvite, TypeOK
    <3>2. Due(i)' \subseteq Due(i)
      BY <2>2 DEF Due
    <3>3. QED BY <1>t, <3>1, <3>2, DueShrinks
  <2>5. QED BY <2>3, <2>4
<1>6. ASSUME NEW p \in Instances, WriteModeration(p) \/ WriteRole(p)
      PROVE  Goal
  <2>1. UNCHANGED invite /\ GoTo(p, "reply")
    BY <1>6 DEF WriteModeration, WriteRole
  <2>2. request[p] \in ModerationRequests \cup UpdateRoleRequests
    BY <1>6, <1>t DEF WriteModeration, WriteRole, Running, InstTypeOK, Requests, Idle,
       JoinRequests, CreateInviteRequests
  <2>3. request'[p].stage = "reply" /\ \A q \in Instances \ {p} : request'[q] = request[q]
    BY <1>t, <2>1, <2>2 DEF GoTo, InstTypeOK, ModerationRequests, UpdateRoleRequests
  <2>4. QED BY <1>1, <2>1, <2>3
<1>7. CASE Environment
  <2>1. UNCHANGED request /\ invite'[i].uses = invite[i].uses /\ invite'[i].maxUses = invite[i].maxUses
    BY <1>7, <1>t DEF Environment, Create, ExpireInvite, DeactivateInvite, ExpireMute, TypeOK, InviteRows
  <2>2. Due(i)' = Due(i)
    BY <2>1 DEF Due
  <2>3. QED BY <1>t, <2>1, <2>2, DueShrinks
<1>8. CASE UNCHANGED instVars
  <2>1. Due(i)' = Due(i) /\ UNCHANGED invite
    BY <1>8 DEF Due, instVars, vars
  <2>2. QED BY <1>t, <2>1, DueShrinks
<1>9. QED
  BY <1>2, <1>3, <1>4, <1>5, <1>6, <1>7, <1>8 DEF InstNext

\* With n processes an invite is used at most maxUses + n - 1 times.
THEOREM Overshoot == InstSpec => []OvershootBounded
<1>1. InstInit => DueInv
  BY DEF InstInit, Init, DueInv
<1>2. InstTypeInv /\ DueInv => OvershootBounded
  <2> SUFFICES ASSUME InstTypeInv, DueInv, NEW i \in Invites, invite[i].maxUses # NoLimit
               PROVE  invite[i].uses <= invite[i].maxUses + Cardinality(Instances) - 1
    BY DEF OvershootBounded
  <2>1. invite[i].uses \in Nat /\ invite[i].maxUses \in Nat
    BY LimitsAssumption DEF InstTypeInv, InstTypeOK, TypeOK, InviteRows
  <2>2. QED BY <2>1, DueCardinality DEF DueInv
<1>3. InstInit => InstTypeInv
  BY InstInitTypes
<1>4. QED BY <1>1, <1>2, <1>3, DueStep, InstTypeStep, PTL DEF InstSpec

-----------------------------------------------------------------------------
(* One process implements the atomic handlers.  Between two statements of its  *)
(* handler only the environment takes steps: the clock and the operator.  What *)
(* the handler has read therefore still holds when it writes.                  *)

\* Rows and invites belong to a Cirvia that exists.
Populated ==
  (\E u \in Users : HasRow(u)) \/ (\E i \in Invites : invite[i].phase # "absent") => created

\* A join that is under way has found its invite, usable until it has been used, and
\* before it writes a place in the Cirvia.
JoinChecked(p) ==
  LET inv == invite[request[p].invite]
  IN request[p].op = "join" =>
       /\ inv.phase # "absent"
       /\ request[p].stage # "reply" => WithinLimit(inv.uses, inv.maxUses)
       /\ request[p].stage = "write" => WithinLimit(countActiveMembers, maxMembers)

CreateInviteChecked(p) ==
  Running(p, "createInvite", "write") => \E a \in Users : requireRole(a, MinimumRole["createInvite"])

\* A moderation call was made by staff that is still there, and its target may be moderated.
ModerationChecked(p) ==
  request[p].op \in ModerationOps =>
    /\ request[p].stage # "reply" => \E a \in Users : requireRole(a, MinimumRole[request[p].op])
    /\ request[p].stage = "write" =>
         IF request[p].op = "approve"
         THEN HasRow(request[p].target) /\ member[request[p].target].status # "REMOVED"
         ELSE assertTargetNotOwner(request[p].target)

\* A role is changed by an owner, the target itself or another; who gives up its own
\* ownership has found a second active owner.
RoleChecked(p) ==
  request[p].op = "updateRole" /\ request[p].stage # "reply" =>
    /\ \E a \in Users : requireRole(a, "OWNER") /\ (request[p].self <=> a = request[p].target)
    /\ request[p].stage # "target" => HasRow(request[p].target) /\ member[request[p].target].status # "REMOVED"
    /\ request[p].stage = "write" /\ request[p].self /\ request[p].role # "OWNER" => Cardinality(ActiveOwners) > 1

Checked(p) ==
  Populated /\ JoinChecked(p) /\ CreateInviteChecked(p) /\ ModerationChecked(p) /\ RoleChecked(p)

\* Who has a role that counts has a row, so the Cirvia exists.
LEMMA StaffHasRow ==
  ASSUME TypeOK, Populated, NEW a \in Users, NEW r, requireRole(a, r)
  PROVE  HasRow(a) /\ created
BY DEF requireRole, Effective, HasRow, NoRow, Populated

\* What the checks ask of the members depends on roles and statuses only.
LEMMA StandingKept ==
  ASSUME \A u \in Users : member'[u].role = member[u].role /\ member'[u].status = member[u].status
  PROVE  /\ countActiveMembers' = countActiveMembers
         /\ ActiveOwners' = ActiveOwners
         /\ \A u \in Users, r \in Roles : requireRole(u, r)' = requireRole(u, r)
<1>1. \A u \in Users : Effective(u)' = Effective(u)
  BY DEF Effective
<1>2. {u \in Users : Effective(u)}' = {u \in Users : Effective(u)}
  BY <1>1
<1>3. QED
  BY <1>1, <1>2 DEF countActiveMembers, ActiveOwners, requireRole

LEMMA ModerationRoles ==
  ASSUME NEW op \in ModerationOps
  PROVE  MinimumRole[op] \in {"MODERATOR", "ADMIN"} /\ MinimumRole[op] \in Roles
<1>1. CASE op \in {"approve", "kick", "ban"}
  BY <1>1 DEF MinimumRole, Roles
<1>2. CASE op \in {"mute", "unmute"}
  BY <1>2 DEF MinimumRole, Roles
<1>3. QED BY <1>1, <1>2, OpsAssumption

\* The first statement finds what it asks for.
LEMMA BeginChecked ==
  ASSUME NEW p \in Instances, InstTypeInv, Checked(p), BeginRequest(p)
  PROVE  Checked(p)'
<1> USE DEF Checked, JoinChecked, CreateInviteChecked, ModerationChecked, RoleChecked
<1>0. UNCHANGED vars /\ request \in [Instances -> Requests]
  BY DEF BeginRequest, BeginJoin, BeginCreateInvite, BeginModeration, BeginUpdateRole, InstTypeInv, InstTypeOK
<1>1. Populated'
  BY <1>0 DEF Populated, HasRow, vars, cirviaVars
<1>2. ASSUME NEW u \in Users, NEW i \in Invites, BeginJoin(p, u, i)
      PROVE  Checked(p)'
  <2>1. /\ request'[p].op = "join" /\ request'[p].invite = i
        /\ request'[p].stage = IF maxMembers = NoLimit THEN "write" ELSE "count"
    BY <1>2, <1>0 DEF BeginJoin
  <2>2. /\ invite'[i].phase # "absent" /\ WithinLimit(invite'[i].uses, invite'[i].maxUses)
    BY <1>2, <1>0 DEF BeginJoin, vars
  <2>3. maxMembers = NoLimit => WithinLimit(countActiveMembers, maxMembers)'
    BY <1>0 DEF WithinLimit, vars, cirviaVars
  <2>4. JoinChecked(p)'
    BY <2>1, <2>2, <2>3 DEF WithinLimit
  <2>5. QED BY <1>1, <2>1, <2>4, OpsAssumption DEF Running
<1>3. ASSUME NEW a \in Users, NEW i \in Invites, BeginCreateInvite(p, a, i)
      PROVE  Checked(p)'
  <2>1. request'[p].op = "createInvite"
    BY <1>3, <1>0 DEF BeginCreateInvite
  <2>2. requireRole(a, MinimumRole["createInvite"])'
    BY <1>3, <1>0 DEF BeginCreateInvite, requireRole, Effective, vars
  <2>3. QED BY <1>1, <2>1, <2>2, OpsAssumption
<1>4. ASSUME NEW a \in Users, NEW t \in Users, NEW op \in ModerationOps, BeginModeration(p, op, a, t)
      PROVE  Checked(p)'
  <2>1. request'[p].op = op /\ request'[p].stage = "target"
    BY <1>4, <1>0 DEF BeginModeration
  <2>2. requireRole(a, MinimumRole[op])'
    BY <1>4, <1>0 DEF BeginModeration, requireRole, Effective, vars
  <2>3. QED BY <1>1, <2>1, <2>2, OpsAssumption DEF Running
<1>5. ASSUME NEW a \in Users, NEW t \in Users, NEW newRole \in Roles, BeginUpdateRole(p, a, t, newRole)
      PROVE  Checked(p)'
  <2>1. /\ request'[p].op = "updateRole" /\ request'[p].stage = "target"
        /\ request'[p].target = t /\ request'[p].self = (a = t)
    BY <1>5, <1>0 DEF BeginUpdateRole
  <2>2. requireRole(a, "OWNER")'
    BY <1>5, <1>0 DEF BeginUpdateRole, MinimumRole, requireRole, Effective, vars
  <2>3. QED BY <1>1, <2>1, <2>2, OpsAssumption DEF Running
<1>6. QED BY <1>2, <1>3, <1>4, <1>5 DEF BeginRequest

\* The further checks add what they ask for; an ended request claims nothing.
LEMMA FurtherChecked ==
  ASSUME NEW p \in Instances, InstTypeInv, Checked(p),
         CountMembers(p) \/ CheckTarget(p) \/ CheckRoleTarget(p) \/ CountOwners(p) \/ Reply(p) \/ Fail(p)
  PROVE  Checked(p)'
<1> USE DEF Checked, JoinChecked, CreateInviteChecked, ModerationChecked, RoleChecked
<1>0. UNCHANGED vars /\ InstTypeOK
  BY DEF CountMembers, CheckTarget, CheckRoleTarget, CountOwners, Reply, Fail, InstTypeInv
<1>1. Populated'
  BY <1>0 DEF Populated, HasRow, vars, cirviaVars
<1>s. /\ UNCHANGED <<created, maxMembers, member, invite>>
      /\ \A u \in Users, r \in Roles : requireRole(u, r)' = requireRole(u, r)
      /\ countActiveMembers' = countActiveMembers /\ ActiveOwners' = ActiveOwners
  BY <1>0, StandingKept DEF vars, cirviaVars
<1>2. CASE CountMembers(p)
  <2>1. request[p] \in JoinRequests /\ request[p].op = "join"
    BY <1>0, <1>2, RequestKinds DEF CountMembers, Running
  <2>2. request'[p] = [request[p] EXCEPT !.stage = "write"]
    BY <1>0, <1>2 DEF CountMembers, GoTo, InstTypeOK
  <2>3. request'[p].op = "join" /\ request'[p].invite = request[p].invite /\ request'[p].stage = "write"
    BY <2>1, <2>2 DEF JoinRequests
  <2>4. JoinChecked(p)'
    BY <1>s, <1>2, <2>1, <2>3 DEF CountMembers, Running, WithinLimit
  <2>5. QED BY <1>1, <2>3, <2>4, OpsAssumption DEF Running
<1>3. CASE CheckTarget(p)
  <2>1. request[p] \in ModerationRequests /\ request[p].op \in ModerationOps /\ request[p].stage = "target"
    BY <1>0, <1>3, RequestKinds DEF CheckTarget, Running
  <2>2. request'[p] = [request[p] EXCEPT !.stage = "write"]
    BY <1>0, <1>3 DEF CheckTarget, GoTo, InstTypeOK
  <2>3. request'[p].op = request[p].op /\ request'[p].target = request[p].target /\ request'[p].stage = "write"
    BY <2>1, <2>2 DEF ModerationRequests
  <2> PICK r \in Roles : r = MinimumRole[request[p].op]
    BY <2>1, ModerationRoles
  <2>5. \E a \in Users : requireRole(a, r)'
    BY <1>s, <2>1
  <2>6. ModerationChecked(p)'
    <3>1. \E a \in Users : requireRole(a, MinimumRole[request[p].op])'
      BY <2>5, <2>3
    <3>2. (IF request[p].op = "approve"
           THEN HasRow(request[p].target) /\ member[request[p].target].status # "REMOVED"
           ELSE assertTargetNotOwner(request[p].target))'
      BY <1>s, <1>3, <2>3 DEF CheckTarget, HasRow, assertTargetNotOwner
    <3>3. QED BY <3>1, <3>2
  <2>7. QED BY <1>1, <2>1, <2>3, <2>6, OpsAssumption DEF Running
<1>4. CASE CheckRoleTarget(p) \/ CountOwners(p)
  <2>1. request[p] \in UpdateRoleRequests /\ request[p].op = "updateRole" /\ request[p].stage \in {"target", "owners"}
    BY <1>0, <1>4, RequestKinds DEF CheckRoleTarget, CountOwners, Running
  <2> PICK stage \in {"owners", "write"} : GoTo(p, stage)
    BY <1>4 DEF CheckRoleTarget, CountOwners
  <2>2. request'[p] = [request[p] EXCEPT !.stage = stage]
    BY <1>0 DEF GoTo, InstTypeOK
  <2>3. /\ request'[p].op = "updateRole" /\ request'[p].target = request[p].target /\ request'[p].stage = stage
        /\ request'[p].self = request[p].self /\ request'[p].role = request[p].role
    BY <2>1, <2>2 DEF UpdateRoleRequests
  <2>4. (\E a \in Users : requireRole(a, "OWNER") /\ (request[p].self <=> a = request[p].target))'
    BY <1>s, <2>1, <2>3 DEF Roles
  <2>5. (HasRow(request[p].target) /\ member[request[p].target].status # "REMOVED")'
    BY <1>s, <1>4, <2>1, <2>3 DEF CheckRoleTarget, CountOwners, Running, HasRow
  <2>6. stage = "write" /\ request[p].self /\ request[p].role # "OWNER" => Cardinality(ActiveOwners) > 1
    <3>1. CASE CountOwners(p)
      BY <3>1 DEF CountOwners
    <3>2. CASE CheckRoleTarget(p) /\ stage = "write" /\ request[p].self /\ request[p].role # "OWNER"
      <4>1. request'[p] = [request[p] EXCEPT !.stage = "owners"]
        BY <1>0, <3>2 DEF CheckRoleTarget, GoTo, InstTypeOK
      <4>2. request'[p].stage = "owners"
        BY <4>1, <2>1 DEF UpdateRoleRequests
      <4>3. QED BY <4>2, <3>2, <2>3
    <3>3. QED BY <1>4, <3>1, <3>2
  <2>7. RoleChecked(p)'
    BY <1>s, <2>3, <2>4, <2>5, <2>6
  <2>8. QED BY <1>1, <2>3, <2>7, OpsAssumption DEF Running
<1>5. CASE Reply(p) \/ Fail(p)
  <2>1. request'[p] = Idle
    BY <1>0, <1>5 DEF Reply, Fail, InstTypeOK
  <2>2. QED BY <1>1, <2>1, OpsAssumption DEF Running, Idle
<1>6. QED BY <1>2, <1>3, <1>4, <1>5
\* A write ends what the handler claims: only the invite stays known.
LEMMA WriteChecked ==
  ASSUME NEW p \in Instances, InstTypeInv, Checked(p),
         \/ \E limit \in MaxUsesChoices : WriteInvite(p, limit)
         \/ WriteJoin(p) \/ WriteModeration(p) \/ WriteRole(p)
  PROVE  Checked(p)'
<1> USE DEF Checked, JoinChecked, CreateInviteChecked, ModerationChecked, RoleChecked
<1>0. InstTypeOK /\ TypeOK
  BY DEF InstTypeInv, InstTypeOK
<1>1. /\ request[p] \in ModerationRequests \cup JoinRequests \cup CreateInviteRequests \cup UpdateRoleRequests
      /\ request[p].stage = "write"
      /\ request'[p] = [request[p] EXCEPT !.stage = "reply"]
  <2>1. GoTo(p, "reply")
    BY DEF WriteInvite, WriteJoin, WriteModeration, WriteRole
  <2>2. request[p].stage = "write" /\ request[p].op # "idle"
    BY DEF WriteInvite, WriteJoin, WriteModeration, WriteRole, Running
  <2>3. request[p] # Idle
    BY <2>2 DEF Idle
  <2>4. QED BY <1>0, <2>1, <2>2, <2>3 DEF GoTo, InstTypeOK, Requests
<1>2. request'[p].stage = "reply" /\ request'[p].op = request[p].op
  BY <1>1 DEF ModerationRequests, JoinRequests, CreateInviteRequests, UpdateRoleRequests
<1>3. created /\ UNCHANGED created
  <2>1. CASE WriteJoin(p)
    <3>1. request[p] \in JoinRequests /\ request[p].op = "join"
      BY <1>0, <2>1, RequestKinds DEF WriteJoin, Running
    <3>2. QED BY <2>1, <3>1 DEF WriteJoin, JoinRequests, Populated, cirviaVars
  <2>2. ASSUME NEW a \in Users, NEW r, requireRole(a, r), UNCHANGED cirviaVars
        PROVE  created /\ UNCHANGED created
    BY <1>0, <2>2, StaffHasRow DEF cirviaVars
  <2>3. CASE WriteModeration(p)
    <3>1. request[p].op \in ModerationOps
      BY <1>1, <2>3, OpsAssumption DEF WriteModeration, Running, ModerationRequests, JoinRequests,
         CreateInviteRequests, UpdateRoleRequests
    <3>2. QED BY <1>1, <2>2, <2>3, <3>1 DEF WriteModeration
  <2>4. CASE WriteRole(p)
    BY <1>1, <2>2, <2>4 DEF WriteRole, Running
  <2>5. CASE \E limit \in MaxUsesChoices : WriteInvite(p, limit)
    BY <2>2, <2>5 DEF WriteInvite
  <2>6. QED BY <2>1, <2>3, <2>4, <2>5
<1>4. Populated'
  BY <1>3 DEF Populated
<1>5. JoinChecked(p)'
  <2> SUFFICES ASSUME request[p].op = "join" PROVE invite'[request'[p].invite].phase # "absent"
    BY <1>2
  <2>1. request[p] \in JoinRequests /\ WriteJoin(p)
    BY <1>0, RequestKinds, OpsAssumption DEF WriteInvite, WriteModeration, WriteRole, Running
  <2>2. request'[p].invite = request[p].invite /\ request[p].invite \in Invites
    BY <1>1, <2>1 DEF JoinRequests
  <2>3. invite'[request[p].invite].phase = invite[request[p].invite].phase
    BY <1>0, <2>1, <2>2 DEF WriteJoin, TypeOK, InviteRows
  <2>4. QED BY <2>2, <2>3
<1>6. QED BY <1>2, <1>4, <1>5 DEF Running

\* Neither the clock nor the operator takes away what a handler has found, and a
\* Cirvia that any request is about has been created before.
LEMMA EnvironmentChecked ==
  ASSUME NEW p \in Instances, InstTypeInv, Checked(p), Environment
  PROVE  Checked(p)'
<1> USE DEF Checked, JoinChecked, CreateInviteChecked, ModerationChecked, RoleChecked
<1>0. UNCHANGED request /\ InstTypeOK /\ TypeOK
  BY DEF Environment, InstTypeInv, InstTypeOK
<1>1. CASE \E u \in Users, approval \in BOOLEAN, limit \in MaxMembersChoices : Create(u, approval, limit)
  <2>1. ~created /\ created' /\ UNCHANGED invite
    BY <1>1 DEF Create
  <2>2. \A a \in Users, r \in Roles : ~requireRole(a, r)
    BY <1>0, <2>1, StaffHasRow
  <2>3. request[p].op # "join"
    BY <1>0, <2>1, RequestKinds DEF Populated, JoinRequests
  <2>4. request[p].op \in ModerationOps => request[p].stage = "reply"
    BY <2>2, ModerationRoles
  <2>5. request[p].op = "updateRole" => request[p].stage = "reply"
    BY <2>2 DEF Roles
  <2>6. ~Running(p, "createInvite", "write")
    BY <2>2 DEF MinimumRole, Roles
  <2>7. QED BY <1>0, <2>1, <2>3, <2>4, <2>5, <2>6 DEF Populated, Running
<1>2. ASSUME UNCHANGED <<created, maxMembers>>,
             \A u \in Users : /\ HasRow(u)' = HasRow(u)
                              /\ member'[u].role = member[u].role
                              /\ member'[u].status = member[u].status,
             \A i \in Invites : /\ (invite'[i].phase = "absent") = (invite[i].phase = "absent")
                                /\ invite'[i].uses = invite[i].uses
                                /\ invite'[i].maxUses = invite[i].maxUses
      PROVE  Checked(p)'
  <2>1. /\ \A u \in Users, r \in Roles : requireRole(u, r)' = requireRole(u, r)
        /\ countActiveMembers' = countActiveMembers /\ ActiveOwners' = ActiveOwners
    BY <1>2, StandingKept
  <2>2. Populated'
    BY <1>2 DEF Populated
  <2>3. JoinChecked(p)'
    <3>1. request[p].op = "join" => request[p].invite \in Invites
      BY <1>0, RequestKinds DEF JoinRequests
    <3>2. QED BY <1>0, <1>2, <2>1, <3>1 DEF WithinLimit
  <2>4. CreateInviteChecked(p)'
    BY <1>0, <2>1 DEF MinimumRole, Roles, Running
  <2>5. ModerationChecked(p)'
    <3> SUFFICES ASSUME request[p].op \in ModerationOps PROVE ModerationChecked(p)'
      BY <1>0
    <3>1. request[p].target \in Users
      BY <1>0, RequestKinds DEF ModerationRequests
    <3> PICK r \in Roles : r = MinimumRole[request[p].op]
      BY ModerationRoles
    <3>2. request[p].stage # "reply" => \E a \in Users : requireRole(a, r)'
      BY <2>1
    <3>3. request[p].stage # "reply" => (\E a \in Users : requireRole(a, MinimumRole[request[p].op]))'
      BY <1>0, <3>2
    <3>4. QED BY <1>0, <1>2, <3>1, <3>3 DEF assertTargetNotOwner
  <2>6. RoleChecked(p)'
    <3>1. request[p].op = "updateRole" => request[p].target \in Users
      BY <1>0, RequestKinds DEF UpdateRoleRequests
    <3>2. QED BY <1>0, <1>2, <2>1, <3>1 DEF Roles
  <2>7. QED BY <2>2, <2>3, <2>4, <2>5, <2>6
<1>3. ASSUME NEW i \in Invites, ExpireInvite(i) \/ DeactivateInvite(i)
      PROVE  Checked(p)'
  BY <1>0, <1>2, <1>3 DEF ExpireInvite, DeactivateInvite, TypeOK, InviteRows, cirviaVars, HasRow
<1>4. ASSUME NEW u \in Users, ExpireMute(u)
      PROVE  Checked(p)'
  <2>1. HasRow(u) /\ member[u] \in MemberRows
    BY <1>0, <1>4 DEF ExpireMute, HasRow, NoRow, TypeOK
  <2>2. member' = [member EXCEPT ![u] = [member[u] EXCEPT !.mutedUntil = "past"]]
    BY <1>4 DEF ExpireMute
  <2>3. /\ \A v \in Users \ {u} : member'[v] = member[v]
        /\ member'[u].role = member[u].role /\ member'[u].status = member[u].status
        /\ member'[u].role # "NONE"
    BY <1>0, <2>1, <2>2 DEF TypeOK, MemberRows, Roles
  <2>4. HasRow(u)'
    BY <2>3 DEF HasRow, NoRow
  <2>5. QED BY <1>2, <1>4, <2>1, <2>3, <2>4 DEF ExpireMute, HasRow, cirviaVars
<1>5. QED BY <1>1, <1>3, <1>4 DEF Environment

\* Where p is the only process, what its handler has found holds until it has written.
LEMMA CheckedStep ==
  ASSUME NEW p, Instances = {p}
  PROVE  InstTypeInv /\ Checked(p) /\ [InstNext]_instVars => Checked(p)'
<1> SUFFICES ASSUME InstTypeInv, Checked(p), [InstNext]_instVars PROVE Checked(p)'
  OBVIOUS
<1>1. CASE UNCHANGED instVars
  <2>1. UNCHANGED <<created, maxMembers, member, invite, request>>
    BY <1>1 DEF instVars, vars, cirviaVars
  <2>2. QED
    BY <2>1 DEF Checked, Populated, JoinChecked, CreateInviteChecked, ModerationChecked, RoleChecked,
       WithinLimit, countActiveMembers, requireRole, Effective, assertTargetNotOwner, HasRow, ActiveOwners, Running
<1>2. QED
  BY <1>1, BeginChecked, FurtherChecked, WriteChecked, EnvironmentChecked DEF InstNext
\* The atomic handlers read the same rows in the same way.
LEMMA AtomicReads ==
  /\ \A u \in Users : /\ Atomic!HasRow(u) = HasRow(u)
                      /\ Atomic!assertTargetNotOwner(u) = assertTargetNotOwner(u)
                      /\ Atomic!JoinedRow(u) = JoinedRow(u)
                      /\ Atomic!ensureScopes(u) = ensureScopes(u)
  /\ \A u \in Users, r \in Roles : Atomic!requireRole(u, r) = requireRole(u, r)
  /\ Atomic!countActiveMembers = countActiveMembers
  /\ Atomic!ActiveOwners = ActiveOwners
  /\ \A n, limit : Atomic!WithinLimit(n, limit) = WithinLimit(n, limit)
  /\ \A S : Atomic!Cardinality(S) = Cardinality(S)
<1>1. \A u \in Users : Atomic!HasRow(u) = HasRow(u)
  BY DEF Atomic!HasRow, HasRow, Atomic!NoRow, NoRow
<1>2. \A u \in Users : Atomic!assertTargetNotOwner(u) = assertTargetNotOwner(u)
  BY <1>1 DEF Atomic!assertTargetNotOwner, assertTargetNotOwner
<1>3. \A u \in Users : Atomic!JoinedRow(u) = JoinedRow(u)
  BY DEF Atomic!JoinedRow, JoinedRow, Atomic!JoinStatus, JoinStatus
<1>4. \A u \in Users : Atomic!ensureScopes(u) = ensureScopes(u)
  BY DEF Atomic!ensureScopes, ensureScopes
<1>5. \A u \in Users : Atomic!Effective(u) = Effective(u)
  BY DEF Atomic!Effective, Effective
<1>6. \A u \in Users, r \in Roles : Atomic!requireRole(u, r) = requireRole(u, r)
  BY <1>5 DEF Atomic!requireRole, requireRole, Atomic!hasRoleAtLeast, hasRoleAtLeast, Atomic!roleRank, roleRank
<1>c. \A S : Atomic!Cardinality(S) = Cardinality(S)
  BY Zenon DEF Atomic!Cardinality, Cardinality
<1>7. Atomic!countActiveMembers = countActiveMembers
  <2>1. {u \in Users : Atomic!Effective(u)} = {u \in Users : Effective(u)}
    BY <1>5
  <2>2. QED BY <1>c, <2>1 DEF Atomic!countActiveMembers, countActiveMembers
<1>8. Atomic!ActiveOwners = ActiveOwners
  BY DEF Atomic!ActiveOwners, ActiveOwners
<1>9. \A n, limit : Atomic!WithinLimit(n, limit) = WithinLimit(n, limit)
  BY DEF Atomic!WithinLimit, WithinLimit
<1>10. QED BY <1>1, <1>2, <1>3, <1>4, <1>6, <1>7, <1>8, <1>9, <1>c

\* The invite that the one process redeems, seen as open; the others as they are.
Seen(r, i) == IF r.op = "join" /\ r.invite = i THEN [invite[i] EXCEPT !.phase = "open"] ELSE invite[i]

LEMMA SeenAlone ==
  ASSUME NEW p, Instances = {p}
  PROVE  /\ seenInvite = [i \in Invites |-> Seen(request[p], i)]
         /\ seenInvite' = [i \in Invites |-> Seen(request[p], i)']
<1>1. \A i \in Invites : Redeeming(i) = (request[p].op = "join" /\ request[p].invite = i)
  BY DEF Redeeming
<1>2. \A i \in Invites : Redeeming(i)' = (request'[p].op = "join" /\ request'[p].invite = i)
  BY DEF Redeeming
<1>3. QED BY <1>1, <1>2 DEF seenInvite, Seen

\* A step that writes nothing and takes up or leaves no open invite is not seen.
LEMMA NothingSeen ==
  ASSUME NEW p, Instances = {p}, UNCHANGED vars, \A i \in Invites : Seen(request[p], i)' = Seen(request[p], i)
  PROVE  UNCHANGED Atomic!vars
<1>1. UNCHANGED seenInvite
  BY SeenAlone
<1>2. QED
  BY <1>1 DEF vars, cirviaVars, scopeVars, Atomic!vars, Atomic!cirviaVars, Atomic!scopeVars

\* Where the process redeems no invite, the invites are seen as they are.
LEMMA SeenAsIs ==
  ASSUME NEW p, Instances = {p}, InstTypeOK, request[p].op # "join"
  PROVE  seenInvite = invite
BY SeenAlone DEF Seen, InstTypeOK, TypeOK

\* The first statement changes nothing: the invite a join takes up is open.
LEMMA BeginImplements ==
  ASSUME NEW p, Instances = {p}, InstTypeOK, BeginRequest(p)
  PROVE  UNCHANGED Atomic!vars
<1>1. UNCHANGED vars /\ UNCHANGED invite
  BY DEF BeginRequest, BeginJoin, BeginCreateInvite, BeginModeration, BeginUpdateRole, vars
<1>2. request[p] = Idle
  BY DEF BeginRequest, BeginJoin, BeginCreateInvite, BeginModeration, BeginUpdateRole
<1>3. \A i \in Invites : Seen(request[p], i) = invite[i]
  BY <1>2 DEF Seen, Idle
<1>4. CASE \E u \in Users, i \in Invites : BeginJoin(p, u, i)
  <2> PICK u \in Users, i \in Invites : BeginJoin(p, u, i)
    BY <1>4
  <2>1. request'[p].op = "join" /\ request'[p].invite = i /\ invite[i].phase = "open"
    BY DEF BeginJoin, InstTypeOK
  <2>2. [invite[i] EXCEPT !.phase = "open"] = invite[i]
    BY <2>1 DEF InstTypeOK, TypeOK, InviteRows
  <2>3. \A j \in Invites : Seen(request[p], j)' = invite[j]
    BY <1>1, <2>1, <2>2 DEF Seen
  <2>4. QED BY <1>1, <1>3, <2>3, NothingSeen
<1>5. CASE ~\E u \in Users, i \in Invites : BeginJoin(p, u, i)
  <2>1. request'[p].op # "join"
    BY <1>5, OpsAssumption DEF BeginRequest, BeginCreateInvite, BeginModeration, BeginUpdateRole, InstTypeOK
  <2>2. \A j \in Invites : Seen(request[p], j)' = invite[j]
    BY <1>1, <2>1 DEF Seen
  <2>3. QED BY <1>1, <1>3, <2>2, NothingSeen
<1>6. QED BY <1>4, <1>5

\* Nor do the further checks.
LEMMA FurtherImplements ==
  ASSUME NEW p, Instances = {p}, InstTypeOK, NEW stage, GoTo(p, stage), UNCHANGED vars,
         request[p] \in ModerationRequests \cup UpdateRoleRequests \cup JoinRequests
  PROVE  UNCHANGED Atomic!vars
<1>1. request'[p] = [request[p] EXCEPT !.stage = stage]
  BY DEF GoTo, InstTypeOK
<1>2. request'[p].op = request[p].op /\ (request[p].op = "join" => request'[p].invite = request[p].invite)
  BY <1>1, OpsAssumption DEF ModerationRequests, UpdateRoleRequests, JoinRequests
<1>3. \A i \in Invites : Seen(request[p], i)' = Seen(request[p], i)
  BY <1>2 DEF Seen, vars
<1>4. QED BY <1>3, NothingSeen

\* When a join ends, what the clock or the operator has done to its invite is seen.
LEMMA EndImplements ==
  ASSUME NEW p, Instances = {p}, InstTypeOK, Checked(p), Reply(p) \/ Fail(p)
  PROVE  [Atomic!Next]_(Atomic!vars)
<1>1. UNCHANGED vars /\ UNCHANGED invite /\ request'[p] = Idle
  BY DEF Reply, Fail, InstTypeOK, vars
<1>2. \A j \in Invites : Seen(request[p], j)' = invite[j]
  BY <1>1 DEF Seen, Idle
<1>3. CASE request[p].op # "join"
  <2>1. \A j \in Invites : Seen(request[p], j) = invite[j]
    BY <1>3 DEF Seen
  <2>2. QED BY <1>1, <1>2, <2>1, NothingSeen
<1>4. CASE request[p].op = "join"
  <2> DEFINE i == request[p].invite
  <2>1. i \in Invites /\ invite[i] \in InviteRows /\ invite[i].phase \in InvitePhases \ {"absent"}
    BY <1>4, RequestKinds DEF JoinRequests, Checked, JoinChecked, InstTypeOK, TypeOK, InviteRows
  <2>2. /\ Seen(request[p], i) = [invite[i] EXCEPT !.phase = "open"]
        /\ \A j \in Invites \ {i} : Seen(request[p], j) = invite[j]
    BY <1>4 DEF Seen
  <2>3. seenInvite' = [seenInvite EXCEPT ![i] = invite[i]]
    BY <1>2, <2>1, <2>2, SeenAlone
  <2>4. seenInvite[i].phase = "open" /\ invite[i] = [seenInvite[i] EXCEPT !.phase = invite[i].phase]
    BY <2>1, <2>2, SeenAlone DEF InviteRows
  <2>5. seenInvite' = [seenInvite EXCEPT ![i].phase = invite[i].phase]
    BY <2>3, <2>4
  <2>6. UNCHANGED <<Atomic!cirviaVars, member, Atomic!scopeVars>>
    BY <1>1 DEF vars, cirviaVars, scopeVars, Atomic!cirviaVars, Atomic!scopeVars
  <2>7. CASE invite[i].phase = "open"
    <3>1. invite[i] = seenInvite[i]
      BY <2>1, <2>2, <2>7, SeenAlone DEF InviteRows
    <3>2. seenInvite' = seenInvite
      BY <2>3, <3>1, SeenAlone
    <3>3. QED BY <2>6, <3>2 DEF Atomic!vars
  <2>8. CASE invite[i].phase = "expired"
    <3>1. Atomic!ExpireInvite(i)
      BY <2>4, <2>5, <2>6, <2>8 DEF Atomic!ExpireInvite
    <3>2. QED BY <2>1, <3>1 DEF Atomic!Next, Atomic!InviteNext
  <2>9. CASE invite[i].phase = "inactive"
    <3>1. Atomic!DeactivateInvite(i)
      BY <2>4, <2>5, <2>6, <2>9 DEF Atomic!DeactivateInvite
    <3>2. QED BY <2>1, <3>1 DEF Atomic!Next, Atomic!InviteNext
  <2>10. QED BY <2>1, <2>7, <2>8, <2>9 DEF InvitePhases
<1>5. QED BY <1>3, <1>4
\* The transaction of a join is the atomic join.
LEMMA JoinImplements ==
  ASSUME NEW p, Instances = {p}, InstTypeOK, Checked(p), WriteJoin(p)
  PROVE  Atomic!Next
<1>0. request[p] \in JoinRequests /\ request[p].op = "join" /\ request[p].stage = "write"
  BY RequestKinds DEF WriteJoin, Running
<1> PICK u \in Users, i \in Invites : request[p].user = u /\ request[p].invite = i
  BY <1>0 DEF JoinRequests
<1>1. request[p] \in JoinRequests /\ request[p].op = "join" /\ request[p].stage = "write" /\ request[p].invite = i
  BY <1>0
<1>2. request'[p].op = "join" /\ request'[p].invite = i
  BY <1>1 DEF WriteJoin, GoTo, InstTypeOK, JoinRequests
<1>3. /\ invite' = [invite EXCEPT ![i].uses = @ + 1]
      /\ invite \in [Invites -> InviteRows]
  BY DEF WriteJoin, InstTypeOK, TypeOK
<1>4. /\ Seen(request[p], i) = [invite[i] EXCEPT !.phase = "open"]
      /\ \A j \in Invites \ {i} : Seen(request[p], j) = invite[j]
  BY <1>1 DEF Seen
<1>5. /\ Seen(request[p], i)' = [invite'[i] EXCEPT !.phase = "open"]
      /\ \A j \in Invites \ {i} : Seen(request[p], j)' = invite'[j]
  BY <1>2 DEF Seen
<1>6. /\ seenInvite[i].phase = "open" /\ seenInvite[i].uses = invite[i].uses
      /\ seenInvite[i].maxUses = invite[i].maxUses
  BY <1>1, <1>3, <1>4, SeenAlone DEF InviteRows
<1>7. seenInvite' = [seenInvite EXCEPT ![i].uses = @ + 1]
  <2>1. \A j \in Invites \ {i} : seenInvite'[j] = seenInvite[j]
    BY <1>3, <1>4, <1>5, SeenAlone
  <2>2. seenInvite'[i] = [seenInvite[i] EXCEPT !.uses = @ + 1]
    <3>1. invite'[i] = [invite[i] EXCEPT !.uses = @ + 1]
      BY <1>1, <1>3
    <3>2. [invite'[i] EXCEPT !.phase = "open"] = [[invite[i] EXCEPT !.phase = "open"] EXCEPT !.uses = @ + 1]
      BY <1>1, <1>3, <3>1 DEF InviteRows
    <3>3. seenInvite'[i] = [invite'[i] EXCEPT !.phase = "open"]
      BY <1>1, <1>5, SeenAlone
    <3>4. seenInvite[i] = [invite[i] EXCEPT !.phase = "open"]
      BY <1>1, <1>4, SeenAlone
    <3>5. QED BY <3>2, <3>3, <3>4
  <2>3. QED BY <2>1, <2>2, SeenAlone
<1>8. WithinLimit(invite[i].uses, invite[i].maxUses) /\ WithinLimit(countActiveMembers, maxMembers)
  BY <1>1 DEF Checked, JoinChecked
<1>9. Atomic!Join(u, i)
  BY <1>1, <1>6, <1>7, <1>8, AtomicReads DEF WriteJoin, Atomic!Join, cirviaVars, Atomic!cirviaVars
<1>10. QED BY <1>1, <1>9 DEF Atomic!Next, Atomic!InviteNext

\* The other writes: the invites are seen as they are, before and after.
LEMMA OtherWritesImplement ==
  ASSUME NEW p, Instances = {p}, InstTypeOK, InstTypeOK', Checked(p),
         (\E limit \in MaxUsesChoices : WriteInvite(p, limit)) \/ WriteModeration(p) \/ WriteRole(p)
  PROVE  Atomic!Next
<1>1. /\ request[p] \in ModerationRequests \cup CreateInviteRequests \cup UpdateRoleRequests
      /\ request[p].stage = "write"
      /\ request'[p] = [request[p] EXCEPT !.stage = "reply"]
  <2>1. GoTo(p, "reply") /\ request[p].stage = "write" /\ request[p].op \notin {"idle", "join"}
    BY OpsAssumption DEF WriteInvite, WriteModeration, WriteRole, Running
  <2>2. QED BY <2>1 DEF GoTo, InstTypeOK, Requests, JoinRequests, Idle
<1>2. seenInvite = invite /\ seenInvite' = invite'
  <2>1. request[p].op # "join" /\ request'[p].op # "join"
    BY <1>1, OpsAssumption DEF ModerationRequests, CreateInviteRequests, UpdateRoleRequests
  <2>2. seenInvite' = [i \in Invites |-> invite'[i]]
    BY <2>1, SeenAlone DEF Seen
  <2>3. QED BY <2>1, <2>2, SeenAsIs DEF InstTypeOK, TypeOK
<1>3. CASE WriteModeration(p)
  <2> DEFINE t == request[p].target
  <2>1. request[p].op \in ModerationOps /\ t \in Users
    BY <1>1, <1>3, OpsAssumption DEF WriteModeration, Running, ModerationRequests, CreateInviteRequests, UpdateRoleRequests
  <2> PICK a \in Users : requireRole(a, MinimumRole[request[p].op])
    BY <1>1, <2>1 DEF Checked, ModerationChecked
  <2>2. Atomic!requireRole(a, MinimumRole[request[p].op])
    BY <2>1, ModerationRoles, AtomicReads
  <2>3. IF request[p].op = "approve" THEN Atomic!HasRow(t) /\ member[t].status # "REMOVED" ELSE Atomic!assertTargetNotOwner(t)
    BY <1>1, <2>1, AtomicReads DEF Checked, ModerationChecked
  <2>4. UNCHANGED <<Atomic!cirviaVars, seenInvite, Atomic!scopeVars>>
    BY <1>2, <1>3 DEF WriteModeration, cirviaVars, scopeVars, Atomic!cirviaVars, Atomic!scopeVars
  <2>5. CASE request[p].op = "approve"
    <3>1. SetStatus(t, "ACTIVE")
      BY <1>3, <2>5 DEF WriteModeration, Running
    <3>2. Atomic!ApproveMember(a, t)
      BY <2>2, <2>3, <2>4, <2>5, <3>1 DEF Atomic!ApproveMember, Atomic!SetStatus, SetStatus, MinimumRole
    <3>3. QED BY <2>1, <3>2 DEF Atomic!Next, Atomic!ModerationNext
  <2>6. CASE request[p].op = "kick"
    <3>1. SetStatus(t, "REMOVED")
      BY <1>3, <2>6 DEF WriteModeration, Running
    <3>2. Atomic!KickMember(a, t)
      BY <2>2, <2>3, <2>4, <2>6, <3>1 DEF Atomic!KickMember, Atomic!SetStatus, SetStatus, MinimumRole
    <3>3. QED BY <2>1, <3>2 DEF Atomic!Next, Atomic!ModerationNext
  <2>7. CASE request[p].op = "ban"
    <3>1. PICK until \in MutedUntil : SetStatusAndMute(t, "BANNED", until)
      BY <1>3, <2>7 DEF WriteModeration, Running
    <3>2. Atomic!BanMember(a, t, until)
      BY <2>2, <2>3, <2>4, <2>7, <3>1 DEF Atomic!BanMember, Atomic!SetStatusAndMute, SetStatusAndMute, MinimumRole
    <3>3. QED BY <2>1, <3>2 DEF Atomic!Next, Atomic!ModerationNext, Atomic!MutedUntil, MutedUntil
  <2>8. CASE request[p].op = "mute"
    <3>1. PICK until \in MutedUntil \ {"null"} : SetStatusAndMute(t, "MUTED", until)
      BY <1>3, <2>8 DEF WriteModeration, Running
    <3>2. Atomic!MuteMember(a, t, until)
      BY <2>2, <2>3, <2>4, <2>8, <3>1 DEF Atomic!MuteMember, Atomic!SetStatusAndMute, SetStatusAndMute, MinimumRole
    <3>3. QED BY <2>1, <3>2 DEF Atomic!Next, Atomic!ModerationNext, Atomic!MutedUntil, MutedUntil
  <2>9. CASE request[p].op = "unmute"
    <3>1. SetStatusAndMute(t, "ACTIVE", "null")
      BY <1>3, <2>9 DEF WriteModeration, Running
    <3>2. Atomic!UnmuteMember(a, t)
      BY <2>2, <2>3, <2>4, <2>9, <3>1 DEF Atomic!UnmuteMember, Atomic!SetStatusAndMute, SetStatusAndMute, MinimumRole
    <3>3. QED BY <2>1, <3>2 DEF Atomic!Next, Atomic!ModerationNext
  <2>10. QED BY <1>3, <2>5, <2>6, <2>7, <2>8, <2>9 DEF WriteModeration, Running
<1>4. CASE WriteRole(p)
  <2> DEFINE t == request[p].target
             newRole == request[p].role
  <2>1. request[p].op = "updateRole" /\ t \in Users /\ newRole \in Roles
    BY <1>4, RequestKinds DEF WriteRole, Running, UpdateRoleRequests
  <2> PICK a \in Users : requireRole(a, "OWNER") /\ (request[p].self <=> a = t)
    BY <1>1, <2>1 DEF Checked, RoleChecked
  <2>2. Atomic!requireRole(a, "OWNER") /\ Atomic!HasRow(t) /\ member[t].status # "REMOVED"
    BY <1>1, <2>1, AtomicReads DEF Checked, RoleChecked, Roles
  <2>3. a = t /\ newRole # "OWNER" => Atomic!Cardinality(Atomic!ActiveOwners) > 1
    BY <1>1, <2>1, AtomicReads DEF Checked, RoleChecked
  <2>4. UNCHANGED <<Atomic!cirviaVars, seenInvite, Atomic!scopeVars>>
    BY <1>2, <1>4 DEF WriteRole, cirviaVars, scopeVars, Atomic!cirviaVars, Atomic!scopeVars
  <2>5. Atomic!UpdateRole(a, t, newRole)
    BY <1>4, <2>2, <2>3, <2>4 DEF WriteRole, Atomic!UpdateRole
  <2>6. QED BY <2>1, <2>5 DEF Atomic!Next, Atomic!ModerationNext, Atomic!Roles, Roles
<1>5. ASSUME NEW limit \in MaxUsesChoices, WriteInvite(p, limit)
      PROVE  Atomic!Next
  <2> DEFINE i == request[p].invite
  <2>1. i \in Invites
    BY <1>5, RequestKinds DEF WriteInvite, Running, CreateInviteRequests
  <2> PICK a \in Users : requireRole(a, "ADMIN")
    BY <1>5 DEF WriteInvite, Checked, CreateInviteChecked, MinimumRole
  <2>2. Atomic!requireRole(a, "ADMIN")
    BY AtomicReads DEF Roles
  <2>3. Atomic!CreateInvite(a, i, limit)
    BY <1>2, <1>5, <2>2 DEF WriteInvite, Atomic!CreateInvite, cirviaVars, scopeVars, Atomic!cirviaVars, Atomic!scopeVars
  <2>4. QED BY <2>1, <2>3 DEF Atomic!Next, Atomic!InviteNext
<1>6. QED BY <1>3, <1>4, <1>5
\* The environment is the same; what it does to the invite that is being redeemed is
\* not seen before the join has ended.
LEMMA EnvironmentImplements ==
  ASSUME NEW p, Instances = {p}, InstTypeOK, Checked(p), Environment
  PROVE  [Atomic!Next]_(Atomic!vars)
<1>0. UNCHANGED request /\ invite \in [Invites -> InviteRows]
  BY DEF Environment, InstTypeOK, TypeOK
<1>1. ASSUME UNCHANGED invite
      PROVE  UNCHANGED seenInvite
  <2>1. \A i \in Invites : Seen(request[p], i)' = Seen(request[p], i)
    BY <1>0, <1>1 DEF Seen
  <2>2. QED BY <2>1, SeenAlone
<1>2. ASSUME NEW u \in Users, NEW approval \in BOOLEAN, NEW limit \in MaxMembersChoices,
             Create(u, approval, limit)
      PROVE  Atomic!Next
  <2>1. Atomic!Create(u, approval, limit)
    BY <1>1, <1>2, AtomicReads DEF Create, Atomic!Create
  <2>2. QED BY <2>1 DEF Atomic!Next
<1>3. ASSUME NEW u \in Users, ExpireMute(u)
      PROVE  Atomic!Next
  <2>1. Atomic!ExpireMute(u)
    BY <1>1, <1>3 DEF ExpireMute, Atomic!ExpireMute, cirviaVars, scopeVars, Atomic!cirviaVars, Atomic!scopeVars
  <2>2. QED BY <2>1 DEF Atomic!Next
<1>4. ASSUME NEW i \in Invites, ExpireInvite(i) \/ DeactivateInvite(i)
      PROVE  [Atomic!Next]_(Atomic!vars)
  <2>0. UNCHANGED <<cirviaVars, member, scopeVars>>
    BY <1>4 DEF ExpireInvite, DeactivateInvite
  <2>1. PICK phase \in {"expired", "inactive"} :
          /\ invite' = [invite EXCEPT ![i].phase = phase]
          /\ invite[i].phase \in {"open", "expired"}
          /\ phase = "expired" => invite[i].phase = "open"
    BY <1>4 DEF ExpireInvite, DeactivateInvite
  <2>2. /\ \A j \in Invites \ {i} : invite'[j] = invite[j]
        /\ invite'[i] = [invite[i] EXCEPT !.phase = phase]
    BY <1>0, <2>1
  <2>3. \A j \in Invites \ {i} : Seen(request[p], j)' = Seen(request[p], j)
    BY <1>0, <2>2 DEF Seen
  <2>4. CASE request[p].op = "join" /\ request[p].invite = i
    <3>1. [invite'[i] EXCEPT !.phase = "open"] = [invite[i] EXCEPT !.phase = "open"]
      BY <1>0, <2>2 DEF InviteRows
    <3>2. Seen(request[p], i)' = Seen(request[p], i)
      BY <1>0, <2>4, <3>1 DEF Seen
    <3>3. UNCHANGED seenInvite
      BY <2>3, <3>2, SeenAlone
    <3>4. QED BY <2>0, <3>3 DEF cirviaVars, scopeVars, Atomic!vars, Atomic!cirviaVars, Atomic!scopeVars
  <2>5. CASE ~(request[p].op = "join" /\ request[p].invite = i)
    <3>1. Seen(request[p], i)' = invite'[i] /\ Seen(request[p], i) = invite[i]
      BY <1>0, <2>5 DEF Seen
    <3>2. seenInvite'[i] = invite'[i] /\ seenInvite[i] = invite[i]
      BY <3>1, SeenAlone
    <3>3. seenInvite' = [seenInvite EXCEPT ![i] = [seenInvite[i] EXCEPT !.phase = phase]]
      BY <2>2, <2>3, <3>2, SeenAlone
    <3>4. Atomic!ExpireInvite(i) \/ Atomic!DeactivateInvite(i)
      BY <2>0, <2>1, <3>2, <3>3
         DEF Atomic!ExpireInvite, Atomic!DeactivateInvite, cirviaVars, scopeVars, Atomic!cirviaVars, Atomic!scopeVars
    <3>5. QED BY <3>4 DEF Atomic!Next, Atomic!InviteNext
  <2>6. QED BY <2>4, <2>5
<1>5. QED BY <1>2, <1>3, <1>4 DEF Environment

\* Every step of the one process is a step of the atomic handlers or changes nothing
\* that they see.
LEMMA StepImplements ==
  ASSUME NEW p, Instances = {p}
  PROVE  InstTypeInv /\ InstTypeInv' /\ Checked(p) /\ [InstNext]_instVars => [Atomic!Next]_(Atomic!vars)
<1> SUFFICES ASSUME InstTypeInv, InstTypeInv', Checked(p), [InstNext]_instVars
             PROVE  [Atomic!Next]_(Atomic!vars)
  OBVIOUS
<1>0. InstTypeOK /\ InstTypeOK'
  BY DEF InstTypeInv
<1>1. CASE UNCHANGED instVars
  <2>1. UNCHANGED vars /\ \A i \in Invites : Seen(request[p], i)' = Seen(request[p], i)
    BY <1>1 DEF instVars, vars, Seen
  <2>2. QED BY <2>1, NothingSeen
<1>2. CASE BeginRequest(p)
  BY <1>0, <1>2, BeginImplements
<1>3. CASE CountMembers(p) \/ CheckTarget(p) \/ CheckRoleTarget(p) \/ CountOwners(p)
  <2>1. request[p] \in ModerationRequests \cup UpdateRoleRequests \cup JoinRequests
    BY <1>0, <1>3, RequestKinds DEF CountMembers, CheckTarget, CheckRoleTarget, CountOwners, Running
  <2>2. UNCHANGED vars /\ \E stage \in {"owners", "write"} : GoTo(p, stage)
    BY <1>3 DEF CountMembers, CheckTarget, CheckRoleTarget, CountOwners
  <2>3. QED BY <1>0, <2>1, <2>2, FurtherImplements
<1>4. CASE WriteJoin(p)
  BY <1>0, <1>4, JoinImplements
<1>5. CASE (\E limit \in MaxUsesChoices : WriteInvite(p, limit)) \/ WriteModeration(p) \/ WriteRole(p)
  BY <1>0, <1>5, OtherWritesImplement
<1>6. CASE Reply(p) \/ Fail(p)
  BY <1>0, <1>6, EndImplements
<1>7. CASE Environment
  BY <1>0, <1>7, EnvironmentImplements
<1>8. QED
  BY <1>1, <1>2, <1>3, <1>4, <1>5, <1>6, <1>7 DEF InstNext

\* With one API process, whatever it serves and in which order, splitting the handlers
\* into SQL statements changes nothing: every behaviour is one of the atomic handlers.
THEOREM OneProcessIsAtomic ==
  ASSUME NEW p, Instances = {p}
  PROVE  InstSpec => ImplementsAtomicHandlers
<1>1. InstInit => InstTypeInv /\ Checked(p)
  <2> SUFFICES ASSUME InstInit PROVE Checked(p)
    BY InstInitTypes
  <2>1. request[p] = Idle
    BY DEF InstInit
  <2>2. ~(\E u \in Users : HasRow(u)) /\ ~(\E i \in Invites : invite[i].phase # "absent")
    BY DEF InstInit, Init, HasRow
  <2>3. Populated
    BY <2>2 DEF Populated
  <2>4. QED
    BY <2>1, <2>3, OpsAssumption
       DEF Checked, JoinChecked, CreateInviteChecked, ModerationChecked, RoleChecked, Running, Idle
<1>2. InstInit => Atomic!Init
  <2> SUFFICES ASSUME InstInit PROVE Atomic!Init
    OBVIOUS
  <2>1. request[p].op # "join" /\ InstTypeOK
    BY InstInitTypes DEF InstInit, Idle, InstTypeInv
  <2>2. seenInvite = invite
    BY <2>1, SeenAsIs
  <2>3. QED BY <2>2, Zenon DEF InstInit, Init, Atomic!Init, NoRow, Atomic!NoRow
<1>3. InstTypeInv /\ Checked(p) /\ [InstNext]_instVars => InstTypeInv' /\ Checked(p)'
  BY InstTypeStep, CheckedStep
<1>4. InstTypeInv /\ InstTypeInv' /\ Checked(p) /\ [InstNext]_instVars => [Atomic!Next]_(Atomic!vars)
  BY StepImplements
<1>5. QED
  BY <1>1, <1>2, <1>3, <1>4, PTL DEF InstSpec, Atomic!Spec, ImplementsAtomicHandlers
=================================================================================
