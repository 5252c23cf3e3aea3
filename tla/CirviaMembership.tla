--------------------------- MODULE CirviaMembership ---------------------------
(***************************************************************************)
(* Members, roles, moderation and invites of one Cirvia (a community), as  *)
(* CirviaService implements them in one API process.  A handler body up to *)
(* its first await runs without interruption on Node's single thread and   *)
(* talks to SQLite synchronously, so each handler is one action here;      *)
(* CirviaInstances splits the same handlers into their SQL statements.     *)
(*                                                                         *)
(* Rows are keyed by cirviaId, hence one Cirvia is modelled.  Dates are    *)
(* abstracted to their position relative to now.                           *)
(***************************************************************************)
EXTENDS Naturals, FiniteSets

CONSTANTS
  Users,               \* accounts
  Invites,             \* invite codes generateUniqueInviteCode can return
  MaxUsesChoices,      \* values of dto.maxUses, NoLimit when it is absent
  MaxMembersChoices,   \* values of dto.maxMembers, NoLimit when it is absent
  NoLimit,             \* SQL NULL in a limit column
  UseBound             \* bound of the model on usesCount of one invite

ASSUME UsersAssumption == IsFiniteSet(Users)

\* create and createInvite reject limits that are not positive (:371, :593).
ASSUME LimitsAssumption ==
  /\ MaxUsesChoices \subseteq (Nat \ {0}) \cup {NoLimit}
  /\ MaxMembersChoices \subseteq (Nat \ {0}) \cup {NoLimit}
  /\ NoLimit \notin Nat
  /\ UseBound \in Nat

VARIABLES
  created,          \* the Cirvia row exists
  requireApproval,  \* Cirvia.requireApproval
  maxMembers,       \* Cirvia.maxMembers
  member,           \* CirviaMember rows: role, status and mutedUntil per user
  invite,           \* CirviaInvite rows
  cirviaScope,      \* users with a CIRVIA IdentityScope row for this Cirvia
  globalScope       \* users with a GLOBAL_DEFAULT IdentityScope row

cirviaVars == <<created, requireApproval, maxMembers>>
scopeVars  == <<cirviaScope, globalScope>>
vars == <<cirviaVars, member, invite, scopeVars>>

Roles    == {"MEMBER", "MODERATOR", "ADMIN", "OWNER"}
Statuses == {"PENDING", "ACTIVE", "BANNED", "MUTED", "REMOVED"}

\* mutedUntil is NULL, an instant in the past or one in the future.
MutedUntil == {"null", "past", "future"}

NoRow == [role |-> "NONE", status |-> "NONE", mutedUntil |-> "null"]

MemberRows == [role : Roles, status : Statuses, mutedUntil : MutedUntil]

\* "open" is active and not expired; an inactive invite may be expired too.
InvitePhases == {"absent", "open", "expired", "inactive"}

InviteRows == [phase : InvitePhases, maxUses : MaxUsesChoices \cup {NoLimit}, uses : Nat]

-----------------------------------------------------------------------------
(* Reads the handlers share *)

roleRank == [MEMBER |-> 1, MODERATOR |-> 2, ADMIN |-> 3, OWNER |-> 4]

hasRoleAtLeast(role, minimum) == roleRank[role] >= roleRank[minimum]

HasRow(u) == member[u] # NoRow

\* A membership that counts: it may act, and it takes up a place.
Effective(u) == member[u].status \in {"ACTIVE", "MUTED"}

requireRole(a, minimum) == Effective(a) /\ hasRoleAtLeast(member[a].role, minimum)

assertTargetNotOwner(t) == HasRow(t) /\ member[t].role # "OWNER"

countActiveMembers == Cardinality({u \in Users : Effective(u)})

\* Mutant of ActiveOwners: counts owners that cannot act.
OwnersOfAnyStatus == {u \in Users : member[u].role = "OWNER"}

ActiveOwners == {u \in Users : member[u].role = "OWNER" /\ member[u].status = "ACTIVE"}

\* Mutant of WithinLimit: off by one.
WithinLimitInclusive(n, limit) == limit # NoLimit => n <= limit

WithinLimit(n, limit) == limit # NoLimit => n < limit

ensureScopes(u) ==
  /\ cirviaScope' = cirviaScope \cup {u}
  /\ globalScope' = globalScope \cup {u}

-----------------------------------------------------------------------------
(* Handlers *)

Create(u, approval, limit) ==
  /\ ~created
  /\ created' = TRUE
  /\ requireApproval' = approval
  /\ maxMembers' = limit
  /\ member' = [member EXCEPT ![u] = [role |-> "OWNER", status |-> "ACTIVE", mutedUntil |-> "null"]]
  /\ ensureScopes(u)
  /\ UNCHANGED invite

CreateInvite(a, i, limit) ==
  /\ requireRole(a, "ADMIN")
  /\ invite[i].phase = "absent"
  /\ invite' = [invite EXCEPT ![i] = [phase |-> "open", maxUses |-> limit, uses |-> 0]]
  /\ UNCHANGED <<cirviaVars, member, scopeVars>>

JoinStatus == IF requireApproval THEN "PENDING" ELSE "ACTIVE"

\* Mutant of JoinedRow: only newcomers wait for approval.
JoinedRowReturning(u) ==
  [role |-> "MEMBER", status |-> IF HasRow(u) THEN "ACTIVE" ELSE JoinStatus,
   mutedUntil |-> member[u].mutedUntil]

\* The row of a user who joins: INSERT for a new one, and for an existing one,
\* whatever its role and status, UPDATE status and role, not mutedUntil.
JoinedRow(u) == [role |-> "MEMBER", status |-> JoinStatus, mutedUntil |-> member[u].mutedUntil]

\* Mutant of Join: who has been a member before is not counted.
JoinReturningFree(u, i) ==
  /\ invite[i].phase = "open"
  /\ WithinLimit(invite[i].uses, invite[i].maxUses)
  /\ HasRow(u) \/ WithinLimit(countActiveMembers, maxMembers)
  /\ invite[i].uses < UseBound
  /\ invite' = [invite EXCEPT ![i].uses = @ + 1]
  /\ member' = [member EXCEPT ![u] = JoinedRow(u)]
  /\ ensureScopes(u)
  /\ UNCHANGED cirviaVars

Join(u, i) ==
  /\ invite[i].phase = "open"
  /\ WithinLimit(invite[i].uses, invite[i].maxUses)
  /\ WithinLimit(countActiveMembers, maxMembers)
  /\ invite[i].uses < UseBound
  /\ invite' = [invite EXCEPT ![i].uses = @ + 1]
  /\ member' = [member EXCEPT ![u] = JoinedRow(u)]
  /\ ensureScopes(u)
  /\ UNCHANGED cirviaVars

\* What the moderation handlers write: status, and mutedUntil when they set it.
SetStatus(t, s) == member' = [member EXCEPT ![t].status = s]

SetStatusAndMute(t, s, m) ==
  member' = [member EXCEPT ![t] = [role |-> member[t].role, status |-> s, mutedUntil |-> m]]

ApproveMember(a, t) ==
  /\ requireRole(a, "ADMIN")
  /\ HasRow(t)
  /\ member[t].status # "REMOVED"
  /\ SetStatus(t, "ACTIVE")
  /\ UNCHANGED <<cirviaVars, invite, scopeVars>>

KickMember(a, t) ==
  /\ requireRole(a, "ADMIN")
  /\ assertTargetNotOwner(t)
  /\ SetStatus(t, "REMOVED")
  /\ UNCHANGED <<cirviaVars, invite, scopeVars>>

\* A ban may carry a duration, which only sets mutedUntil; it may be negative.
BanMember(a, t, until) ==
  /\ requireRole(a, "ADMIN")
  /\ assertTargetNotOwner(t)
  /\ SetStatusAndMute(t, "BANNED", until)
  /\ UNCHANGED <<cirviaVars, invite, scopeVars>>

\* The duration of a mute is not validated, so the deadline may have passed.
MuteMember(a, t, until) ==
  /\ requireRole(a, "MODERATOR")
  /\ assertTargetNotOwner(t)
  /\ until # "null"
  /\ SetStatusAndMute(t, "MUTED", until)
  /\ UNCHANGED <<cirviaVars, invite, scopeVars>>

UnmuteMember(a, t) ==
  /\ requireRole(a, "MODERATOR")
  /\ assertTargetNotOwner(t)
  /\ SetStatusAndMute(t, "ACTIVE", "null")
  /\ UNCHANGED <<cirviaVars, invite, scopeVars>>

\* Mutants of UpdateRole: a REMOVED target passes; admins may
\* appoint owners.
UpdateRoleOfRemoved(a, t, newRole) ==
  /\ requireRole(a, "OWNER")
  /\ HasRow(t)
  /\ a = t /\ newRole # "OWNER" => Cardinality(ActiveOwners) > 1
  /\ member' = [member EXCEPT ![t].role = newRole]
  /\ UNCHANGED <<cirviaVars, invite, scopeVars>>

UpdateRoleByAdmin(a, t, newRole) ==
  /\ requireRole(a, "ADMIN")
  /\ HasRow(t)
  /\ a = t /\ newRole # "OWNER" => Cardinality(ActiveOwners) > 1
  /\ member[t].status # "REMOVED"
  /\ member' = [member EXCEPT ![t].role = newRole]
  /\ UNCHANGED <<cirviaVars, invite, scopeVars>>

UpdateRole(a, t, newRole) ==
  /\ requireRole(a, "OWNER")
  /\ HasRow(t)
  /\ a = t /\ newRole # "OWNER" => Cardinality(ActiveOwners) > 1
  /\ member[t].status # "REMOVED"
  /\ member' = [member EXCEPT ![t].role = newRole]
  /\ UNCHANGED <<cirviaVars, invite, scopeVars>>

-----------------------------------------------------------------------------
(* Environment: the clock passes a stored date, or an operator clears        *)
(* isActive in the database (no handler does).                               *)

ExpireInvite(i) ==
  /\ invite[i].phase = "open"
  /\ invite' = [invite EXCEPT ![i].phase = "expired"]
  /\ UNCHANGED <<cirviaVars, member, scopeVars>>

DeactivateInvite(i) ==
  /\ invite[i].phase \in {"open", "expired"}
  /\ invite' = [invite EXCEPT ![i].phase = "inactive"]
  /\ UNCHANGED <<cirviaVars, member, scopeVars>>

ExpireMute(u) ==
  /\ member[u].mutedUntil = "future"
  /\ member' = [member EXCEPT ![u].mutedUntil = "past"]
  /\ UNCHANGED <<cirviaVars, invite, scopeVars>>

-----------------------------------------------------------------------------
Init ==
  /\ created = FALSE
  /\ requireApproval = FALSE
  /\ maxMembers = NoLimit
  /\ member = [u \in Users |-> NoRow]
  /\ invite = [i \in Invites |-> [phase |-> "absent", maxUses |-> NoLimit, uses |-> 0]]
  /\ cirviaScope = {}
  /\ globalScope \in SUBSET Users

InviteNext ==
  \E i \in Invites :
    \/ \E a \in Users, limit \in MaxUsesChoices : CreateInvite(a, i, limit)
    \/ \E u \in Users : Join(u, i)
    \/ ExpireInvite(i)
    \/ DeactivateInvite(i)

ModerationNext ==
  \E a, t \in Users :
    \/ ApproveMember(a, t)
    \/ KickMember(a, t)
    \/ \E until \in MutedUntil : BanMember(a, t, until)
    \/ \E until \in MutedUntil : MuteMember(a, t, until)
    \/ UnmuteMember(a, t)
    \/ \E newRole \in Roles : UpdateRole(a, t, newRole)

Next ==
  \/ \E u \in Users, approval \in BOOLEAN, limit \in MaxMembersChoices : Create(u, approval, limit)
  \/ InviteNext
  \/ ModerationNext
  \/ \E u \in Users : ExpireMute(u)

Spec == Init /\ [][Next]_vars

-----------------------------------------------------------------------------
(* Properties *)

\* Every column holds a value of its type; a user without a row is NoRow.
TypeOK ==
  /\ created \in BOOLEAN
  /\ requireApproval \in BOOLEAN
  /\ maxMembers \in MaxMembersChoices \cup {NoLimit}
  /\ member \in [Users -> MemberRows \cup {NoRow}]
  /\ invite \in [Invites -> InviteRows]
  /\ cirviaScope \subseteq Users
  /\ globalScope \subseteq Users

\* An invite is never used more often than its maxUses (join :413).
InviteWithinLimit ==
  \A i \in Invites : invite[i].maxUses # NoLimit => invite[i].uses <= invite[i].maxUses

\* A MUTED member always has a deadline.  The chat refuses a message only while
\* mutedUntil lies in the future, so a MUTED row without one would never be silenced.
MutedHasDeadline == \A u \in Users : member[u].status = "MUTED" => member[u].mutedUntil # "null"

\* No handler leaves an OWNER row REMOVED: kick refuses owners, updateRole refuses
\* removed members, and join resets the role.  Such an owner could not be restored,
\* since no handler acts on an OWNER but approve, which refuses REMOVED.
NoRemovedOwner == \A u \in Users : member[u].role = "OWNER" => member[u].status # "REMOVED"

\* A membership row comes with the two identity scopes its writer ensures, so the
\* identity resolver finds the scope of every member, former ones included.
ScopesFollowMembership == \A u \in Users : HasRow(u) => u \in cirviaScope \cap globalScope

\* What every sequence of joins and moderation calls keeps of the membership rows and
\* of the scopes beside them.
RowInv == MutedHasDeadline /\ NoRemovedOwner /\ ScopesFollowMembership

AnInviteIsUsed == \E i \in Invites : invite'[i].uses > invite[i].uses

\* A join never takes the number of effective members above maxMembers (:417); only
\* staff decisions (approve, mute, unmute) may.
JoinRespectsCapacity ==
  [][AnInviteIsUsed /\ maxMembers # NoLimit => countActiveMembers' <= maxMembers]_vars

HasEffectiveOwner == \E u \in Users : member[u].role = "OWNER" /\ Effective(u)

\* No role change and no moderation takes away the last owner who can act: when the
\* Cirvia loses it, that owner has just redeemed an invite of the Cirvia.
LastOwnerKept ==
  [][HasEffectiveOwner /\ ~HasEffectiveOwner' => AnInviteIsUsed]_vars

HasOwner == \E u \in Users : member[u].role = "OWNER"

\* A Cirvia without an owner never gets one again: no sequence of calls restores it.
OwnershipIsNotRegained == [][created /\ ~HasOwner => ~HasOwner']_vars

\* Where approval is required, whoever becomes an effective member, newcomer, banned
\* or removed user alike, is let in by another effective member of staff.
AdmissionNeedsStaff ==
  [][created /\ requireApproval =>
       \A u \in Users : ~Effective(u) /\ Effective(u)' =>
         \E a \in Users \ {u} : requireRole(a, "MODERATOR")]_vars
=============================================================================
