---------------------------- MODULE CirviaInstances ----------------------------
(***************************************************************************)
(* The handlers of CirviaMembership in several API processes that share    *)
(* one database.  Each process runs one handler at a time, but its SQL     *)
(* statements interleave with those of the other processes: what a SELECT  *)
(* returned may be stale when the UPDATE is executed.  A transaction is    *)
(* one statement, since SQLite serialises the writers.                     *)
(*                                                                         *)
(* A handler that stops early (a check fails, SQLite is busy, the process  *)
(* crashes) leaves nothing behind: Fail.  With one process the handlers    *)
(* implement the atomic ones: ImplementsAtomicHandlers.                    *)
(***************************************************************************)
EXTENDS CirviaMembership

CONSTANTS
  Instances,      \* the API processes
  ModerationOps   \* the moderation calls clients make: some or all of the five

ASSUME InstancesAssumption == IsFiniteSet(Instances) /\ Instances # {}

ASSUME OpsAssumption == ModerationOps \subseteq {"approve", "kick", "ban", "mute", "unmute"}

VARIABLES
  request   \* what the handler running in each process still has to do

instVars == <<vars, request>>

\* The handlers that begin with requireRole, and the role each asks for.
MinimumRole == [createInvite |-> "ADMIN", approve |-> "ADMIN", kick |-> "ADMIN", ban |-> "ADMIN",
                mute |-> "MODERATOR", unmute |-> "MODERATOR", updateRole |-> "OWNER"]

\* The actor is read by the first statement only; updateRole remembers whether
\* it is the target.
Idle == [op |-> "idle"]

ModerationRequests == [op : ModerationOps, target : Users, stage : {"target", "write", "reply"}]

UpdateRoleRequests ==
  [op : {"updateRole"}, target : Users, role : Roles, self : BOOLEAN,
   stage : {"target", "owners", "write", "reply"}]

CreateInviteRequests == [op : {"createInvite"}, invite : Invites, stage : {"write", "reply"}]

JoinRequests == [op : {"join"}, user : Users, invite : Invites, stage : {"count", "write", "reply"}]

Requests == {Idle} \cup ModerationRequests \cup UpdateRoleRequests \cup CreateInviteRequests \cup JoinRequests

Running(p, op, stage) ==
  /\ request[p].op = op
  /\ request[p].stage = stage

GoTo(p, stage) == request' = [request EXCEPT ![p].stage = stage]

-----------------------------------------------------------------------------
(* First statements: a request arrives and its first check passes *)

BeginCreateInvite(p, a, i) ==
  /\ request[p] = Idle
  /\ requireRole(a, MinimumRole["createInvite"])
  /\ invite[i].phase = "absent"
  /\ request' = [request EXCEPT ![p] = [op |-> "createInvite", invite |-> i, stage |-> "write"]]
  /\ UNCHANGED vars

\* Mutant of BeginJoin: the exhausted invite is not refused.
BeginJoinUnlimited(p, u, i) ==
  /\ request[p] = Idle
  /\ invite[i].phase = "open"
  /\ request' = [request EXCEPT ![p] =
       [op |-> "join", user |-> u, invite |-> i, stage |-> IF maxMembers = NoLimit THEN "write" ELSE "count"]]
  /\ UNCHANGED vars

BeginJoin(p, u, i) ==
  /\ request[p] = Idle
  /\ invite[i].phase = "open"
  /\ WithinLimit(invite[i].uses, invite[i].maxUses)
  /\ request' = [request EXCEPT ![p] =
       [op |-> "join", user |-> u, invite |-> i, stage |-> IF maxMembers = NoLimit THEN "write" ELSE "count"]]
  /\ UNCHANGED vars

BeginModeration(p, op, a, t) ==
  /\ request[p] = Idle
  /\ requireRole(a, MinimumRole[op])
  /\ request' = [request EXCEPT ![p] = [op |-> op, target |-> t, stage |-> "target"]]
  /\ UNCHANGED vars

BeginUpdateRole(p, a, t, newRole) ==
  /\ request[p] = Idle
  /\ requireRole(a, MinimumRole["updateRole"])
  /\ request' = [request EXCEPT ![p] =
       [op |-> "updateRole", target |-> t, role |-> newRole, self |-> (a = t), stage |-> "target"]]
  /\ UNCHANGED vars

-----------------------------------------------------------------------------
(* Further checks, each on a SELECT of its own *)

CountMembers(p) ==
  /\ Running(p, "join", "count")
  /\ WithinLimit(countActiveMembers, maxMembers)
  /\ GoTo(p, "write")
  /\ UNCHANGED vars

CheckTarget(p) ==
  /\ \E op \in ModerationOps : Running(p, op, "target")
  /\ IF request[p].op = "approve"
     THEN HasRow(request[p].target) /\ member[request[p].target].status # "REMOVED"
     ELSE assertTargetNotOwner(request[p].target)
  /\ GoTo(p, "write")
  /\ UNCHANGED vars

\* Mutant of CheckRoleTarget: the owners are never counted.
CheckRoleTargetOnly(p) ==
  /\ Running(p, "updateRole", "target")
  /\ HasRow(request[p].target)
  /\ member[request[p].target].status # "REMOVED"
  /\ GoTo(p, "write")
  /\ UNCHANGED vars

\* The status of the row read here is examined after the owners are counted; a
\* REMOVED target ends the handler either way.
CheckRoleTarget(p) ==
  /\ Running(p, "updateRole", "target")
  /\ HasRow(request[p].target)
  /\ member[request[p].target].status # "REMOVED"
  /\ GoTo(p, IF request[p].self /\ request[p].role # "OWNER" THEN "owners" ELSE "write")
  /\ UNCHANGED vars

CountOwners(p) ==
  /\ Running(p, "updateRole", "owners")
  /\ Cardinality(ActiveOwners) > 1
  /\ GoTo(p, "write")
  /\ UNCHANGED vars

-----------------------------------------------------------------------------
(* Writes, each one statement or one transaction; UPDATE re-checks nothing *)

WriteInvite(p, limit) ==
  /\ Running(p, "createInvite", "write")
  /\ invite[request[p].invite].phase = "absent"
  /\ invite' = [invite EXCEPT ![request[p].invite] = [phase |-> "open", maxUses |-> limit, uses |-> 0]]
  /\ GoTo(p, "reply")
  /\ UNCHANGED <<cirviaVars, member, scopeVars>>

WriteJoin(p) ==
  LET u == request[p].user
      i == request[p].invite
  IN /\ Running(p, "join", "write")
     /\ invite[i].uses < UseBound
     /\ invite' = [invite EXCEPT ![i].uses = @ + 1]
     /\ member' = [member EXCEPT ![u] = JoinedRow(u)]
     /\ ensureScopes(u)
     /\ GoTo(p, "reply")
     /\ UNCHANGED cirviaVars

WriteModeration(p) ==
  LET t == request[p].target
  IN /\ \/ Running(p, "approve", "write") /\ SetStatus(t, "ACTIVE")
        \/ Running(p, "kick", "write") /\ SetStatus(t, "REMOVED")
        \/ /\ Running(p, "ban", "write")
           /\ \E until \in MutedUntil : SetStatusAndMute(t, "BANNED", until)
        \/ /\ Running(p, "mute", "write")
           /\ \E until \in MutedUntil \ {"null"} : SetStatusAndMute(t, "MUTED", until)
        \/ Running(p, "unmute", "write") /\ SetStatusAndMute(t, "ACTIVE", "null")
     /\ GoTo(p, "reply")
     /\ UNCHANGED <<cirviaVars, invite, scopeVars>>

WriteRole(p) ==
  /\ Running(p, "updateRole", "write")
  /\ member' = [member EXCEPT ![request[p].target].role = request[p].role]
  /\ GoTo(p, "reply")
  /\ UNCHANGED <<cirviaVars, invite, scopeVars>>

\* The handler returns after its write, or gives up before it.
Reply(p) ==
  /\ request[p] # Idle
  /\ request[p].stage = "reply"
  /\ request' = [request EXCEPT ![p] = Idle]
  /\ UNCHANGED vars

Fail(p) ==
  /\ request[p] # Idle
  /\ request[p].stage # "reply"
  /\ request' = [request EXCEPT ![p] = Idle]
  /\ UNCHANGED vars

-----------------------------------------------------------------------------
InstInit == Init /\ request = [p \in Instances |-> Idle]

BeginRequest(p) ==
  \/ \E u \in Users, i \in Invites : BeginJoin(p, u, i) \/ BeginCreateInvite(p, u, i)
  \/ \E a, t \in Users :
       \/ \E op \in ModerationOps : BeginModeration(p, op, a, t)
       \/ \E newRole \in Roles : BeginUpdateRole(p, a, t, newRole)

\* create looks for a Cirvia of the same name and inserts; the UNIQUE index on the
\* name lets one of several racing inserts through, so it stays one step.
Environment ==
  /\ \/ \E u \in Users, approval \in BOOLEAN, limit \in MaxMembersChoices : Create(u, approval, limit)
     \/ \E i \in Invites : ExpireInvite(i) \/ DeactivateInvite(i)
     \/ \E u \in Users : ExpireMute(u)
  /\ UNCHANGED request

InstNext ==
  \/ \E p \in Instances :
       \/ BeginRequest(p)
       \/ CountMembers(p) \/ CheckTarget(p) \/ CheckRoleTarget(p) \/ CountOwners(p)
       \/ \E limit \in MaxUsesChoices : WriteInvite(p, limit)
       \/ WriteJoin(p) \/ WriteModeration(p) \/ WriteRole(p)
       \/ Reply(p) \/ Fail(p)
  \/ Environment

InstSpec == InstInit /\ [][InstNext]_instVars

-----------------------------------------------------------------------------
(* Properties *)

\* The database is well typed, and every process runs one of the known requests.
InstTypeOK == TypeOK /\ request \in [Instances -> Requests]

\* Each process may have read usesCount before the others wrote it, but only once:
\* an invite is used at most once per additional process beyond maxUses.
OvershootBounded ==
  \A i \in Invites : invite[i].maxUses # NoLimit =>
    invite[i].uses <= invite[i].maxUses + Cardinality(Instances) - 1

\* While a join is under way the clock and the operator may close the invite; for
\* the callers the invite is open until that join has ended.
Redeeming(i) == \E p \in Instances : request[p].op = "join" /\ request[p].invite = i

seenInvite == [i \in Invites |-> IF Redeeming(i) THEN [invite[i] EXCEPT !.phase = "open"] ELSE invite[i]]

Atomic == INSTANCE CirviaMembership WITH invite <- seenInvite

\* With one process, splitting the handlers into statements changes nothing: every
\* behaviour is one of the atomic handlers.
ImplementsAtomicHandlers == Atomic!Spec
=============================================================================
