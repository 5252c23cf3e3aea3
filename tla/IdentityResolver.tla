---------------------------- MODULE IdentityResolver ----------------------------
(***************************************************************************)
(* How users are shown to others in a Cirvia and in its chats:             *)
(* IdentityResolverService reads the IdentityScope rows of the subjects,   *)
(* first those of the context it resolves in (a Cirvia, a one-to-one chat, *)
(* or the default itself), then the global defaults, and creates an        *)
(* anonymous default where it has found neither.                           *)
(*                                                                         *)
(* The service awaits its repository after every statement, so the         *)
(* resolutions of one process, and all the more those of several, proceed  *)
(* in between each other.  The unique index on the rows does not apply to  *)
(* the rows of chats and the global defaults, whose cirviaId is NULL.      *)
(***************************************************************************)
EXTENDS Naturals, Sequences, FiniteSets

CONSTANTS
  Subjects,   \* users with a profile; a viewer is not a subject of its own resolutions
  Tasks,      \* resolutions that may be in progress at a time
  Levels,     \* IdentityLevel: ANONYMOUS and those a user may choose above it
  None

ASSUME TasksAssumption == IsFiniteSet(Tasks)

ASSUME LevelsAssumption == "ANONYMOUS" \in Levels /\ None \notin Levels

VARIABLES
  exact,      \* per subject: the level of its row for the Cirvia, or None
  chatScopes, \* per subject: the levels of its CHAT_1TO1 rows, which no code writes
  defaults,   \* per subject: the levels of its GLOBAL_DEFAULT rows, oldest first
  task        \* resolutions in progress

rowVars == <<exact, chatScopes, defaults>>
vars == <<rowVars, task>>

Idle == [op |-> "idle"]

ScopeTypes == {"CIRVIA", "CHAT_1TO1", "GLOBAL_DEFAULT"}

\* A resolution has subjects left to answer for and the level it found for each; as a
\* history, the levels that have applied to each since it began.
Resolutions ==
  [op : {"single", "bulk"}, scopeType : ScopeTypes, stage : {"exact", "default", "answer"},
   left : SUBSET Subjects, found : [Subjects -> Levels \cup {None}], applied : [Subjects -> SUBSET Levels]]

-----------------------------------------------------------------------------
(* DbIdentityScopeRepository *)

\* getGlobalDefault reads one row; in the Map of getGlobalDefaults a later row wins.
GlobalDefault(levels, op) ==
  IF levels = <<>> THEN None ELSE IF op = "single" THEN levels[1] ELSE levels[Len(levels)]

\* What the lookup for the context may find: the row of the Cirvia; any of the rows of
\* u's chats, as they name no chat and are read in no order; or the default.
ExactScopes(u, level, levels, scopeType) ==
  CASE scopeType = "CIRVIA"         -> {level}
    [] scopeType = "CHAT_1TO1"      -> IF chatScopes[u] = {} THEN {None} ELSE chatScopes[u]
    [] scopeType = "GLOBAL_DEFAULT" -> {GlobalDefault(levels, "single")}

createGlobalDefaultAnonymous(u) == defaults' = [defaults EXCEPT ![u] = Append(@, "ANONYMOUS")]

OrAnonymous(level) == IF level = None THEN "ANONYMOUS" ELSE level

\* The levels that may result from these rows, if nothing else happens.
Applying(u, level, levels, op, scopeType) ==
  {OrAnonymous(IF found # None THEN found ELSE GlobalDefault(levels, op)) :
     found \in ExactScopes(u, level, levels, scopeType)}

\* Record what applies after a step that changes the rows.
Noted(r) ==
  IF r = Idle THEN r
  ELSE [r EXCEPT !.applied = [u \in Subjects |->
          @[u] \cup Applying(u, exact'[u], defaults'[u], r.op, r.scopeType)]]

-----------------------------------------------------------------------------
(* Resolutions: lookupScope of one subject, resolveIdentityBulk of several *)

Begin(t, op, scopeType, users) ==
  /\ task[t] = Idle
  /\ task' = [task EXCEPT ![t] = [
         op |-> op, scopeType |-> scopeType, stage |-> "exact",
         left |-> users, found |-> [u \in Subjects |-> None],
         applied |-> [u \in Subjects |-> Applying(u, exact[u], defaults[u], op, scopeType)]]]
  /\ UNCHANGED rowVars

At(t, stage) == task[t] # Idle /\ task[t].stage = stage

Finds(t, stage, found) == task' = [task EXCEPT ![t] = [@ EXCEPT !.stage = stage, !.found = found]]

ReadExact(t) ==
  /\ At(t, "exact")
  /\ \E found \in [Subjects -> Levels \cup {None}] :
       /\ \A u \in Subjects : found[u] \in ExactScopes(u, exact[u], defaults[u], task[t].scopeType)
       /\ Finds(t, "default", found)
  /\ UNCHANGED rowVars

\* Mutant of ReadDefaults: the defaults are preferred to the scopes of the Cirvia.
PreferDefaults(t) ==
  /\ At(t, "default")
  /\ Finds(t, "answer", [u \in Subjects |->
       IF defaults[u] # <<>> THEN GlobalDefault(defaults[u], task[t].op) ELSE task[t].found[u]])
  /\ UNCHANGED rowVars

ReadDefaults(t) ==
  /\ At(t, "default")
  /\ Finds(t, "answer", [u \in Subjects |->
       IF task[t].found[u] # None THEN task[t].found[u] ELSE GlobalDefault(defaults[u], task[t].op)])
  /\ UNCHANGED rowVars

\* The resolution when u has been answered.
Answered(t, u) == IF task[t].left = {u} THEN Idle ELSE [task[t] EXCEPT !.left = @ \ {u}]

Answer(t, u) ==
  /\ At(t, "answer")
  /\ u \in task[t].left
  /\ task[t].found[u] # None
  /\ task' = [task EXCEPT ![t] = Answered(t, u)]
  /\ UNCHANGED rowVars

\* Mutant of CreateDefault: created for whoever has no scope in the Cirvia.
CreateForStranger(t, u) ==
  /\ At(t, "answer")
  /\ u \in task[t].left
  /\ exact[u] = None
  /\ createGlobalDefaultAnonymous(u)
  /\ UNCHANGED <<exact, chatScopes>>
  /\ task' = [x \in Tasks |-> Noted(IF x = t THEN Answered(t, u) ELSE task[x])]

CreateDefault(t, u) ==
  /\ At(t, "answer")
  /\ u \in task[t].left
  /\ task[t].found[u] = None
  /\ createGlobalDefaultAnonymous(u)
  /\ UNCHANGED <<exact, chatScopes>>
  /\ task' = [x \in Tasks |-> Noted(IF x = t THEN Answered(t, u) ELSE task[x])]

\* A statement fails, the process dies, or nobody is left to answer for.
EndTask(t) ==
  /\ task[t] # Idle
  /\ task' = [task EXCEPT ![t] = Idle]
  /\ UNCHANGED rowVars

-----------------------------------------------------------------------------
(* CirviaService.join and create: ensureIdentityScope, ensureGlobalDefaultScope *)

\* Mutant of Join: does not look for a default.
JoinWithDefault(u) ==
  /\ exact' = [exact EXCEPT ![u] = OrAnonymous(@)]
  /\ createGlobalDefaultAnonymous(u)
  /\ UNCHANGED chatScopes
  /\ task' = [t \in Tasks |-> Noted(task[t])]

Join(u) ==
  /\ exact' = [exact EXCEPT ![u] = OrAnonymous(@)]
  /\ IF defaults[u] = <<>> THEN createGlobalDefaultAnonymous(u) ELSE UNCHANGED defaults
  /\ UNCHANGED chatScopes
  /\ task' = [t \in Tasks |-> Noted(task[t])]

-----------------------------------------------------------------------------
\* Scopes above ANONYMOUS are chosen outside this code: at most one for the Cirvia and
\* one default, and any number for chats.
Init ==
  /\ exact \in [Subjects -> Levels \cup {None}]
  /\ chatScopes \in [Subjects -> SUBSET Levels]
  /\ defaults \in [Subjects -> {<<>>} \cup {<<level>> : level \in Levels}]
  /\ task = [t \in Tasks |-> Idle]

Next ==
  \/ \E t \in Tasks :
       \/ \E u \in Subjects, scopeType \in {"CIRVIA", "GLOBAL_DEFAULT"} : Begin(t, "single", scopeType, {u})
       \/ \E users \in SUBSET Subjects, scopeType \in {"CIRVIA", "CHAT_1TO1"} : Begin(t, "bulk", scopeType, users)
       \/ ReadExact(t) \/ ReadDefaults(t) \/ EndTask(t)
       \/ \E u \in Subjects : Answer(t, u) \/ CreateDefault(t, u)
  \/ \E u \in Subjects : Join(u)

Spec == Init /\ [][Next]_vars

-----------------------------------------------------------------------------
(* Properties *)

\* Scopes and resolutions hold values of their types.
TypeOK ==
  /\ exact \in [Subjects -> Levels \cup {None}]
  /\ chatScopes \in [Subjects -> SUBSET Levels]
  /\ defaults \in [Subjects -> Seq(Levels)]
  /\ task \in [Tasks -> {Idle} \cup Resolutions]

\* A default somebody has chosen is never joined by another row, so single and bulk
\* resolutions, which pick different rows, agree.
ChosenDefaultIsAlone ==
  \A u \in Subjects : (\E i \in DOMAIN defaults[u] : defaults[u][i] # "ANONYMOUS") => Len(defaults[u]) = 1

\* 'cannot create multiple GLOBAL_DEFAULT scopes for the same user': a subject has one
\* default.  It may have more: two resolutions that have both found none create one each.
OneDefault == \A u \in Subjects : Len(defaults[u]) <= 1

\* What remains of that rule: however resolutions and joins interleave, a subject has at
\* most one default per concurrent resolution and one more from a join.
DuplicatesBounded == \A u \in Subjects : Len(defaults[u]) <= Cardinality(Tasks) + 1

Result(t, u) == OrAnonymous(task[t].found[u])

\* Nobody is shown at a level that did not apply at some moment of the resolution,
\* although its reads are separate statements and the member may join in between.
AnswersWereCurrent ==
  \A t \in Tasks : At(t, "answer") => \A u \in task[t].left : Result(t, u) \in task[t].applied[u]
=============================================================================
