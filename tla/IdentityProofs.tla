----------------------------- MODULE IdentityProofs -----------------------------
(***************************************************************************)
(* Proofs about the three parts that decide how much of a user is seen:    *)
(* IdentityResolver (duplicate defaults are harmless, and every answer was *)
(* current), IdentityReveal (consent, and what rests on it) and            *)
(* IdentityScopes (what a request may leave on beyond its level).          *)
(***************************************************************************)
EXTENDS IdentityResolver, IdentityReveal, IdentityScopes, FiniteSetTheorems, TLAPS

-----------------------------------------------------------------------------
(* Typing *)

LEMMA ScopeValues ==
  ASSUME NEW u \in Subjects, chatScopes \in [Subjects -> SUBSET Levels],
         NEW level \in Levels \cup {None}, NEW levels \in Seq(Levels), NEW op, NEW scopeType \in ScopeTypes
  PROVE  /\ ExactScopes(u, level, levels, scopeType) \subseteq Levels \cup {None}
         /\ GlobalDefault(levels, op) \in Levels \cup {None}
         /\ OrAnonymous(level) \in Levels
         /\ Applying(u, level, levels, op, scopeType) \subseteq Levels
<1>1. ASSUME NEW x PROVE GlobalDefault(levels, x) \in Levels \cup {None}
  BY DEF GlobalDefault
<1>2. ASSUME NEW x \in Levels \cup {None} PROVE OrAnonymous(x) \in Levels
  BY LevelsAssumption DEF OrAnonymous
<1>3. ExactScopes(u, level, levels, scopeType) \subseteq Levels \cup {None}
  <2>1. chatScopes[u] \subseteq Levels
    OBVIOUS
  <2>2. GlobalDefault(levels, "single") \in Levels \cup {None}
    BY <1>1
  <2>3. QED BY <2>1, <2>2 DEF ExactScopes, ScopeTypes
<1>4. Applying(u, level, levels, op, scopeType) \subseteq Levels
  BY <1>1, <1>2, <1>3 DEF Applying
<1>5. QED
  BY <1>1, <1>2, <1>3, <1>4

\* A step changes some fields of a resolution and leaves the others.
LEMMA NotIdle == Idle \notin Resolutions
BY DEF Resolutions, Idle

LEMMA FoundTypes ==
  ASSUME NEW r \in Resolutions, NEW stage \in {"default", "answer"},
         NEW found \in [Subjects -> Levels \cup {None}]
  PROVE  LET x == [r EXCEPT !.stage = stage, !.found = found]
         IN  /\ x \in Resolutions /\ x.stage = stage /\ x.found = found
             /\ x.left = r.left /\ x.applied = r.applied /\ x.op = r.op /\ x.scopeType = r.scopeType
BY DEF Resolutions

LEMMA LeftTypes ==
  ASSUME NEW r \in Resolutions, NEW left \in SUBSET Subjects, NEW x, x = [r EXCEPT !.left = left]
  PROVE  /\ x \in Resolutions /\ x.left = left /\ x.stage = r.stage /\ x.found = r.found
         /\ x.applied = r.applied /\ x.op = r.op /\ x.scopeType = r.scopeType
BY DEF Resolutions

LEMMA AppliedTypes ==
  ASSUME NEW r \in Resolutions, NEW applied \in [Subjects -> SUBSET Levels],
         NEW x, x = [r EXCEPT !.applied = applied]
  PROVE  /\ x \in Resolutions /\ x.applied = applied /\ x.stage = r.stage /\ x.found = r.found
         /\ x.left = r.left /\ x.op = r.op /\ x.scopeType = r.scopeType
BY DEF Resolutions

\* What Noted makes of a resolution.
LEMMA NotedTypes ==
  ASSUME exact' \in [Subjects -> Levels \cup {None}], defaults' \in [Subjects -> Seq(Levels)],
         chatScopes \in [Subjects -> SUBSET Levels], NEW r \in Resolutions
  PROVE  /\ Noted(r) \in Resolutions
         /\ Noted(r).op = r.op /\ Noted(r).scopeType = r.scopeType /\ Noted(r).stage = r.stage
         /\ Noted(r).left = r.left /\ Noted(r).found = r.found
         /\ \A u \in Subjects :
              Noted(r).applied[u] =
                r.applied[u] \cup Applying(u, exact'[u], defaults'[u], r.op, r.scopeType)
<1> DEFINE applied == [u \in Subjects |->
             r.applied[u] \cup Applying(u, exact'[u], defaults'[u], r.op, r.scopeType)]
<1>1. r.applied \in [Subjects -> SUBSET Levels] /\ r.scopeType \in ScopeTypes
  BY DEF Resolutions
<1>2. ASSUME NEW u \in Subjects
      PROVE Applying(u, exact'[u], defaults'[u], r.op, r.scopeType) \subseteq Levels
  BY <1>1, ScopeValues
<1>3. applied \in [Subjects -> SUBSET Levels]
  BY <1>1, <1>2
<1>4. Noted(r) = [r EXCEPT !.applied = applied]
  BY NotIdle DEF Noted
<1>5. ASSUME NEW u \in Subjects
      PROVE applied[u] = r.applied[u] \cup Applying(u, exact'[u], defaults'[u], r.op, r.scopeType)
  OBVIOUS
<1> HIDE DEF applied
<1>6. /\ Noted(r) \in Resolutions /\ Noted(r).applied = applied /\ Noted(r).stage = r.stage
      /\ Noted(r).found = r.found /\ Noted(r).left = r.left
      /\ Noted(r).op = r.op /\ Noted(r).scopeType = r.scopeType
  BY <1>3, <1>4, AppliedTypes
<1>7. QED
  BY <1>5, <1>6

LEMMA NotedIdle == Noted(Idle) = Idle
BY DEF Noted

\* Every step either leaves the rows alone and gives one resolution a new value, or
\* appends to the defaults and has every resolution note it.
LEMMA NextTypeOK == TypeOK /\ [Next]_vars => TypeOK'
<1> SUFFICES ASSUME TypeOK, [Next]_vars PROVE TypeOK'
  OBVIOUS
<1>1. ASSUME NEW t \in Tasks, NEW next \in {Idle} \cup Resolutions,
             task' = [task EXCEPT ![t] = next], UNCHANGED rowVars
      PROVE TypeOK'
  BY <1>1 DEF TypeOK, rowVars
<1>2. ASSUME NEW t \in Tasks, task[t] # Idle PROVE task[t] \in Resolutions
  BY <1>2 DEF TypeOK
<1>3. ASSUME NEW t \in Tasks, NEW op \in {"single", "bulk"}, NEW scopeType \in ScopeTypes,
             NEW users \in SUBSET Subjects, Begin(t, op, scopeType, users)
      PROVE TypeOK'
  <2> DEFINE applied == [u \in Subjects |-> Applying(u, exact[u], defaults[u], op, scopeType)]
             next == [op |-> op, scopeType |-> scopeType, stage |-> "exact", left |-> users,
                      found |-> [u \in Subjects |-> None], applied |-> applied]
  <2>1. ASSUME NEW u \in Subjects PROVE Applying(u, exact[u], defaults[u], op, scopeType) \subseteq Levels
    BY ScopeValues DEF TypeOK
  <2>2. applied \in [Subjects -> SUBSET Levels]
    BY <2>1
  <2> HIDE DEF applied
  <2>3. next \in Resolutions
    BY <2>2 DEF Resolutions
  <2>4. QED
    BY <1>1, <1>3, <2>3 DEF Begin, applied
<1>4. ASSUME NEW t \in Tasks, ReadExact(t) PROVE TypeOK'
  <2>1. PICK found \in [Subjects -> Levels \cup {None}] : Finds(t, "default", found)
    BY <1>4 DEF ReadExact
  <2>2. [task[t] EXCEPT !.stage = "default", !.found = found] \in Resolutions
    BY <1>2, <1>4, <2>1, FoundTypes DEF ReadExact, At
  <2>3. QED
    BY <1>1, <1>4, <2>1, <2>2 DEF ReadExact, Finds, TypeOK
<1>5. ASSUME NEW t \in Tasks, ReadDefaults(t) PROVE TypeOK'
  <2> DEFINE found == [u \in Subjects |->
               IF task[t].found[u] # None THEN task[t].found[u] ELSE GlobalDefault(defaults[u], task[t].op)]
  <2>1. task[t] \in Resolutions
    BY <1>2, <1>5 DEF ReadDefaults, At
  <2>2. found \in [Subjects -> Levels \cup {None}]
    BY <2>1 DEF GlobalDefault, TypeOK, Resolutions
  <2> HIDE DEF found
  <2>3. [task[t] EXCEPT !.stage = "answer", !.found = found] \in Resolutions
    BY <2>1, <2>2, FoundTypes
  <2>4. QED
    BY <1>1, <1>5, <2>3 DEF ReadDefaults, Finds, found, TypeOK
<1>6. ASSUME NEW t \in Tasks, At(t, "answer"), NEW u \in Subjects
      PROVE Answered(t, u) \in {Idle} \cup Resolutions
  BY <1>2, <1>6, LeftTypes DEF At, Answered, Resolutions
<1>7. ASSUME NEW t \in Tasks, NEW u \in Subjects, Answer(t, u) PROVE TypeOK'
  BY <1>1, <1>6, <1>7 DEF Answer
<1>8. ASSUME NEW t \in Tasks, EndTask(t) PROVE TypeOK'
  BY <1>1, <1>8 DEF EndTask
<1>9. ASSUME NEW u \in Subjects, createGlobalDefaultAnonymous(u)
      PROVE defaults' \in [Subjects -> Seq(Levels)]
  BY <1>9, LevelsAssumption DEF createGlobalDefaultAnonymous, TypeOK
<1>10. ASSUME exact' \in [Subjects -> Levels \cup {None}], defaults' \in [Subjects -> Seq(Levels)],
              NEW r \in {Idle} \cup Resolutions
       PROVE Noted(r) \in {Idle} \cup Resolutions
  BY <1>10, NotedTypes, NotedIdle DEF TypeOK
<1>11. ASSUME NEW t \in Tasks, NEW u \in Subjects, CreateDefault(t, u) PROVE TypeOK'
  <2>1. exact' \in [Subjects -> Levels \cup {None}] /\ defaults' \in [Subjects -> Seq(Levels)]
    BY <1>9, <1>11 DEF CreateDefault, TypeOK
  <2>2. ASSUME NEW x \in Tasks
        PROVE (IF x = t THEN Answered(t, u) ELSE task[x]) \in {Idle} \cup Resolutions
    BY <1>6, <1>11 DEF CreateDefault, TypeOK
  <2>3. task' \in [Tasks -> {Idle} \cup Resolutions]
    BY <1>10, <1>11, <2>1, <2>2 DEF CreateDefault
  <2>4. QED
    BY <1>11, <2>1, <2>3 DEF TypeOK, CreateDefault
<1>12. ASSUME NEW u \in Subjects, Join(u) PROVE TypeOK'
  <2>1. exact' \in [Subjects -> Levels \cup {None}]
    BY <1>12, LevelsAssumption DEF Join, TypeOK, OrAnonymous
  <2>2. defaults' \in [Subjects -> Seq(Levels)]
    BY <1>9, <1>12 DEF Join, TypeOK
  <2>3. task' \in [Tasks -> {Idle} \cup Resolutions]
    BY <1>10, <1>12, <2>1, <2>2 DEF Join, TypeOK
  <2>4. QED
    BY <1>12, <2>1, <2>2, <2>3 DEF TypeOK, Join
<1>13. CASE UNCHANGED vars
  BY <1>13 DEF TypeOK, vars, rowVars
<1>14. ASSUME NEW u \in Subjects PROVE {u} \in SUBSET Subjects
  OBVIOUS
<1>15. QED
  BY <1>14, <1>3, <1>4, <1>5, <1>7, <1>8, <1>11, <1>12, <1>13 DEF Next, ScopeTypes

LEMMA TypeCorrectInit == Init => TypeOK
<1>1. {<<>>} \cup {<<level>> : level \in Levels} \subseteq Seq(Levels)
  <2>1. <<>> \in Seq(Levels)
    OBVIOUS
  <2>2. ASSUME NEW level \in Levels PROVE <<level>> \in Seq(Levels)
    OBVIOUS
  <2>3. QED BY <2>1, <2>2
<1>2. QED BY <1>1 DEF Init, TypeOK

\* Scopes and resolutions keep their types.
THEOREM TypeCorrect == Spec => []TypeOK
BY TypeCorrectInit, NextTypeOK, PTL DEF Spec

-----------------------------------------------------------------------------
(* Duplicates and answers *)

AllAnonymous(levels) == \A i \in DOMAIN levels : levels[i] = "ANONYMOUS"

\* What a resolution may rely on: what applies now it has noted; the scope it has found
\* or is about to find is one that applied; and it found none only where no default has
\* been chosen, so the one it creates joins anonymous rows at most.
Sound(r, level, levels, u) ==
  /\ Applying(u, level, levels, r.op, r.scopeType) \subseteq r.applied[u]
  /\ r.stage = "default" =>
       OrAnonymous(IF r.found[u] # None THEN r.found[u] ELSE GlobalDefault(levels, r.op)) \in r.applied[u]
  /\ r.stage = "answer" =>
       /\ OrAnonymous(r.found[u]) \in r.applied[u]
       /\ r.found[u] = None => AllAnonymous(levels)

AllSound == \A t \in Tasks : task[t] # Idle => \A u \in Subjects : Sound(task[t], exact[u], defaults[u], u)

IInv == TypeOK /\ ChosenDefaultIsAlone /\ AllSound

\* An anonymous row after anonymous rows changes no answer.
LEMMA AppendAnonymous ==
  ASSUME NEW levels \in Seq(Levels), AllAnonymous(levels), NEW op
  PROVE  LET new == Append(levels, "ANONYMOUS")
         IN  /\ AllAnonymous(new)
             /\ OrAnonymous(GlobalDefault(levels, op)) = "ANONYMOUS"
             /\ OrAnonymous(GlobalDefault(new, op)) = "ANONYMOUS"
<1> DEFINE new == Append(levels, "ANONYMOUS")
<1>1. /\ Len(new) = Len(levels) + 1 /\ Len(levels) \in Nat /\ DOMAIN new = 1 .. Len(levels) + 1
      /\ new \in Seq(Levels) /\ DOMAIN levels = 1 .. Len(levels)
  BY LevelsAssumption
<1>2. ASSUME NEW i \in DOMAIN new PROVE new[i] = "ANONYMOUS"
  BY <1>1 DEF AllAnonymous
<1>3. ASSUME NEW s \in Seq(Levels), AllAnonymous(s)
      PROVE  OrAnonymous(GlobalDefault(s, op)) = "ANONYMOUS"
  <2>1. CASE s = <<>>
    BY <2>1 DEF GlobalDefault, OrAnonymous
  <2>2. CASE s # <<>>
    <3>1. Len(s) \in Nat \ {0} /\ DOMAIN s = 1 .. Len(s)
      BY <2>2
    <3>2. s[1] = "ANONYMOUS" /\ s[Len(s)] = "ANONYMOUS"
      BY <1>3, <3>1 DEF AllAnonymous
    <3>3. QED
      BY <2>2, <3>2 DEF GlobalDefault, OrAnonymous
  <2>3. QED BY <2>1, <2>2
<1>4. AllAnonymous(new)
  BY <1>2 DEF AllAnonymous
<1> HIDE DEF new
<1>5. QED
  BY <1>1, <1>3, <1>4 DEF new

\* The rows of a subject after a step, if they are not as before.
Grows(u) == AllAnonymous(defaults[u]) /\ defaults'[u] = Append(defaults[u], "ANONYMOUS")

LEMMA Growth ==
  ASSUME IInv, NEW v \in Subjects, createGlobalDefaultAnonymous(v), AllAnonymous(defaults[v])
  PROVE  \A u \in Subjects : defaults'[u] = defaults[u] \/ Grows(u)
BY DEF IInv, TypeOK, createGlobalDefaultAnonymous, Grows

\* Rows that grow leave chosen defaults alone.
LEMMA GrowthKeepsChosen ==
  ASSUME IInv, TypeOK', \A u \in Subjects : defaults'[u] = defaults[u] \/ Grows(u)
  PROVE  ChosenDefaultIsAlone'
<1> SUFFICES ASSUME NEW u \in Subjects, NEW i \in DOMAIN defaults'[u], defaults'[u][i] # "ANONYMOUS"
             PROVE  Len(defaults'[u]) = 1
  BY DEF ChosenDefaultIsAlone
<1>1. CASE defaults'[u] = defaults[u]
  BY <1>1 DEF IInv, ChosenDefaultIsAlone
<1>2. CASE Grows(u)
  BY <1>2, AppendAnonymous DEF Grows, IInv, TypeOK, AllAnonymous
<1>3. QED BY <1>1, <1>2

\* A resolution that notes such a step stays sound.
LEMMA NotedSound ==
  ASSUME IInv, TypeOK', \A u \in Subjects : defaults'[u] = defaults[u] \/ Grows(u),
         NEW r \in Resolutions, NEW u \in Subjects, Sound(r, exact[u], defaults[u], u)
  PROVE  Sound(Noted(r), exact'[u], defaults'[u], u)
<1> DEFINE n == Noted(r)
<1>1. /\ n.op = r.op /\ n.scopeType = r.scopeType /\ n.stage = r.stage /\ n.found = r.found
      /\ n.applied[u] = r.applied[u] \cup Applying(u, exact'[u], defaults'[u], r.op, r.scopeType)
  BY NotedTypes DEF IInv, TypeOK
<1>2. \/ defaults'[u] = defaults[u]
      \/ /\ AllAnonymous(defaults'[u])
         /\ OrAnonymous(GlobalDefault(defaults'[u], r.op)) = OrAnonymous(GlobalDefault(defaults[u], r.op))
  BY AppendAnonymous DEF Grows, IInv, TypeOK
<1> HIDE DEF n
<1>3. Applying(u, exact'[u], defaults'[u], n.op, n.scopeType) \subseteq n.applied[u]
  BY <1>1
<1>4. n.stage = "default" =>
        OrAnonymous(IF n.found[u] # None THEN n.found[u] ELSE GlobalDefault(defaults'[u],
            n.op)) \in n.applied[u]
  BY <1>1, <1>2 DEF Sound
<1>5. n.stage = "answer" =>
        /\ OrAnonymous(n.found[u]) \in n.applied[u]
        /\ n.found[u] = None => AllAnonymous(defaults'[u])
  BY <1>1, <1>2 DEF Sound
<1>6. QED
  BY <1>3, <1>4, <1>5 DEF Sound, n

LEMMA NextIInv == IInv /\ [Next]_vars => IInv'
<1> SUFFICES ASSUME IInv, [Next]_vars PROVE IInv'
  OBVIOUS
<1>1. TypeOK /\ TypeOK'
  BY NextTypeOK DEF IInv
<1>2. ASSUME NEW t \in Tasks, NEW next, task' = [task EXCEPT ![t] = next], UNCHANGED rowVars,
             next # Idle => \A u \in Subjects : Sound(next, exact[u], defaults[u], u)
      PROVE IInv'
  <2>1. ChosenDefaultIsAlone'
    BY <1>2 DEF IInv, ChosenDefaultIsAlone, rowVars
  <2>2. ASSUME NEW x \in Tasks, task'[x] # Idle, NEW u \in Subjects
        PROVE Sound(task'[x], exact[u], defaults[u], u)
    BY <1>1, <1>2, <2>2 DEF IInv, AllSound, TypeOK
  <2>3. ASSUME NEW x \in Tasks, task'[x] # Idle, NEW u \in Subjects
        PROVE Sound(task'[x], exact'[u], defaults'[u], u)
    BY <1>2, <2>2, <2>3 DEF rowVars
  <2>4. AllSound'
    BY <1>2, <2>3 DEF AllSound, Sound, Applying, ExactScopes, rowVars
  <2>5. QED BY <1>1, <2>1, <2>4 DEF IInv
<1>3. ASSUME NEW t \in Tasks, task[t] # Idle
      PROVE task[t] \in Resolutions /\ \A u \in Subjects : Sound(task[t], exact[u], defaults[u], u)
  BY <1>1, <1>3 DEF TypeOK, IInv, AllSound
<1>4. ASSUME NEW t \in Tasks, NEW op \in {"single", "bulk"}, NEW scopeType \in ScopeTypes,
             NEW users \in SUBSET Subjects, Begin(t, op, scopeType, users)
      PROVE IInv'
  BY <1>2, <1>4 DEF Begin, Sound
<1>5. ASSUME NEW t \in Tasks, ReadExact(t) PROVE IInv'
  <2> DEFINE r == task[t]
  <2>1. r \in Resolutions /\ \A u \in Subjects : Sound(r, exact[u], defaults[u], u)
    BY <1>3, <1>5 DEF ReadExact, At
  <2>2. PICK found \in [Subjects -> Levels \cup {None}] :
          /\ \A u \in Subjects : found[u] \in ExactScopes(u, exact[u], defaults[u], r.scopeType)
          /\ Finds(t, "default", found)
    BY <1>5 DEF ReadExact
  <2> DEFINE next == [r EXCEPT !.stage = "default", !.found = found]
  <2>3. task' = [task EXCEPT ![t] = next] /\ UNCHANGED rowVars
    BY <1>1, <1>5, <2>2 DEF ReadExact, Finds, TypeOK
  <2> HIDE DEF r
  <2>4. /\ next.stage = "default" /\ next.found = found /\ next.applied = r.applied
        /\ next.op = r.op /\ next.scopeType = r.scopeType
    BY <2>1, <2>2 DEF Resolutions
  <2> HIDE DEF next
  <2>5. ASSUME NEW u \in Subjects PROVE Sound(next, exact[u], defaults[u], u)
    BY <2>1, <2>2, <2>4 DEF Sound, Applying
  <2>6. QED BY <1>2, <2>3, <2>5
<1>6. ASSUME NEW t \in Tasks, ReadDefaults(t) PROVE IInv'
  <2> DEFINE r == task[t]
             found == [u \in Subjects |-> IF r.found[u] # None THEN r.found[u] ELSE GlobalDefault(defaults[u], r.op)]
             next == [r EXCEPT !.stage = "answer", !.found = found]
  <2>1. r \in Resolutions /\ r.stage = "default" /\ \A u \in Subjects : Sound(r, exact[u], defaults[u], u)
    BY <1>3, <1>6 DEF ReadDefaults, At
  <2>2. /\ found \in [Subjects -> Levels \cup {None}]
        /\ \A u \in Subjects : found[u] = IF r.found[u] # None THEN r.found[u] ELSE GlobalDefault(defaults[u], r.op)
    BY <1>1, <2>1 DEF GlobalDefault, TypeOK, Resolutions
  <2>3. task' = [task EXCEPT ![t] = next] /\ UNCHANGED rowVars
    BY <1>1, <1>6 DEF ReadDefaults, Finds, TypeOK
  <2> HIDE DEF r, found
  <2>4. /\ next.stage = "answer" /\ next.found = found /\ next.applied = r.applied
        /\ next.op = r.op /\ next.scopeType = r.scopeType
    BY <2>1, <2>2 DEF Resolutions
  <2> HIDE DEF next
  <2>5. ASSUME NEW u \in Subjects PROVE Sound(next, exact[u], defaults[u], u)
    <3>1. found[u] = None => AllAnonymous(defaults[u])
      <4>1. ASSUME defaults[u] # <<>>, NEW op PROVE GlobalDefault(defaults[u], op) \in Levels
        BY <1>1, <4>1 DEF GlobalDefault, TypeOK
      <4>2. defaults[u] = <<>> => AllAnonymous(defaults[u])
        BY DEF AllAnonymous
      <4>3. QED BY <2>2, <4>1, <4>2, LevelsAssumption
    <3>2. QED
      BY <2>1, <2>2, <2>4, <3>1 DEF Sound
  <2>6. QED BY <1>2, <2>3, <2>5
<1>7. ASSUME NEW t \in Tasks, At(t, "answer"), NEW v \in Subjects,
             Answered(t, v) # Idle
      PROVE /\ Answered(t, v) \in Resolutions
            /\ \A u \in Subjects : Sound(Answered(t, v), exact[u], defaults[u], u)
  <2> DEFINE r == task[t]
             next == [r EXCEPT !.left = @ \ {v}]
  <2>1. r \in Resolutions /\ \A u \in Subjects : Sound(r, exact[u], defaults[u], u)
    BY <1>3, <1>7 DEF At
  <2>2. r.left \ {v} \in SUBSET Subjects
    BY <2>1 DEF Resolutions
  <2>3. /\ next \in Resolutions /\ next.stage = r.stage /\ next.found = r.found
        /\ next.applied = r.applied /\ next.op = r.op /\ next.scopeType = r.scopeType
    BY <2>1, <2>2, LeftTypes DEF Resolutions
  <2>4. Answered(t, v) = next
    BY <1>7 DEF Answered
  <2> HIDE DEF next, r
  <2>5. QED
    BY <2>1, <2>3, <2>4 DEF Sound
<1>8. ASSUME NEW t \in Tasks, NEW v \in Subjects, Answer(t, v) PROVE IInv'
  BY <1>2, <1>7, <1>8 DEF Answer
<1>9. ASSUME NEW t \in Tasks, EndTask(t) PROVE IInv'
  BY <1>2, <1>9 DEF EndTask
<1>10. ASSUME \A u \in Subjects : defaults'[u] = defaults[u] \/ Grows(u),
              NEW before \in [Tasks -> {Idle} \cup Resolutions],
              \A t \in Tasks : before[t] # Idle => \A u \in Subjects : Sound(before[t], exact[u],
                  defaults[u], u),
              task' = [t \in Tasks |-> Noted(before[t])], UNCHANGED chatScopes
       PROVE IInv'
  <2>1. ASSUME NEW t \in Tasks, task'[t] # Idle, NEW u \in Subjects
        PROVE Sound(task'[t], exact'[u], defaults'[u], u)
    <3>1. task'[t] = Noted(before[t]) /\ before[t] \in Resolutions
      BY <1>10, <2>1, NotedIdle
    <3>2. Sound(before[t], exact[u], defaults[u], u)
      BY <1>10, <3>1, NotIdle
    <3>3. Sound(Noted(before[t]), exact'[u], defaults'[u], u)
      BY <1>1, <1>10, <3>1, <3>2, NotedSound
    <3>4. QED BY <3>1, <3>3
  <2>2. AllSound'
    BY <1>10, <2>1 DEF AllSound, Sound, Applying, ExactScopes
  <2>3. QED
    BY <1>1, <1>10, <2>2, GrowthKeepsChosen DEF IInv
<1>11. ASSUME NEW t \in Tasks, NEW v \in Subjects, CreateDefault(t, v) PROVE IInv'
  <2> DEFINE before == [x \in Tasks |-> IF x = t THEN Answered(t, v) ELSE task[x]]
  <2>1. AllAnonymous(defaults[v])
    BY <1>3, <1>11 DEF CreateDefault, At, Sound
  <2>2. \A u \in Subjects : defaults'[u] = defaults[u] \/ Grows(u)
    BY <1>11, <2>1, Growth DEF CreateDefault
  <2>3. ASSUME NEW x \in Tasks, before[x] # Idle
        PROVE before[x] \in Resolutions /\ \A u \in Subjects : Sound(before[x], exact[u], defaults[u], u)
    <3>1. CASE x = t
      BY <1>7, <1>11, <2>3, <3>1 DEF CreateDefault
    <3>2. CASE x # t
      BY <1>3, <2>3, <3>2
    <3>3. QED BY <3>1, <3>2
  <2>4. before \in [Tasks -> {Idle} \cup Resolutions]
    BY <2>3
  <2>5. task' = [x \in Tasks |-> Noted(before[x])]
    BY <1>11 DEF CreateDefault
  <2>7. UNCHANGED chatScopes
    BY <1>11 DEF CreateDefault
  <2> HIDE DEF before
  <2>6. QED BY <1>10, <2>2, <2>3, <2>4, <2>5, <2>7
<1>12. ASSUME NEW v \in Subjects, Join(v) PROVE IInv'
  <2>1. \A u \in Subjects : defaults'[u] = defaults[u] \/ Grows(u)
    <3>1. CASE defaults[v] = <<>>
      BY <1>12, <3>1, Growth DEF Join, AllAnonymous
    <3>2. CASE defaults[v] # <<>>
      BY <1>12, <3>2 DEF Join
    <3>3. QED BY <3>1, <3>2
  <2>2. task \in [Tasks -> {Idle} \cup Resolutions]
    BY <1>1 DEF TypeOK
  <2>3. task' = [t \in Tasks |-> Noted(task[t])] /\ UNCHANGED chatScopes
    BY <1>12 DEF Join
  <2>4. QED BY <1>3, <1>10, <2>1, <2>2, <2>3
<1>13. CASE UNCHANGED vars
  <2>1. ChosenDefaultIsAlone'
    BY <1>13 DEF IInv, ChosenDefaultIsAlone, vars, rowVars
  <2>2. ASSUME NEW x \in Tasks, task'[x] # Idle, NEW u \in Subjects
        PROVE Sound(task'[x], exact'[u], defaults'[u], u)
    BY <1>3, <1>13, <2>2 DEF vars, rowVars
  <2>3. AllSound'
    BY <1>13, <2>2 DEF AllSound, Sound, Applying, ExactScopes, vars, rowVars
  <2>4. QED BY <1>1, <2>1, <2>3 DEF IInv
<1>14. ASSUME NEW u \in Subjects PROVE {u} \in SUBSET Subjects
  OBVIOUS
<1>15. QED
  BY <1>14, <1>4, <1>5, <1>6, <1>8, <1>9, <1>11, <1>12, <1>13 DEF IInv, Next, ScopeTypes

LEMMA AlwaysIInv == Spec => []IInv
<1>1. ASSUME Init PROVE IInv
  <2>1. TypeOK
    BY <1>1, TypeCorrectInit
  <2>2. ASSUME NEW u \in Subjects PROVE defaults[u] = <<>> \/ \E level \in Levels : defaults[u] = <<level>>
    BY <1>1 DEF Init
  <2>3. ASSUME NEW u \in Subjects, NEW i \in DOMAIN defaults[u] PROVE Len(defaults[u]) = 1
    <3>1. defaults[u] # <<>>
      BY <2>3
    <3>2. PICK level \in Levels : defaults[u] = <<level>>
      BY <2>2, <3>1
    <3>3. QED BY <3>2
  <2>4. AllSound
    BY <1>1 DEF Init, AllSound
  <2>5. QED BY <2>1, <2>3, <2>4 DEF IInv, ChosenDefaultIsAlone
<1>2. QED BY <1>1, NextIInv, PTL DEF Spec

\* A default somebody has chosen is never joined by another row.
THEOREM ChosenDefault == Spec => []ChosenDefaultIsAlone
<1>1. IInv => ChosenDefaultIsAlone
  BY DEF IInv
<1>2. QED BY <1>1, AlwaysIInv, PTL

\* Every answer is a level that applied at some moment of its resolution.
THEOREM CurrentAnswers == Spec => []AnswersWereCurrent
<1>1. ASSUME IInv PROVE AnswersWereCurrent
  <2> SUFFICES ASSUME NEW t \in Tasks, At(t, "answer"), NEW u \in task[t].left
               PROVE  Result(t, u) \in task[t].applied[u]
    BY DEF AnswersWereCurrent
  <2>1. u \in Subjects
    BY <1>1 DEF IInv, TypeOK, At, Resolutions
  <2>2. Sound(task[t], exact[u], defaults[u], u)
    BY <1>1, <2>1 DEF IInv, AllSound, At
  <2>3. QED BY <2>2 DEF Sound, At, Result
<1>2. QED BY <1>1, AlwaysIInv, PTL

-----------------------------------------------------------------------------
(* How many duplicates there can be *)

\* The resolutions that are going to create a default for u.
Creators(u) == {t \in Tasks : At(t, "answer") /\ u \in task[t].left /\ task[t].found[u] = None}

BoundInv ==
  /\ TypeOK
  /\ \A u \in Subjects :
       defaults[u] # <<>> => Len(defaults[u]) + Cardinality(Creators(u)) <= Cardinality(Tasks) + 1

LEMMA CreatorsFinite ==
  ASSUME NEW u
  PROVE  /\ IsFiniteSet(Creators(u)) /\ Cardinality(Creators(u)) \in Nat
         /\ Cardinality(Creators(u)) <= Cardinality(Tasks) /\ Cardinality(Tasks) \in Nat
<1>1. Creators(u) \subseteq Tasks
  BY DEF Creators
<1>2. QED BY <1>1, TasksAssumption, FS_Subset, FS_CardinalityType

\* Nobody becomes a creator once there is a default.
LEMMA NoNewCreator ==
  ASSUME TypeOK, TypeOK', [Next]_vars, NEW u \in Subjects, defaults[u] # <<>>
  PROVE  Creators(u)' \subseteq Creators(u)
<1> SUFFICES ASSUME NEW x \in Creators(u)' PROVE x \in Creators(u)
  OBVIOUS
<1>1. x \in Tasks /\ task'[x] # Idle /\ task'[x].stage = "answer" /\ u \in task'[x].left
    /\ task'[x].found[u] = None
  BY DEF Creators, At
<1>2. ASSUME NEW r \in {Idle} \cup Resolutions, r = task[x] \/ \E v \in Subjects : At(x, "answer")
    /\ r = Answered(x, v),
             r # Idle, r.stage = "answer", u \in r.left, r.found[u] = None
      PROVE x \in Creators(u)
  <2>1. CASE r = task[x]
    BY <1>1, <1>2, <2>1 DEF Creators, At
  <2>2. ASSUME NEW v \in Subjects, At(x, "answer"), r = Answered(x, v) PROVE x \in Creators(u)
    <3>1. task[x] \in Resolutions
      BY <1>1, <2>2 DEF TypeOK, At
    <3>2. r = [task[x] EXCEPT !.left = @ \ {v}]
      BY <1>2, <2>2 DEF Answered
    <3>3. r.left \subseteq task[x].left /\ r.found = task[x].found
      BY <3>1, <3>2 DEF Resolutions
    <3>4. QED BY <1>1, <1>2, <2>2, <3>3 DEF Creators
  <2>3. QED BY <1>2, <2>1, <2>2
<1>3. ASSUME NEW t \in Tasks, NEW next, next = Idle \/ next.stage # "answer",
    task' = [task EXCEPT ![t] = next]
      PROVE x \in Creators(u)
  <2>1. x # t
    BY <1>1, <1>3 DEF TypeOK
  <2>2. task[x] = task'[x]
    BY <1>1, <1>3, <2>1 DEF TypeOK
  <2>3. QED BY <1>1, <1>2, <2>2 DEF TypeOK
<1>4. ASSUME NEW t \in Tasks, NEW op \in {"single", "bulk"}, NEW scopeType \in ScopeTypes,
             NEW users \in SUBSET Subjects, Begin(t, op, scopeType, users)
      PROVE x \in Creators(u)
  BY <1>3, <1>4 DEF Begin
<1>5. ASSUME NEW t \in Tasks, ReadExact(t) PROVE x \in Creators(u)
  <2>1. task[t] \in Resolutions
    BY <1>5 DEF ReadExact, At, TypeOK
  <2>2. PICK f : task' = [task EXCEPT ![t] = [@ EXCEPT !.stage = "default", !.found = f]]
    BY <1>5 DEF ReadExact, Finds
  <2>3. task'[t].stage = "default"
    BY <2>1, <2>2 DEF TypeOK, Resolutions
  <2>4. x # t /\ task' = [task EXCEPT ![t] = task'[t]]
    BY <1>1, <2>2, <2>3 DEF TypeOK
  <2>5. QED BY <1>3, <2>3, <2>4
<1>6. ASSUME NEW t \in Tasks, ReadDefaults(t) PROVE x \in Creators(u)
  <2> DEFINE found == [v \in Subjects |->
               IF task[t].found[v] # None THEN task[t].found[v] ELSE GlobalDefault(defaults[v], task[t].op)]
  <2>1. task[t] \in Resolutions
    BY <1>6 DEF ReadDefaults, At, TypeOK
  <2>2. task' = [task EXCEPT ![t] = [@ EXCEPT !.stage = "answer", !.found = found]]
    BY <1>6 DEF ReadDefaults, Finds
  <2>3. GlobalDefault(defaults[u], task[t].op) \in Levels
    BY DEF GlobalDefault, TypeOK
  <2>4. found[u] # None
    BY <2>3, LevelsAssumption
  <2> HIDE DEF found
  <2>5. task'[t].found = found
    BY <2>1, <2>2 DEF TypeOK, Resolutions
  <2>6. x # t
    BY <1>1, <2>4, <2>5
  <2>7. task[x] = task'[x]
    BY <1>1, <2>2, <2>6 DEF TypeOK
  <2>8. QED BY <1>1, <1>2, <2>7 DEF TypeOK
<1>7. ASSUME NEW t \in Tasks, NEW v \in Subjects, Answer(t, v) PROVE x \in Creators(u)
  <2>1. task'[x] = IF x = t THEN Answered(t, v) ELSE task[x]
    BY <1>1, <1>7 DEF Answer, TypeOK
  <2>2. task'[x] \in {Idle} \cup Resolutions
    BY <1>1 DEF TypeOK
  <2>3. QED BY <1>1, <1>2, <1>7, <2>1, <2>2 DEF Answer
<1>8. ASSUME NEW t \in Tasks, EndTask(t) PROVE x \in Creators(u)
  BY <1>3, <1>8 DEF EndTask
<1>9. ASSUME NEW r \in {Idle} \cup Resolutions, task'[x] = Noted(r)
      PROVE r # Idle /\ r.stage = "answer" /\ u \in r.left /\ r.found[u] = None
  BY <1>1, <1>9, NotedTypes, NotedIdle DEF TypeOK
<1>10. ASSUME NEW t \in Tasks, NEW v \in Subjects, CreateDefault(t, v) PROVE x \in Creators(u)
  <2> DEFINE r == IF x = t THEN Answered(t, v) ELSE task[x]
  <2>1. task'[x] = Noted(r)
    BY <1>1, <1>10 DEF CreateDefault
  <2>2. r \in {Idle} \cup Resolutions
    BY <1>1, <1>10, LeftTypes DEF CreateDefault, At, Answered, TypeOK, Resolutions
  <2>3. r = task[x] \/ \E w \in Subjects : At(x, "answer") /\ r = Answered(x, w)
    BY <1>10 DEF CreateDefault
  <2> HIDE DEF r
  <2>4. QED BY <1>2, <1>9, <2>1, <2>2, <2>3
<1>11. ASSUME NEW v \in Subjects, Join(v) PROVE x \in Creators(u)
  <2>1. task'[x] = Noted(task[x]) /\ task[x] \in {Idle} \cup Resolutions
    BY <1>1, <1>11 DEF Join, TypeOK
  <2>2. QED BY <1>2, <1>9, <2>1
<1>12. CASE UNCHANGED vars
  BY <1>1, <1>2, <1>12 DEF vars, TypeOK
<1>13. ASSUME NEW v \in Subjects PROVE {v} \in SUBSET Subjects
  OBVIOUS
<1>14. QED
  BY <1>13, <1>4, <1>5, <1>6, <1>7, <1>8, <1>10, <1>11, <1>12 DEF Next, ScopeTypes

\* Who has created a default is no longer about to.
LEMMA CreatorLeaves ==
  ASSUME TypeOK, TypeOK', NEW t \in Tasks, NEW u \in Subjects, CreateDefault(t, u)
  PROVE  t \in Creators(u) /\ t \notin Creators(u)'
<1>1. t \in Creators(u) /\ task[t] \in Resolutions
  BY DEF CreateDefault, Creators, At, TypeOK
<1>2. task'[t] = Noted(Answered(t, u))
  BY DEF CreateDefault
<1>3. CASE task[t].left = {u}
  BY <1>1, <1>2, <1>3, NotedIdle DEF Answered, Creators, At
<1>4. CASE task[t].left # {u}
  <2>1. Answered(t, u) = [task[t] EXCEPT !.left = @ \ {u}]
    BY <1>4 DEF Answered
  <2>2. Answered(t, u) \in Resolutions /\ u \notin Answered(t, u).left
    BY <1>1, <2>1 DEF Resolutions
  <2>3. u \notin task'[t].left
    BY <1>2, <2>2, NotedTypes DEF TypeOK
  <2>4. QED BY <1>1, <2>3 DEF Creators
<1>5. QED BY <1>1, <1>3, <1>4

\* Everybody may have missed the first default, and nobody misses it later; a join adds
\* one only where there is none.
LEMMA NextBound == BoundInv /\ [Next]_vars => BoundInv'
<1> SUFFICES ASSUME BoundInv, [Next]_vars PROVE BoundInv'
  OBVIOUS
<1>1. TypeOK /\ TypeOK'
  BY NextTypeOK DEF BoundInv
<1> DEFINE n == Cardinality(Tasks)
<1>2. ASSUME NEW u \in Subjects
      PROVE /\ Cardinality(Creators(u)) \in Nat /\ Cardinality(Creators(u)) <= n /\ n \in Nat
            /\ Cardinality(Creators(u)') \in Nat /\ Cardinality(Creators(u)') <= n
  <2>1. Creators(u) \subseteq Tasks /\ Creators(u)' \subseteq Tasks
    BY DEF Creators
  <2>2. QED BY <2>1, TasksAssumption, FS_Subset, FS_CardinalityType
<1>3. ASSUME NEW u \in Subjects, defaults[u] # <<>>
      PROVE  Cardinality(Creators(u)') <= Cardinality(Creators(u))
  BY <1>1, <1>3, NoNewCreator, CreatorsFinite, FS_Subset
<1>4. ASSUME NEW u \in Subjects, defaults'[u] # <<>>
      PROVE  Len(defaults'[u]) + Cardinality(Creators(u)') <= n + 1
  <2>1. CASE defaults'[u] = defaults[u]
    BY <1>1, <1>2, <1>3, <1>4, <2>1 DEF BoundInv, TypeOK
  <2>2. CASE defaults[u] = <<>> /\ defaults'[u] = Append(defaults[u], "ANONYMOUS")
    BY <1>2, <2>2
  <2>3. ASSUME NEW t \in Tasks, CreateDefault(t, u), defaults[u] # <<>>
        PROVE  Len(defaults'[u]) + Cardinality(Creators(u)') <= n + 1
    <3>1. Len(defaults'[u]) = Len(defaults[u]) + 1 /\ Len(defaults[u]) \in Nat
      BY <1>1, <2>3, LevelsAssumption DEF CreateDefault, createGlobalDefaultAnonymous, TypeOK
    <3>2. Creators(u)' \subseteq Creators(u) \ {t} /\ t \in Creators(u)
      BY <1>1, <2>3, NoNewCreator, CreatorLeaves
    <3>3. Cardinality(Creators(u) \ {t}) = Cardinality(Creators(u)) - 1 /\ IsFiniteSet(Creators(u) \ {t})
      BY <3>2, CreatorsFinite, FS_RemoveElement
    <3>4. Cardinality(Creators(u)') <= Cardinality(Creators(u)) - 1
      BY <3>2, <3>3, FS_Subset
    <3>5. Len(defaults[u]) + Cardinality(Creators(u)) <= n + 1
      BY <2>3 DEF BoundInv
    <3>6. QED BY <1>2, <3>1, <3>4, <3>5
  <2>4. \/ defaults'[u] = defaults[u]
        \/ defaults[u] = <<>> /\ defaults'[u] = Append(defaults[u], "ANONYMOUS")
        \/ \E t \in Tasks : CreateDefault(t, u)
    <3>1. ASSUME NEW v \in Subjects, createGlobalDefaultAnonymous(v)
          PROVE  defaults'[u] = IF v = u THEN Append(defaults[u], "ANONYMOUS") ELSE defaults[u]
      BY <1>1, <3>1 DEF createGlobalDefaultAnonymous, TypeOK
    <3>2. ASSUME NEW t \in Tasks, NEW v \in Subjects, CreateDefault(t, v)
          PROVE  defaults'[u] = defaults[u] \/ \E x \in Tasks : CreateDefault(x, u)
      BY <3>1, <3>2 DEF CreateDefault
    <3>3. ASSUME NEW v \in Subjects, Join(v)
          PROVE  defaults'[u] = defaults[u] \/ (defaults[u] = <<>> /\ defaults'[u] = Append(defaults[u],
              "ANONYMOUS"))
      BY <3>1, <3>3 DEF Join
    <3>4. QED
      BY <3>2, <3>3 DEF Next, vars, rowVars, Begin, ReadExact, ReadDefaults, EndTask, Answer
  <2>5. CASE defaults[u] = <<>> /\ \E t \in Tasks : CreateDefault(t, u)
    <3>1. defaults'[u] = Append(defaults[u], "ANONYMOUS")
      BY <1>1, <2>5 DEF CreateDefault, createGlobalDefaultAnonymous, TypeOK
    <3>2. QED BY <2>2, <2>5, <3>1
  <2>6. QED BY <2>1, <2>2, <2>3, <2>4, <2>5
<1>5. QED BY <1>1, <1>4 DEF BoundInv

\* With n concurrent resolutions nobody gets more than n + 1 defaults.
THEOREM DuplicatesLimit == Spec => []DuplicatesBounded
<1>1. ASSUME Init PROVE BoundInv
  <2>1. TypeOK
    BY <1>1, TypeCorrectInit
  <2>2. ASSUME NEW u \in Subjects PROVE Len(defaults[u]) <= 1 /\ Len(defaults[u]) \in Nat /\ Creators(u) = {}
    <3>1. defaults[u] = <<>> \/ \E level \in Levels : defaults[u] = <<level>>
      BY <1>1 DEF Init
    <3>2. CASE defaults[u] = <<>>
      BY <1>1, <3>2 DEF Init, Creators, At
    <3>3. ASSUME NEW level \in Levels, defaults[u] = <<level>>
          PROVE Len(defaults[u]) <= 1 /\ Len(defaults[u]) \in Nat
      BY <3>3
    <3>4. QED BY <1>1, <3>1, <3>2, <3>3 DEF Init, Creators, At
  <2>3. Cardinality({}) = 0 /\ Cardinality(Tasks) \in Nat
    BY FS_EmptySet, TasksAssumption, FS_CardinalityType
  <2>4. ASSUME NEW u \in Subjects PROVE Len(defaults[u]) + Cardinality(Creators(u)) <= Cardinality(Tasks) + 1
    <3>1. Cardinality(Creators(u)) = 0
      BY <2>2, <2>3
    <3>2. QED BY <2>2, <2>3, <3>1
  <2>5. QED BY <2>1, <2>4 DEF BoundInv
<1>2. ASSUME BoundInv PROVE DuplicatesBounded
  <2> SUFFICES ASSUME NEW u \in Subjects PROVE Len(defaults[u]) <= Cardinality(Tasks) + 1
    BY DEF DuplicatesBounded
  <2>1. Cardinality(Tasks) \in Nat /\ Cardinality(Creators(u)) \in Nat /\ Len(defaults[u]) \in Nat
    BY <1>2, CreatorsFinite DEF BoundInv, TypeOK
  <2>2. CASE defaults[u] = <<>>
    BY <2>1, <2>2
  <2>3. CASE defaults[u] # <<>>
    BY <1>2, <2>1, <2>3 DEF BoundInv
  <2>4. QED BY <2>2, <2>3
<1>3. QED BY <1>1, <1>2, NextBound, PTL DEF Spec

-----------------------------------------------------------------------------
(* Reveals: the two participants *)

\* Each of the two participants is the other one of the other.
LEMMA OtherParticipant ==
  ASSUME NEW u \in Participants
  PROVE  /\ getOther(u) \in Participants
         /\ getOther(u) # u
         /\ getOther(getOther(u)) = u
         /\ Participants = {u, getOther(u)}
BY DEF Participants, getOther

LEMMA StatusTypes ==
  ASSUME NEW u \in Participants
  PROVE  /\ getDirectionalStatus(u) \in RevealStatus /\ isOneSided(getDirectionalStatus(u))
         /\ revokedBy(u) \in RevealStatus /\ revokedBy(u) \in Revoked
BY DEF getDirectionalStatus, revokedBy, RevealStatus, Revoked, isOneSided

\* The records of u and of the other after a call.
Writes(u, own, other) == reveal'[u] = own /\ reveal'[getOther(u)] = other

\* What each call leaves in the two records.
LEMMA RecordsWritten ==
  ASSUME RevealTypeOK, NEW u \in Participants
  PROVE  LET o == getOther(u)
         IN  /\ Reveal(u) =>
                   IF isOneSided(reveal[o])
                   THEN Writes(u, "MUTUAL_CONFIRMED", "MUTUAL_CONFIRMED")
                   ELSE Writes(u, getDirectionalStatus(u), reveal[o])
             /\ RequestMutualReveal(u) => Writes(u, "MUTUAL_PENDING", reveal[o])
             /\ AcceptMutualReveal(u) => Writes(u, "MUTUAL_CONFIRMED", "MUTUAL_CONFIRMED")
             /\ RevokeReveal(u) =>
                   Writes(u, revokedBy(u),
                          IF reveal[o] = "MUTUAL_CONFIRMED" THEN "REVOKED_MUTUAL" ELSE reveal[o])
<1>1. getOther(u) \in Participants /\ getOther(u) # u
  BY OtherParticipant
<1>2. Reveal(u) =>
        IF isOneSided(reveal[getOther(u)])
        THEN Writes(u, "MUTUAL_CONFIRMED", "MUTUAL_CONFIRMED")
        ELSE Writes(u, getDirectionalStatus(u), reveal[getOther(u)])
  BY <1>1 DEF Reveal, RevealTypeOK, Writes
<1>3. RequestMutualReveal(u) => Writes(u, "MUTUAL_PENDING", reveal[getOther(u)])
  BY <1>1 DEF RequestMutualReveal, RevealTypeOK, Writes
<1>4. AcceptMutualReveal(u) => Writes(u, "MUTUAL_CONFIRMED", "MUTUAL_CONFIRMED")
  BY <1>1 DEF AcceptMutualReveal, Writes
<1>5. RevokeReveal(u) =>
        Writes(u, revokedBy(u),
               IF reveal[getOther(u)] = "MUTUAL_CONFIRMED" THEN "REVOKED_MUTUAL" ELSE reveal[getOther(u)])
  BY <1>1 DEF RevokeReveal, RevokedRecords, RevealTypeOK, Writes
<1>6. QED BY <1>2, <1>3, <1>4, <1>5

\* Listeners are told identities, and come and go; no call subscribes one.
Heard == [Participants -> [Listeners -> StoredScopes \cup {Unsubscribed, Nothing}]]

LEMMA HeardTypes ==
  ASSUME RevealTypeOK, NEW u \in Participants
  PROVE  /\ \A identity \in StoredScopes : emitToChat(u, identity) => heard' \in Heard
         /\ \A l \in Listeners : Subscribe(u, l) \/ Unsubscribe(u, l) => heard' \in Heard
<1>1. heard \in Heard
  BY DEF RevealTypeOK, Heard
<1>2. ASSUME NEW identity \in StoredScopes, emitToChat(u, identity) PROVE heard' \in Heard
  BY <1>1, <1>2 DEF emitToChat, Heard
<1>3. ASSUME NEW l \in Listeners, Subscribe(u, l) \/ Unsubscribe(u, l) PROVE heard' \in Heard
  BY <1>1, <1>3 DEF Subscribe, Unsubscribe, Heard
<1>4. QED BY <1>2, <1>3

-----------------------------------------------------------------------------
(* Typing *)

LEMMA RevealTypeStep == RevealTypeOK /\ [RevealNext]_revealVars => RevealTypeOK'
<1> SUFFICES ASSUME RevealTypeOK, [RevealNext]_revealVars PROVE RevealTypeOK'
  OBVIOUS
<1>0. ASSUME NEW records, NEW u PROVE resolveIdentityFor(records, u) \in StoredScopes
  BY DEF resolveIdentityFor, StoredScopes
<1>1. ASSUME NEW u \in Participants, Reveal(u)
      PROVE RevealTypeOK'
  <2>1. reveal' \in [Participants -> RevealStatus]
    BY <1>1, StatusTypes, OtherParticipant DEF Reveal, RevealTypeOK, RevealStatus
  <2>2. consent' \in [Participants -> BOOLEAN]
    BY <1>1 DEF Reveal, Says, RevealTypeOK
  <2>3. scope' \in [Participants -> StoredScopes]
    BY <1>1, OtherParticipant DEF Reveal, RevealTypeOK, StoredScopes
  <2>4. heard' \in Heard
    BY <1>0, <1>1, HeardTypes DEF Reveal
  <2>5. QED
    BY <2>1, <2>2, <2>3, <2>4 DEF RevealTypeOK, Heard
<1>2. ASSUME NEW u \in Participants, RequestMutualReveal(u)
      PROVE RevealTypeOK'
  <2>1. reveal' \in [Participants -> RevealStatus]
    BY <1>2 DEF RequestMutualReveal, RevealTypeOK, RevealStatus
  <2>2. consent' \in [Participants -> BOOLEAN]
    BY <1>2 DEF RequestMutualReveal, Says, RevealTypeOK
  <2>3. QED
    BY <1>2, <2>1, <2>2 DEF RequestMutualReveal, RevealTypeOK
<1>3. ASSUME NEW u \in Participants, AcceptMutualReveal(u)
      PROVE RevealTypeOK'
  <2>1. reveal' \in [Participants -> RevealStatus]
    BY <1>3 DEF AcceptMutualReveal, RevealStatus
  <2>2. consent' \in [Participants -> BOOLEAN]
    BY <1>3 DEF AcceptMutualReveal, Says, RevealTypeOK
  <2>3. QED
    BY <1>3, <2>1, <2>2 DEF AcceptMutualReveal, RevealTypeOK, StoredScopes
<1>4. ASSUME NEW u \in Participants, RevokeReveal(u)
      PROVE RevealTypeOK'
  <2>1. reveal' \in [Participants -> RevealStatus]
    BY <1>4, StatusTypes, OtherParticipant DEF RevokeReveal, RevokedRecords, RevealTypeOK, RevealStatus
  <2>2. consent' \in [Participants -> BOOLEAN]
    BY <1>4 DEF RevokeReveal, Says, RevealTypeOK
  <2>3. scope' \in [Participants -> StoredScopes]
    BY <1>4, OtherParticipant DEF RevokeReveal, RevealTypeOK, StoredScopes
  <2>4. heard' \in Heard
    BY <1>0, <1>4, HeardTypes DEF RevokeReveal
  <2>5. QED
    BY <2>1, <2>2, <2>3, <2>4 DEF RevealTypeOK, Heard
<1>5. ASSUME NEW u \in Participants, NEW l \in Listeners, Subscribe(u, l) \/ Unsubscribe(u, l)
      PROVE RevealTypeOK'
  <2>1. heard' \in Heard
    BY <1>5, HeardTypes
  <2>2. UNCHANGED <<reveal, scope, consent>>
    BY <1>5 DEF Subscribe, Unsubscribe
  <2>3. QED BY <2>1, <2>2 DEF RevealTypeOK, Heard
<1>6. CASE UNCHANGED revealVars
  BY <1>6 DEF RevealTypeOK, revealVars
<1>7. QED
  BY <1>1, <1>2, <1>3, <1>4, <1>5, <1>6 DEF RevealNext

\* Every variable keeps its type.
THEOREM RevealTypeCorrect == RevealSpec => []RevealTypeOK
<1>1. RevealInit => RevealTypeOK
  BY DEF RevealInit, RevealTypeOK, RevealStatus, StoredScopes, Unsubscribed
<1>2. QED BY <1>1, RevealTypeStep, PTL DEF RevealSpec

-----------------------------------------------------------------------------
(* Consent *)

\* The inductive form.  Whoever has not consented has no standing record, and the
\* other side holds no confirmed one; this is what acceptMutualReveal, which writes
\* both records, and revokeReveal, which must undo both, depend on.
ConsentInv ==
  \A u \in Participants : ~consent[u] =>
    /\ reveal[u] \in {"NONE"} \cup Revoked
    /\ reveal[getOther(u)] # "MUTUAL_CONFIRMED"

LEMMA ConsentStep == RevealTypeOK /\ ConsentInv /\ [RevealNext]_revealVars => ConsentInv'
<1> SUFFICES ASSUME RevealTypeOK, ConsentInv, [RevealNext]_revealVars, NEW w \in Participants,
    ~consent'[w]
             PROVE  /\ reveal'[w] \in {"NONE"} \cup Revoked
                    /\ reveal'[getOther(w)] # "MUTUAL_CONFIRMED"
  BY DEF ConsentInv
<1> DEFINE o == getOther(w)
<1>0. o \in Participants /\ o # w /\ getOther(o) = w /\ Participants = {w, o}
  BY OtherParticipant
<1>1. ASSUME NEW u \in Participants, Reveal(u) \/ RequestMutualReveal(u) \/ AcceptMutualReveal(u)
      PROVE  /\ u = o
             /\ reveal[w] \in {"NONE"} \cup Revoked
             /\ reveal[o] # "MUTUAL_CONFIRMED"
  <2>1. consent' = [consent EXCEPT ![u] = TRUE]
    BY <1>1 DEF Reveal, RequestMutualReveal, AcceptMutualReveal, Says
  <2>2. u # w
    BY <2>1 DEF RevealTypeOK
  <2>3. ~consent[w]
    BY <2>1, <2>2 DEF RevealTypeOK
  <2>4. QED BY <2>2, <2>3, <1>0 DEF ConsentInv
<1>2. ASSUME NEW u \in Participants, Reveal(u)
      PROVE  /\ reveal'[w] \in {"NONE"} \cup Revoked
             /\ reveal'[o] # "MUTUAL_CONFIRMED"
  <2>1. u = o /\ reveal[w] \in {"NONE"} \cup Revoked
    BY <1>1, <1>2
  <2>2. ~isOneSided(reveal[w])
    BY <2>1 DEF isOneSided, Revoked
  <2>3. reveal'[o] = getDirectionalStatus(o) /\ reveal'[w] = reveal[w]
    BY <1>0, <1>2, <2>1, <2>2, RecordsWritten DEF Writes
  <2>4. QED BY <2>1, <2>3 DEF getDirectionalStatus
<1>3. ASSUME NEW u \in Participants, RequestMutualReveal(u)
      PROVE  /\ reveal'[w] \in {"NONE"} \cup Revoked
             /\ reveal'[o] # "MUTUAL_CONFIRMED"
  <2>1. u = o /\ reveal[w] \in {"NONE"} \cup Revoked
    BY <1>1, <1>3
  <2>2. reveal'[o] = "MUTUAL_PENDING" /\ reveal'[w] = reveal[w]
    BY <1>3, <2>1, <1>0, RecordsWritten DEF Writes
  <2>3. QED BY <2>1, <2>2
<1>4. ASSUME NEW u \in Participants, AcceptMutualReveal(u)
      PROVE  FALSE
  BY <1>1, <1>4, <1>0 DEF AcceptMutualReveal, Revoked
<1>5. ASSUME NEW u \in Participants, RevokeReveal(u)
      PROVE  /\ reveal'[w] \in {"NONE"} \cup Revoked
             /\ reveal'[o] # "MUTUAL_CONFIRMED"
  <2>1. CASE u = w
    <3>1. /\ reveal'[w] = revokedBy(w)
          /\ reveal'[o] = IF reveal[o] = "MUTUAL_CONFIRMED" THEN "REVOKED_MUTUAL" ELSE reveal[o]
      BY <1>5, <2>1, RecordsWritten DEF Writes
    <3>2. QED BY <3>1, StatusTypes
  <2>2. CASE u = o
    <3>1. ~consent[w]
      BY <1>5, <2>2, <1>0 DEF RevokeReveal, Says, RevealTypeOK
    <3>2. reveal[w] \in {"NONE"} \cup Revoked
      BY <3>1 DEF ConsentInv
    <3>3. /\ reveal'[o] = revokedBy(o)
          /\ reveal'[w] = reveal[w]
      BY <1>5, <2>2, <3>2, <1>0, RecordsWritten DEF Writes, Revoked
    <3>4. QED BY <3>2, <3>3 DEF revokedBy
  <2>3. QED BY <2>1, <2>2, <1>0
<1>6. CASE UNCHANGED <<reveal, consent>>
  BY <1>6 DEF ConsentInv
<1>7. QED
  BY <1>2, <1>3, <1>4, <1>5, <1>6 DEF RevealNext, Subscribe, Unsubscribe, revealVars

\* Nobody is seen in full without standing by it, however the calls interleave.
THEOREM Consent == RevealSpec => []VisibleOnlyWithConsent
<1>1. RevealInit => ConsentInv
  BY DEF RevealInit, ConsentInv, Participants, getOther
<1>2. RevealTypeOK /\ ConsentInv => VisibleOnlyWithConsent
  BY OtherParticipant DEF ConsentInv, VisibleOnlyWithConsent, isFullForViewer, isOneSided, Revoked
<1>3. QED
  BY <1>1, <1>2, ConsentStep, RevealTypeCorrect, PTL DEF RevealSpec

-----------------------------------------------------------------------------
(* The records of the two directions, and the scope stored beside them *)

\* Whoever is shown by the other's confirmed record has a standing record as well.
StandingInv ==
  \A u \in Participants :
    reveal[getOther(u)] = "MUTUAL_CONFIRMED" => reveal[u] \notin {"NONE"} \cup Revoked

LEMMA StandingStep == RevealTypeOK /\ StandingInv /\ [RevealNext]_revealVars => StandingInv'
<1> SUFFICES ASSUME RevealTypeOK, StandingInv, [RevealNext]_revealVars, NEW w \in Participants
             PROVE  reveal'[getOther(w)] = "MUTUAL_CONFIRMED"
                 => reveal'[w] \notin {"NONE"} \cup Revoked
  BY DEF StandingInv
<1>1. ASSUME NEW u \in Participants, NEW own, NEW other, Writes(u, own, other),
             own = "MUTUAL_CONFIRMED" => other \notin {"NONE"} \cup Revoked,
             other = "MUTUAL_CONFIRMED" => own \notin {"NONE"} \cup Revoked
      PROVE  reveal'[getOther(w)] = "MUTUAL_CONFIRMED"
          => reveal'[w] \notin {"NONE"} \cup Revoked
  <2>1. w = u \/ w = getOther(u)
    BY OtherParticipant
  <2>2. QED BY <1>1, <2>1, OtherParticipant DEF Writes
<1>2. ASSUME NEW u \in Participants, Reveal(u)
      PROVE  reveal'[getOther(w)] = "MUTUAL_CONFIRMED"
          => reveal'[w] \notin {"NONE"} \cup Revoked
  <2>1. CASE isOneSided(reveal[getOther(u)])
    BY <1>1, <1>2, <2>1, RecordsWritten DEF Revoked
  <2>2. CASE ~isOneSided(reveal[getOther(u)])
    <3>1. Writes(u, getDirectionalStatus(u), reveal[getOther(u)])
      BY <1>2, <2>2, RecordsWritten
    <3>2. getDirectionalStatus(u) \notin {"NONE", "MUTUAL_CONFIRMED"} \cup Revoked
      BY DEF getDirectionalStatus, Revoked
    <3>3. QED BY <1>1, <3>1, <3>2
  <2>3. QED BY <2>1, <2>2
<1>3. ASSUME NEW u \in Participants, RequestMutualReveal(u)
      PROVE  reveal'[getOther(w)] = "MUTUAL_CONFIRMED"
          => reveal'[w] \notin {"NONE"} \cup Revoked
  BY <1>1, <1>3, RecordsWritten DEF Revoked
<1>4. ASSUME NEW u \in Participants, AcceptMutualReveal(u)
      PROVE  reveal'[getOther(w)] = "MUTUAL_CONFIRMED"
          => reveal'[w] \notin {"NONE"} \cup Revoked
  BY <1>1, <1>4, RecordsWritten DEF Revoked
<1>5. ASSUME NEW u \in Participants, RevokeReveal(u)
      PROVE  reveal'[getOther(w)] = "MUTUAL_CONFIRMED"
          => reveal'[w] \notin {"NONE"} \cup Revoked
  <2>1. revokedBy(u) # "MUTUAL_CONFIRMED"
    BY DEF revokedBy
  <2>2. QED BY <1>1, <1>5, <2>1, RecordsWritten
<1>6. CASE UNCHANGED <<reveal, consent>>
  BY <1>6 DEF StandingInv
<1>7. QED
  BY <1>2, <1>3, <1>4, <1>5, <1>6 DEF RevealNext, Subscribe, Unsubscribe, revealVars

\* Nobody is shown in full without being offered to revoke.
THEOREM VisibleRevocable == RevealSpec => []VisibleCanRevoke
<1>1. RevealInit => StandingInv
  BY OtherParticipant DEF RevealInit, StandingInv
<1>2. StandingInv => VisibleCanRevoke
  BY DEF StandingInv, VisibleCanRevoke, isFullForViewer, canRevoke, isOneSided, Revoked
<1>3. QED
  BY <1>1, <1>2, StandingStep, RevealTypeCorrect, PTL DEF RevealSpec

\* A call that shows nobody who was not shown before may take no stored scope away.
LEMMA ScopeStep ==
  RevealTypeOK /\ StoredScopeCoversResolver /\ [RevealNext]_revealVars => StoredScopeCoversResolver'
<1> SUFFICES ASSUME RevealTypeOK, StoredScopeCoversResolver, [RevealNext]_revealVars, NEW w \in Participants,
                    isFullForViewer(reveal, w)'
             PROVE  scope'[getOther(w)] = "FULL"
  BY DEF StoredScopeCoversResolver
<1> DEFINE o == getOther(w)
<1>0. o \in Participants /\ o # w /\ getOther(o) = w /\ Participants = {w, o}
  BY OtherParticipant
<1>1. isOneSided(reveal'[w]) \/ reveal'[w] = "MUTUAL_CONFIRMED" \/ reveal'[o] = "MUTUAL_CONFIRMED"
  BY DEF isFullForViewer, isOneSided
<1>2. isFullForViewer(reveal, w) => scope[o] = "FULL"
  BY DEF StoredScopeCoversResolver
<1>3. ASSUME NEW u \in Participants, Reveal(u)
      PROVE  scope'[o] = "FULL"
  <2>1. CASE u = w \/ isOneSided(reveal[getOther(u)])
    BY <1>0, <1>3, <2>1 DEF Reveal, RevealTypeOK
  <2>2. CASE u = o /\ ~isOneSided(reveal[w])
    <3>1. reveal'[o] = getDirectionalStatus(o) /\ reveal'[w] = reveal[w]
      BY <1>0, <1>3, <2>2, RecordsWritten DEF Writes
    <3>2. isFullForViewer(reveal, w)
      BY <1>1, <3>1 DEF isFullForViewer, getDirectionalStatus
    <3>3. QED BY <1>0, <1>2, <1>3, <2>2, <3>2 DEF Reveal, RevealTypeOK
  <2>3. QED BY <1>0, <2>1, <2>2
<1>4. ASSUME NEW u \in Participants, RequestMutualReveal(u)
      PROVE  scope'[o] = "FULL"
  <2>1. reveal'[u] = "MUTUAL_PENDING" /\ reveal'[getOther(u)] = reveal[getOther(u)]
    BY <1>4, RecordsWritten DEF Writes
  <2>2. isFullForViewer(reveal, w)
    BY <1>0, <1>1, <2>1 DEF isFullForViewer, isOneSided
  <2>3. QED BY <1>2, <1>4, <2>2 DEF RequestMutualReveal
<1>5. ASSUME NEW u \in Participants, AcceptMutualReveal(u)
      PROVE  scope'[o] = "FULL"
  BY <1>0, <1>5 DEF AcceptMutualReveal
<1>6. ASSUME NEW u \in Participants, RevokeReveal(u)
      PROVE  scope'[o] = "FULL"
  <2>1. /\ reveal'[u] = revokedBy(u)
        /\ reveal'[getOther(u)] = IF reveal[getOther(u)] = "MUTUAL_CONFIRMED"
                                      THEN "REVOKED_MUTUAL"
                                      ELSE reveal[getOther(u)]
    BY <1>6, RecordsWritten DEF Writes
  <2>2. reveal'[u] \notin {"MUTUAL_CONFIRMED"} /\ reveal'[getOther(u)] # "MUTUAL_CONFIRMED" /\ ~isOneSided(reveal'[u])
    BY <2>1 DEF revokedBy, isOneSided
  <2>3. u = o /\ isOneSided(reveal'[w])
    BY <1>0, <1>1, <2>2
  <2>4. isOneSided(reveal[w])
    BY <1>0, <2>1, <2>3 DEF isOneSided
  <2>5. scope[o] = "FULL"
    BY <1>2, <2>4 DEF isFullForViewer
  <2>6. QED BY <1>0, <1>6, <2>3, <2>5 DEF RevokeReveal, RevealTypeOK
<1>7. CASE UNCHANGED <<reveal, scope>>
  BY <1>1, <1>2, <1>7 DEF isFullForViewer
<1>8. QED
  BY <1>3, <1>4, <1>5, <1>6, <1>7 DEF RevealNext, Subscribe, Unsubscribe, revealVars

\* Whoever is shown in full is stored as visible for the viewer.
THEOREM ScopeCovers == RevealSpec => []StoredScopeCoversResolver
<1>1. RevealInit => StoredScopeCoversResolver
  BY OtherParticipant DEF RevealInit, StoredScopeCoversResolver, isFullForViewer, isOneSided
<1>2. QED
  BY <1>1, ScopeStep, RevealTypeCorrect, PTL DEF RevealSpec

-----------------------------------------------------------------------------
(* The listeners *)

\* A withdrawal is told as such: the revoked records resolve to the default.
LEMMA RevokedIsHidden ==
  ASSUME RevealTypeOK, NEW u \in Participants
  PROVE  resolveIdentityFor(RevokedRecords(u), u) = "GLOBAL_DEFAULT"
<1>1. /\ RevokedRecords(u)[u] = revokedBy(u)
      /\ RevokedRecords(u)[getOther(u)] # "MUTUAL_CONFIRMED"
  BY OtherParticipant DEF RevokedRecords, RevealTypeOK
<1>2. QED
  BY <1>1 DEF resolveIdentityFor, isFullForViewer, isOneSided, revokedBy

LEMMA HeardStep == RevealTypeOK /\ WithdrawalIsHeard /\ [RevealNext]_revealVars => WithdrawalIsHeard'
<1> SUFFICES ASSUME RevealTypeOK, WithdrawalIsHeard, [RevealNext]_revealVars,
                    NEW v \in Participants, NEW l \in Listeners, heard'[v][l] = "FULL"
             PROVE  consent'[getOther(v)]
  BY DEF WithdrawalIsHeard
<1> DEFINE o == getOther(v)
<1>0. o \in Participants /\ o # v /\ getOther(o) = v /\ Participants = {v, o}
  BY OtherParticipant
<1>1. heard[v][l] = "FULL" => consent[o]
  BY DEF WithdrawalIsHeard
<1>2. ASSUME NEW u \in Participants, Reveal(u)
      PROVE  consent'[o]
  <2>1. CASE u = o
    BY <1>0, <1>2, <2>1 DEF Reveal, Says, RevealTypeOK
  <2>2. CASE u = v
    <3>1. heard'[v][l] = heard[v][l]
      BY <1>0, <1>2, <2>2 DEF Reveal, emitToChat
    <3>2. consent'[o] = consent[o]
      BY <1>0, <1>2, <2>2 DEF Reveal, Says, RevealTypeOK
    <3>3. QED BY <1>1, <3>1, <3>2
  <2>3. QED BY <1>0, <2>1, <2>2
<1>3. ASSUME NEW u \in Participants, RequestMutualReveal(u) \/ AcceptMutualReveal(u)
      PROVE  consent'[o]
  <2>1. heard' = heard /\ consent' = [consent EXCEPT ![u] = TRUE]
    BY <1>3 DEF RequestMutualReveal, AcceptMutualReveal, Says
  <2>2. QED BY <1>0, <1>1, <2>1 DEF RevealTypeOK
<1>4. ASSUME NEW u \in Participants, RevokeReveal(u)
      PROVE  consent'[o]
  <2>1. CASE u = o
    <3>1. emitToChat(o, "GLOBAL_DEFAULT")
      BY <1>4, <2>1, RevokedIsHidden DEF RevokeReveal
    <3>2. heard'[v][l] = IF Subscribed(v, l) THEN "GLOBAL_DEFAULT" ELSE heard[v][l]
      BY <1>0, <3>1 DEF emitToChat
    <3>3. heard'[v][l] # "FULL"
      BY <3>2 DEF Subscribed, Unsubscribed
    <3>4. QED BY <3>3
  <2>2. CASE u = v
    <3>1. heard'[v][l] = heard[v][l]
      BY <1>0, <1>4, <2>2 DEF RevokeReveal, emitToChat
    <3>2. consent'[o] = consent[o]
      BY <1>0, <1>4, <2>2 DEF RevokeReveal, Says, RevealTypeOK
    <3>3. QED BY <1>1, <3>1, <3>2
  <2>3. QED BY <1>0, <2>1, <2>2
<1>5. ASSUME NEW u \in Participants, NEW m \in Listeners, Subscribe(u, m) \/ Unsubscribe(u, m)
      PROVE  consent'[o]
  <2>1. heard'[v][l] \in {heard[v][l], Nothing, Unsubscribed} /\ consent' = consent
    BY <1>5 DEF Subscribe, Unsubscribe, RevealTypeOK
  <2>2. QED BY <1>1, <2>1 DEF Nothing, Unsubscribed
<1>6. CASE UNCHANGED revealVars
  BY <1>1, <1>6 DEF revealVars
<1>7. QED
  BY <1>2, <1>3, <1>4, <1>5, <1>6 DEF RevealNext

\* No listener holds the full identity of somebody who has withdrawn it.
THEOREM WithdrawalsHeard == RevealSpec => []WithdrawalIsHeard
<1>1. RevealInit => WithdrawalIsHeard
  BY DEF RevealInit, WithdrawalIsHeard, Unsubscribed
<1>2. QED
  BY <1>1, HeardStep, RevealTypeCorrect, PTL DEF RevealSpec

-----------------------------------------------------------------------------
(* Scope endpoints *)

EndpointsTypeOK == scopes \in [Places -> Scopes \cup {NoScope}]

LEMMA EndpointsStep ==
  ASSUME EndpointsTypeOK, [ScopesNext]_scopesVars
  PROVE  EndpointsTypeOK' /\ \A p \in Places : Excess(p)' \subseteq Stored(p)
<1>1. ASSUME NEW p \in Places PROVE Stored(p) \subseteq Toggles
  BY DEF EndpointsTypeOK, Stored, Scopes
<1>2. ASSUME NEW place \in Places, NEW level \in IdentityLevel,
             NEW on \in SUBSET Toggles, NEW off \in SUBSET (Toggles \ on),
             PutScope(place, level, on, off)
      PROVE  EndpointsTypeOK' /\ \A p \in Places : Excess(p)' \subseteq Stored(p)
  <2> DEFINE merged == Merged(place, level, on, off)
  <2>1. merged.identityLevel = level /\ merged.toggles = (Stored(place) \ off) \cup on
    BY DEF Merged
  <2>2. merged \in Scopes
    BY <1>1 DEF Merged, Scopes
  <2>3. on \subseteq Allowed(level) /\ scopes' = [scopes EXCEPT ![place] = merged]
    BY <1>2 DEF PutScope, Valid
  <2> HIDE DEF merged
  <2>4. ASSUME NEW p \in Places PROVE Excess(p)' \subseteq Stored(p)
    <3>1. CASE p = place
      <4>1. scopes'[p] = merged /\ merged # NoScope
        BY <2>2, <2>3, <3>1, NoScopeAssumption DEF EndpointsTypeOK
      <4>2. Excess(p)' = merged.toggles \ Allowed(level)
        BY <2>1, <4>1 DEF Excess, Stored
      <4>3. QED BY <2>1, <2>3, <3>1, <4>2
    <3>2. CASE p # place
      BY <2>3, <3>2 DEF EndpointsTypeOK, Excess, Stored
    <3>3. QED BY <3>1, <3>2
  <2>5. QED BY <2>2, <2>3, <2>4 DEF EndpointsTypeOK
<1>3. ASSUME NEW place \in Places, DeleteScope(place)
      PROVE  EndpointsTypeOK' /\ \A p \in Places : Excess(p)' \subseteq Stored(p)
  BY <1>3 DEF DeleteScope, EndpointsTypeOK, Excess, Stored
<1>4. CASE UNCHANGED scopesVars
  BY <1>4 DEF scopesVars, EndpointsTypeOK, Excess, Stored
<1>5. QED BY <1>2, <1>3, <1>4 DEF ScopesNext

\* Whatever sequence of requests a user makes, each turns on what its level allows at most.
THEOREM ExcessKept == ScopesSpec => ExcessIsKept
<1>1. ScopesInit => EndpointsTypeOK
  BY DEF ScopesInit, EndpointsTypeOK
<1>2. EndpointsTypeOK /\ [ScopesNext]_scopesVars => EndpointsTypeOK'
  BY EndpointsStep
<1>3. EndpointsTypeOK /\ [ScopesNext]_scopesVars
        => [\A place \in Places : Excess(place)' \subseteq Stored(place)]_scopesVars
  BY EndpointsStep
<1>4. QED BY <1>1, <1>2, <1>3, PTL DEF ScopesSpec, ExcessIsKept
=============================================================================
