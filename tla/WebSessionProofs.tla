--------------------------- MODULE WebSessionProofs ---------------------------
(***************************************************************************)
(* Proofs about WebSession, for every number of tabs, of requests in       *)
(* flight and of sessions the server issues.                               *)
(***************************************************************************)
EXTENDS WebSession, TLAPS

-----------------------------------------------------------------------------
(* Typing *)

RequestStates == [stage : Stages, awaits : Requests \cup {None}]

\* What is written to a store is written to the storage too.
LEMMA SetSessionTypes ==
  ASSUME TypeOK, NEW t \in Tabs, NEW access \in Tokens, NEW refresh \in Tokens, setSession(t, access, refresh)
  PROVE  /\ session' \in [Tabs -> Sessions] /\ stored' \in Sessions /\ storedBy' \in Tabs
         /\ session'[t] = [access |-> access, refresh |-> refresh]
         /\ stored' = session'[t] /\ storedBy' = t
         /\ \A u \in Tabs : u # t => session'[u] = session[u]
BY DEF TypeOK, setSession, Sessions

LEMMA ClearSessionTypes ==
  ASSUME TypeOK, NEW t \in Tabs, clearSession(t)
  PROVE  /\ session' \in [Tabs -> Sessions] /\ stored' \in Sessions /\ storedBy' \in Tabs
         /\ session'[t] = NoSession
         /\ stored' = session'[t] /\ storedBy' = t
         /\ \A u \in Tabs : u # t => session'[u] = session[u]
<1>1. 0 \in Tokens
  BY MaxTokensAssumption DEF Tokens
<1>2. QED BY <1>1, SetSessionTypes DEF clearSession, NoSession

\* A request that is posted moves on; the others stay where they are.
LEMMA PostTypes ==
  ASSUME TypeOK, NEW t \in Tabs, NEW r \in Requests, Post(t, r)
  PROVE  /\ request' \in [Tabs -> [Requests -> RequestStates]]
         /\ refreshPromise' \in [Tabs -> Requests \cup {None}]
         /\ post' \in [Tabs -> [Requests -> Tokens]]
         /\ spent' \in [Tabs -> SUBSET (1 .. MaxTokens)]
<1>1. session[t].refresh \in Tokens /\ session[t].refresh \in 1 .. MaxTokens
  BY MaxTokensAssumption DEF Post, TypeOK, Sessions, Tokens
<1>2. [stage |-> "waiting", awaits |-> r] \in RequestStates
  BY DEF RequestStates, Stages
<1>3. request' \in [Tabs -> [Requests -> RequestStates]]
  BY <1>2 DEF Post, TypeOK, RequestStates
<1>4. QED BY <1>1, <1>3 DEF Post, TypeOK

LEMMA EndRefreshTypes ==
  ASSUME TypeOK, NEW t \in Tabs, NEW r \in Requests, NEW after \in {Unused, Resent}, EndRefresh(t, r, after)
  PROVE  /\ request' \in [Tabs -> [Requests -> RequestStates]]
         /\ refreshPromise' \in [Tabs -> Requests \cup {None}]
         /\ post' \in [Tabs -> [Requests -> Tokens]]
<1>1. after \in RequestStates
  BY DEF RequestStates, Unused, Resent, Stages
<1>2. Released(t, r, after) \in [Requests -> RequestStates]
  BY <1>1 DEF Released, TypeOK, RequestStates
<1>3. 0 \in Tokens
  BY MaxTokensAssumption DEF Tokens
<1>4. QED BY <1>2, <1>3 DEF EndRefresh, TypeOK, RequestStates

LEMMA InitTypes == Init => TypeOK
<1>1. 0 \in Tokens
  BY MaxTokensAssumption DEF Tokens
<1>2. QED BY <1>1 DEF Init, TypeOK, NoSession, Sessions, Unused, Stages

LEMMA PageTypes ==
  ASSUME TypeOK, NEW t \in Tabs, Load(t) \/ LogIn(t) \/ LogOut(t)
  PROVE  TypeOK'
<1>1. CASE Load(t)
  <2>1. [r \in Requests |-> Unused] \in [Requests -> RequestStates] /\ [r \in Requests |-> 0] \in [Requests -> Tokens]
    BY MaxTokensAssumption DEF Unused, RequestStates, Stages, Tokens
  <2>2. QED BY <1>1, <2>1 DEF Load, TypeOK, RequestStates
<1>2. CASE LogIn(t)
  <2>1. issued' \in Tokens
    BY <1>2, MaxTokensAssumption DEF LogIn, TypeOK, Tokens
  <2>2. PICK refresh \in {0, issued'} : setSession(t, issued', refresh)
    BY <1>2 DEF LogIn
  <2>3. session' \in [Tabs -> Sessions] /\ stored' \in Sessions /\ storedBy' \in Tabs
    BY <2>1, <2>2, MaxTokensAssumption DEF setSession, TypeOK, Sessions, Tokens
  <2>4. QED BY <1>2, <2>1, <2>3 DEF LogIn, requests, TypeOK
<1>3. CASE LogOut(t)
  BY <1>3, ClearSessionTypes DEF LogOut, requests, TypeOK
<1>4. QED BY <1>1, <1>2, <1>3

LEMMA RequestTypes ==
  ASSUME TypeOK, NEW t \in Tabs, NEW r \in Requests, Send(t, r) \/ Answered(t, r)
  PROVE  TypeOK'
<1> USE DEF store
<1>0. RequestStates = [stage : Stages, awaits : Requests \cup {None}]
  BY DEF RequestStates
<1>1. CASE Send(t, r)
  <2>1. [stage |-> "sent", awaits |-> None] \in RequestStates
    BY DEF RequestStates, Stages
  <2>2. request' \in [Tabs -> [Requests -> RequestStates]]
    BY <1>1, <1>0, <2>1 DEF Send, TypeOK
  <2>3. QED BY <1>1, <1>0, <2>2 DEF Send, TypeOK
<1>2. CASE Settle(t, r)
  <2>1. Unused \in RequestStates
    BY DEF Unused, RequestStates, Stages
  <2>2. request' \in [Tabs -> [Requests -> RequestStates]]
    BY <1>2, <1>0, <2>1 DEF Settle, TypeOK
  <2>3. QED BY <1>2, <1>0, <2>2 DEF Settle, TypeOK
<1>3. CASE JoinRefresh(t, r)
  <2>1. [stage |-> "waiting", awaits |-> refreshPromise[t]] \in RequestStates
    BY DEF TypeOK, RequestStates, Stages
  <2>2. request' \in [Tabs -> [Requests -> RequestStates]]
    BY <1>3, <1>0, <2>1 DEF JoinRefresh, TypeOK
  <2>3. QED BY <1>3, <1>0, <2>2 DEF JoinRefresh, TypeOK
<1>4. CASE BeginRefresh(t, r)
  BY <1>4, <1>0, PostTypes DEF BeginRefresh, Post, TypeOK
<1>5. CASE NothingToRefresh(t, r)
  <2>1. Unused \in RequestStates
    BY DEF Unused, RequestStates, Stages
  <2>2. request' \in [Tabs -> [Requests -> RequestStates]]
    BY <1>5, <1>0, <2>1 DEF NothingToRefresh, TypeOK
  <2>3. session' \in [Tabs -> Sessions] /\ stored' \in Sessions /\ storedBy' \in Tabs
    BY <1>5, ClearSessionTypes DEF NothingToRefresh
  <2>4. QED BY <1>5, <1>0, <2>2, <2>3 DEF NothingToRefresh, TypeOK
<1>6. QED BY <1>1, <1>2, <1>3, <1>4, <1>5 DEF Answered

LEMMA RefreshTypes ==
  ASSUME TypeOK, NEW t \in Tabs, NEW r \in Requests, RefreshAnswered(t, r)
  PROVE  TypeOK'
<1>0. RequestStates = [stage : Stages, awaits : Requests \cup {None}]
  BY DEF RequestStates
<1>1. ASSUME NEW rotate \in BOOLEAN, Refreshed(t, r, rotate)
      PROVE  TypeOK'
  <2>1. PICK next : next = issued' /\ next \in Tokens
    BY <1>1, MaxTokensAssumption DEF Refreshed, TypeOK, Tokens
  <2>2. PICK token \in Tokens : token = IF rotate THEN next ELSE post[t][r]
    BY <2>1 DEF TypeOK
  <2>3. setSession(t, next, token)
    BY <1>1, <2>1, <2>2 DEF Refreshed
  <2>4. session' \in [Tabs -> Sessions] /\ stored' \in Sessions /\ storedBy' \in Tabs
    BY <2>1, <2>3, SetSessionTypes
  <2>5. spent' \in [Tabs -> SUBSET (1 .. MaxTokens)]
    BY <1>1 DEF Refreshed, TypeOK
  <2>6. QED BY <1>0, <1>1, <2>1, <2>4, <2>5, EndRefreshTypes DEF Refreshed, TypeOK
<1>2. CASE RefreshFailed(t, r)
  BY <1>0, <1>2, EndRefreshTypes, ClearSessionTypes DEF RefreshFailed, TypeOK
<1>3. QED BY <1>1, <1>2 DEF RefreshAnswered

LEMMA NextTypes == TypeOK /\ [Next]_vars => TypeOK'
<1>1. TypeOK /\ UNCHANGED vars => TypeOK'
  BY DEF vars, store, requests, TypeOK
<1>2. QED BY <1>1, PageTypes, RequestTypes, RefreshTypes DEF Next

\* Stores, the storage and requests keep their types, which is what the other theorems
\* about the interceptors of client.ts rest on.
THEOREM TypeCorrect == Spec => []TypeOK
BY InitTypes, NextTypes, PTL DEF Spec

-----------------------------------------------------------------------------
(* Waiting.  The one refresh of a tab is the one whose answer is to come.      *)

WaitsIn(t) ==
  \A x \in Requests :
    /\ request[t][x].stage = "waiting" => request[t][x].awaits \in Requests /\ post[t][request[t][x].awaits] # 0
    /\ post[t][x] # 0 <=> refreshPromise[t] = x

WaitInv == \A t \in Tabs : WaitsIn(t)

LEMMA InitWaits == Init => WaitInv
BY NoneAssumption DEF Init, WaitInv, WaitsIn, Unused

LEMMA NextWaits == TypeOK /\ WaitInv /\ [Next]_vars => WaitInv'
<1> SUFFICES ASSUME TypeOK, WaitInv, [Next]_vars
             PROVE  WaitInv'
  OBVIOUS
<1>0. WaitInv' <=> \A u \in Tabs : WaitsIn(u)'
  BY DEF WaitInv
<1>1. ASSUME UNCHANGED <<request, refreshPromise, post>>
      PROVE  WaitInv'
  BY <1>1 DEF WaitInv, WaitsIn
<1>2. ASSUME NEW t \in Tabs, Load(t)
      PROVE  WaitInv'
  BY <1>2, NoneAssumption DEF Load, TypeOK, Unused, WaitInv, WaitsIn
<1>3. ASSUME NEW t \in Tabs, NEW r \in Requests,
             Send(t, r) \/ Settle(t, r) \/ JoinRefresh(t, r) \/ NothingToRefresh(t, r)
      PROVE  WaitInv'
  <2>1. UNCHANGED <<refreshPromise, post>>
    BY <1>3 DEF Send, Settle, JoinRefresh, NothingToRefresh
  <2>2. PICK state : /\ request' = [request EXCEPT ![t][r] = state]
                     /\ state.stage = "waiting" => state.awaits = refreshPromise[t] /\ refreshPromise[t] # None
    BY <1>3 DEF Send, Settle, JoinRefresh, NothingToRefresh, Unused
  <2>3. \A u \in Tabs : \A x \in Requests :
          request'[u][x] = IF u = t /\ x = r THEN state ELSE request[u][x]
    BY <2>2 DEF TypeOK
  <2>4. state.stage = "waiting" => state.awaits \in Requests /\ post[t][state.awaits] # 0
    BY <2>2 DEF TypeOK, WaitInv, WaitsIn
  <2>5. QED BY <2>1, <2>3, <2>4 DEF WaitInv, WaitsIn
<1>4. ASSUME NEW t \in Tabs, NEW r \in Requests, BeginRefresh(t, r)
      PROVE  WaitInv'
  <2>1. \A x \in Requests : post[t][x] = 0 /\ request[t][x].stage # "waiting"
    BY <1>4, NoneAssumption DEF BeginRefresh, WaitInv, WaitsIn
  <2>2. /\ \A x \in Requests : request'[t][x] = IF x = r THEN [stage |-> "waiting", awaits |-> r] ELSE request[t][x]
        /\ \A x \in Requests : post'[t][x] = IF x = r THEN session[t].refresh ELSE post[t][x]
        /\ refreshPromise'[t] = r /\ session[t].refresh # 0
    BY <1>4 DEF BeginRefresh, Post, TypeOK
  <2>3. WaitsIn(t)'
    BY <2>1, <2>2 DEF WaitsIn
  <2>4. \A u \in Tabs : u # t => WaitsIn(u)'
    BY <1>4 DEF BeginRefresh, Post, TypeOK, WaitInv, WaitsIn
  <2>5. QED BY <1>0, <2>3, <2>4
<1>5. ASSUME NEW t \in Tabs, NEW r \in Requests, NEW after \in {Unused, Resent}, EndRefresh(t, r, after)
      PROVE  WaitInv'
  <2>1. \A x \in Requests : x # r => post[t][x] = 0
    BY <1>5 DEF EndRefresh, WaitInv, WaitsIn
  <2>2. /\ \A x \in Requests : request'[t][x] =
             IF request[t][x].stage = "waiting" /\ request[t][x].awaits = r THEN after ELSE request[t][x]
        /\ \A x \in Requests : post'[t][x] = IF x = r THEN 0 ELSE post[t][x]
        /\ refreshPromise'[t] = None /\ after.stage # "waiting"
    BY <1>5 DEF EndRefresh, Released, Unused, Resent, TypeOK
  <2>3. WaitsIn(t)'
    BY <2>1, <2>2, NoneAssumption DEF WaitInv, WaitsIn
  <2>4. \A u \in Tabs : u # t => WaitsIn(u)'
    BY <1>5 DEF EndRefresh, TypeOK, WaitInv, WaitsIn
  <2>5. QED BY <1>0, <2>3, <2>4
<1>6. QED
  BY <1>1, <1>2, <1>3, <1>4, <1>5
     DEF Next, LogIn, LogOut, Answered, RefreshAnswered, Refreshed, RefreshFailed, vars, requests

\* WaiterHasRefresh, for every number of tabs and requests.
THEOREM WaitersHaveRefresh == Spec => []WaiterHasRefresh
<1>1. WaitInv => WaiterHasRefresh
  BY DEF WaitInv, WaitsIn, WaiterHasRefresh
<1>2. QED BY <1>1, InitWaits, NextWaits, TypeCorrect, PTL DEF Spec

-----------------------------------------------------------------------------
(* Stores.  A token a tab has spent it either no longer holds or is waiting    *)
(* for the answer to, and the storage is what its last writer holds.           *)

StoreInv ==
  /\ storedBy \in Tabs => stored = session[storedBy]
  /\ storedBy = None => stored = NoSession

\* Tokens that are not issued yet are nowhere.
IssuedInv ==
  /\ stored.refresh <= issued
  /\ \A t \in Tabs : session[t].refresh <= issued /\ \A n \in spent[t] : n <= issued
  /\ \A t \in Tabs : \A r \in Requests : post[t][r] <= issued

SpentInv ==
  \A t \in Tabs :
    /\ session[t].refresh \in spent[t] => refreshPromise[t] # None /\ post[t][refreshPromise[t]] = session[t].refresh
    /\ \A r \in Requests : post[t][r] # 0 => post[t][r] \in spent[t]

SessionInv == StoreInv /\ IssuedInv /\ SpentInv

LEMMA InitSession == Init => SessionInv
BY NoneAssumption DEF Init, SessionInv, StoreInv, IssuedInv, SpentInv, NoSession

\* Steps of one tab leave the stores and requests of the others alone, except that
\* they write the storage.
OthersKept(t) ==
  \A u \in Tabs : u # t =>
    /\ session'[u] = session[u] /\ refreshPromise'[u] = refreshPromise[u]
    /\ post'[u] = post[u] /\ spent'[u] = spent[u]

\* A tab writes a session whose refresh token is new, or none, or one it has not spent.
LEMMA WrittenSession ==
  ASSUME TypeOK, WaitInv, SessionInv, NEW t \in Tabs, OthersKept(t), issued' \in Nat, issued <= issued',
         stored' = session'[t], storedBy' = t, session'[t].refresh <= issued',
         \A n \in spent'[t] : n <= issued', \A r \in Requests : post'[t][r] <= issued',
         session'[t].refresh \notin spent'[t],
         \A r \in Requests : post'[t][r] # 0 => post'[t][r] \in spent'[t]
  PROVE  SessionInv'
<1>1. /\ issued \in Nat /\ stored.refresh \in Nat
      /\ \A u \in Tabs : /\ session[u].refresh \in Nat /\ spent[u] \subseteq Nat
                        /\ \A r \in Requests : post[u][r] \in Nat
  BY MaxTokensAssumption DEF TypeOK, Sessions, Tokens
<1>2. StoreInv'
  BY NoneAssumption DEF SessionInv, StoreInv, OthersKept
<1>3. IssuedInv'
  BY <1>1 DEF SessionInv, IssuedInv, OthersKept
<1>4. SpentInv'
  BY DEF SessionInv, SpentInv, OthersKept
<1>5. QED BY <1>2, <1>3, <1>4 DEF SessionInv

LEMMA NumbersAreNaturals ==
  ASSUME TypeOK
  PROVE  /\ issued \in Nat /\ stored.refresh \in Nat
         /\ \A u \in Tabs : /\ session[u].refresh \in Nat
                           /\ spent[u] \subseteq Nat \ {0}
                           /\ \A r \in Requests : post[u][r] \in Nat
BY MaxTokensAssumption DEF TypeOK, Sessions, Tokens

LEMMA PagesSession ==
  ASSUME TypeOK, WaitInv, SessionInv, NEW t \in Tabs, Load(t) \/ LogIn(t) \/ LogOut(t)
  PROVE  SessionInv'
<1>1. CASE Load(t)
  <2>1. /\ OthersKept(t) /\ session'[t] = stored /\ spent'[t] = {} /\ \A r \in Requests : post'[t][r] = 0
        /\ UNCHANGED <<stored, storedBy, issued>>
    BY <1>1 DEF Load, OthersKept, TypeOK
  <2>2. StoreInv'
    BY <2>1, NoneAssumption DEF SessionInv, StoreInv, OthersKept
  <2>3. IssuedInv'
    BY <2>1, NumbersAreNaturals DEF SessionInv, IssuedInv, OthersKept
  <2>4. SpentInv'
    BY <2>1 DEF SessionInv, SpentInv, OthersKept
  <2>5. QED BY <2>2, <2>3, <2>4 DEF SessionInv
<1>2. CASE LogIn(t)
  <2>1. /\ OthersKept(t) /\ issued' = issued + 1 /\ UNCHANGED <<spent, post>>
        /\ session'[t].refresh \in {0, issued'} /\ stored' = session'[t] /\ storedBy' = t
    BY <1>2 DEF LogIn, setSession, requests, OthersKept, TypeOK
  <2>2. issued' \notin spent[t] /\ 0 \notin spent[t]
    BY <2>1, NumbersAreNaturals DEF SessionInv, IssuedInv
  <2>3. /\ issued' \in Nat /\ issued <= issued' /\ session'[t].refresh <= issued'
        /\ session'[t].refresh \notin spent'[t]
    BY <2>1, <2>2, NumbersAreNaturals
  <2>4. (\A n \in spent'[t] : n <= issued') /\ \A r \in Requests : post'[t][r] <= issued'
    BY <2>1, NumbersAreNaturals DEF SessionInv, IssuedInv
  <2>5. QED BY <2>1, <2>3, <2>4, WrittenSession DEF SessionInv, SpentInv
<1>3. CASE LogOut(t)
  <2>1. OthersKept(t) /\ UNCHANGED <<spent, post, issued>>
    BY <1>3, ClearSessionTypes DEF LogOut, requests, OthersKept
  <2>2. session'[t] = NoSession /\ stored' = session'[t] /\ storedBy' = t
    BY <1>3, ClearSessionTypes DEF LogOut
  <2>3. 0 \notin spent[t] /\ session'[t].refresh = 0
    BY <2>2, NumbersAreNaturals DEF NoSession
  <2>4. QED BY <2>1, <2>2, <2>3, WrittenSession, NumbersAreNaturals DEF SessionInv, SpentInv, IssuedInv
<1>4. QED BY <1>1, <1>2, <1>3

LEMMA RequestsSession ==
  ASSUME TypeOK, WaitInv, SessionInv, NEW t \in Tabs, NEW r \in Requests, Send(t, r) \/ Answered(t, r)
  PROVE  SessionInv'
<1>1. CASE Send(t, r) \/ Settle(t, r) \/ JoinRefresh(t, r)
  BY <1>1 DEF Send, Settle, JoinRefresh, store, SessionInv, StoreInv, IssuedInv, SpentInv
<1>2. CASE BeginRefresh(t, r)
  <2>1. /\ UNCHANGED <<session, stored, storedBy, issued>> /\ OthersKept(t)
        /\ refreshPromise'[t] = r /\ spent'[t] = spent[t] \cup {session[t].refresh}
        /\ \A x \in Requests : post'[t][x] = IF x = r THEN session[t].refresh ELSE post[t][x]
    BY <1>2 DEF BeginRefresh, Post, store, OthersKept, TypeOK
  <2>2. refreshPromise[t] = None /\ session[t].refresh \notin spent[t]
    BY <1>2 DEF BeginRefresh, SessionInv, SpentInv
  <2>3. r # None
    BY NoneAssumption
  <2>4. StoreInv'
    BY <2>1 DEF SessionInv, StoreInv
  <2>5. IssuedInv'
    BY <2>1 DEF SessionInv, IssuedInv, OthersKept
  <2>6. SpentInv'
    BY <2>1, <2>3 DEF SessionInv, SpentInv, OthersKept
  <2>7. QED BY <2>4, <2>5, <2>6 DEF SessionInv
<1>3. CASE NothingToRefresh(t, r)
  <2>1. OthersKept(t) /\ UNCHANGED <<spent, post, issued>>
    BY <1>3, ClearSessionTypes DEF NothingToRefresh, OthersKept
  <2>2. session'[t] = NoSession /\ stored' = session'[t] /\ storedBy' = t
    BY <1>3, ClearSessionTypes DEF NothingToRefresh
  <2>3. 0 \notin spent[t] /\ session'[t].refresh = 0
    BY <2>2, NumbersAreNaturals DEF NoSession
  <2>4. QED BY <2>1, <2>2, <2>3, WrittenSession, NumbersAreNaturals DEF SessionInv, SpentInv, IssuedInv
<1>4. QED BY <1>1, <1>2, <1>3 DEF Answered

LEMMA AnswersSession ==
  ASSUME TypeOK, WaitInv, SessionInv, NEW t \in Tabs, NEW r \in Requests, RefreshAnswered(t, r)
  PROVE  SessionInv'
<1>1. /\ post[t][r] # 0 /\ post[t][r] \in spent[t] /\ post' = [post EXCEPT ![t][r] = 0]
      /\ refreshPromise' = [refreshPromise EXCEPT ![t] = None]
  BY DEF RefreshAnswered, Refreshed, RefreshFailed, EndRefresh, SessionInv, SpentInv
<1>2. \A x \in Requests : post'[t][x] = 0
  BY <1>1 DEF WaitInv, WaitsIn, TypeOK
<1>3. ASSUME NEW rotate \in BOOLEAN, Refreshed(t, r, rotate)
      PROVE  SessionInv'
  <2>1. /\ issued' = issued + 1
        /\ spent' = [spent EXCEPT ![t] = IF rotate THEN spent[t] ELSE spent[t] \ {post[t][r]}]
        /\ setSession(t, issued', IF rotate THEN issued' ELSE post[t][r])
    BY <1>3 DEF Refreshed
  <2>2. /\ OthersKept(t) /\ stored' = session'[t] /\ storedBy' = t
        /\ session'[t] = [access |-> issued', refresh |-> IF rotate THEN issued' ELSE post[t][r]]
    BY <1>1, <2>1 DEF setSession, OthersKept, TypeOK
  <2>3. spent'[t] \subseteq spent[t] /\ (~rotate => post[t][r] \notin spent'[t])
    BY <2>1 DEF TypeOK
  <2>4. /\ issued' \in Nat /\ issued <= issued' /\ issued' \notin spent[t] /\ issued' # 0
        /\ \A n \in spent'[t] : n <= issued'
        /\ post[t][r] \in Nat /\ post[t][r] <= issued'
    BY <2>1, <2>3, NumbersAreNaturals DEF SessionInv, IssuedInv
  <2>5. session'[t].access = issued' /\ session'[t].refresh = IF rotate THEN issued' ELSE post[t][r]
    BY <2>2
  <2>6. session'[t].refresh <= issued' /\ session'[t].refresh \notin spent'[t]
    BY <1>1, <2>3, <2>4, <2>5
  <2>7. QED BY <1>2, <2>2, <2>4, <2>6, WrittenSession
<1>4. CASE RefreshFailed(t, r)
  <2>1. OthersKept(t) /\ UNCHANGED <<spent, issued>>
    BY <1>1, <1>4, ClearSessionTypes DEF RefreshFailed, OthersKept, TypeOK
  <2>2. session'[t] = NoSession /\ stored' = session'[t] /\ storedBy' = t
    BY <1>4, ClearSessionTypes DEF RefreshFailed
  <2>3. 0 \notin spent[t] /\ session'[t].refresh = 0
    BY <2>2, NumbersAreNaturals DEF NoSession
  <2>4. QED BY <1>2, <2>1, <2>2, <2>3, WrittenSession, NumbersAreNaturals DEF SessionInv, SpentInv, IssuedInv
<1>5. QED BY <1>3, <1>4 DEF RefreshAnswered

LEMMA NextSession == TypeOK /\ WaitInv /\ SessionInv /\ [Next]_vars => SessionInv'
<1>1. SessionInv /\ UNCHANGED vars => SessionInv'
  BY DEF vars, store, requests, SessionInv, StoreInv, IssuedInv, SpentInv
<1>2. QED BY <1>1, PagesSession, RequestsSession, AnswersSession DEF Next

LEMMA SessionsHold == Spec => [](TypeOK /\ WaitInv /\ SessionInv)
BY InitTypes, InitWaits, InitSession, NextTypes, NextWaits, NextSession, PTL DEF Spec

\* PresentedOnce, for every number of requests of a tab that are answered 401.
THEOREM TokensPresentedOnce == Spec => PresentedOnce
<1>1. TypeOK /\ SessionInv /\ [Next]_vars =>
        [\A t \in Tabs : \A r \in Requests : post'[t][r] \notin {0, post[t][r]} => post'[t][r] \notin spent[t]]_vars
  <2> SUFFICES ASSUME TypeOK, SessionInv, Next, NEW t \in Tabs, NEW r \in Requests,
                      post'[t][r] \notin {0, post[t][r]}
               PROVE  post'[t][r] \notin spent[t]
    OBVIOUS
  <2>1. PICK u \in Tabs :
          \/ Load(u) \/ LogIn(u) \/ LogOut(u)
          \/ \E x \in Requests : Send(u, x) \/ Answered(u, x) \/ RefreshAnswered(u, x)
    BY DEF Next
  <2>2. ASSUME NEW x \in Requests, BeginRefresh(u, x)
        PROVE  post'[t][r] \notin spent[t]
    <3>1. u = t /\ x = r /\ post'[t][r] = session[t].refresh
      BY <2>2 DEF BeginRefresh, Post, TypeOK
    <3>2. refreshPromise[t] = None
      BY <2>2, <3>1 DEF BeginRefresh
    <3>3. QED BY <3>1, <3>2 DEF SessionInv, SpentInv
  <2>3. ASSUME NEW x \in Requests, RefreshAnswered(u, x)
        PROVE  FALSE
    BY <2>3 DEF RefreshAnswered, Refreshed, RefreshFailed, EndRefresh, TypeOK
  <2>4. CASE Load(u)
    BY <2>4 DEF Load, TypeOK
  <2>5. ASSUME UNCHANGED post
        PROVE  FALSE
    BY <2>5
  <2>6. QED
    BY <2>1, <2>2, <2>3, <2>4, <2>5
       DEF LogIn, LogOut, Send, Answered, Settle, JoinRefresh, NothingToRefresh, requests
<1>2. QED BY <1>1, SessionsHold, PTL DEF Spec, PresentedOnce

\* LogoutHolds, however the logins, logouts, refreshes and loads of the tabs interleave.
THEOREM LogoutsHold == Spec => LogoutHolds
<1>1. TypeOK /\ WaitInv /\ SessionInv /\ [Next]_vars => [ComesBackProperly]_vars
  <2> SUFFICES ASSUME TypeOK, WaitInv, SessionInv, Next, NEW t \in Tabs,
                      session[t].access = 0, session'[t].access # 0
               PROVE  LogIn(t) \/ refreshPromise[t] # None \/ (storedBy # t /\ session'[t] = stored)
    BY DEF ComesBackProperly
  <2>1. PICK u \in Tabs :
          \/ Load(u) \/ LogIn(u) \/ LogOut(u)
          \/ \E x \in Requests : Send(u, x) \/ Answered(u, x) \/ RefreshAnswered(u, x)
    BY DEF Next
  <2>2. CASE Load(u)
    BY <2>2 DEF Load, TypeOK, SessionInv, StoreInv
  <2>3. CASE LogIn(u)
    BY <2>3 DEF LogIn, setSession, TypeOK
  <2>4. CASE LogOut(u)
    BY <2>4, ClearSessionTypes DEF LogOut, NoSession
  <2>5. ASSUME NEW x \in Requests, Send(u, x) \/ Answered(u, x)
        PROVE  FALSE
    <3>1. CASE NothingToRefresh(u, x)
      BY <3>1, ClearSessionTypes DEF NothingToRefresh, NoSession
    <3>2. CASE UNCHANGED session
      BY <3>2
    <3>3. QED BY <2>5, <3>1, <3>2 DEF Send, Answered, Settle, JoinRefresh, BeginRefresh, Post, store
  <2>6. ASSUME NEW x \in Requests, RefreshAnswered(u, x)
        PROVE  refreshPromise[t] # None
    <3>1. u = t
      BY <2>6 DEF RefreshAnswered, Refreshed, RefreshFailed, clearSession, setSession, TypeOK
    <3>2. post[t][x] # 0
      BY <2>6, <3>1 DEF RefreshAnswered, Refreshed, RefreshFailed, EndRefresh
    <3>3. QED BY <3>2, NoneAssumption DEF WaitInv, WaitsIn
  <2>7. QED BY <2>1, <2>2, <2>3, <2>4, <2>5, <2>6
<1>2. QED BY <1>1, SessionsHold, PTL DEF Spec, LogoutHolds
=============================================================================
