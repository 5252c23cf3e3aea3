------------------------------- MODULE WebSession -------------------------------
(***************************************************************************)
(* The session of a browser: per tab the store with the two tokens, which  *)
(* is persisted in the local storage all tabs share, and the axios         *)
(* interceptors of lib/api/client.ts that refresh the session when a       *)
(* request is answered 401 and then send it once more.                     *)
(*                                                                         *)
(* A step is what runs between two events of a tab: an answer is handled   *)
(* together with the continuations it releases.  A tab reads the local     *)
(* storage when it is loaded and writes it whenever its store changes.     *)
(* The authorization server is external; it may refuse any token and       *)
(* rotate refresh tokens.                                                  *)
(***************************************************************************)
EXTENDS Naturals

CONSTANTS
  Tabs,
  Requests,    \* requests of a tab that may be in flight at a time
  MaxTokens,   \* bound of the model: sessions the server issues
  None

ASSUME MaxTokensAssumption == MaxTokens \in Nat

ASSUME NoneAssumption == None \notin Requests \cup Tabs

VARIABLES
  session,         \* per tab, the tokens of its store: the number of the session that issued each, 0 for none
  stored,          \* the tokens in the local storage
  request,         \* per tab and request: its stage and, while it waits, whose refresh it awaits
  refreshPromise,  \* per tab: the request that began the refresh in progress, or None
  post,            \* per tab and request: the refresh token it has posted and awaits, or 0
  issued,          \* sessions issued so far
  storedBy,        \* history: the tab that last wrote the local storage, or None
  spent            \* history: refresh tokens a tab has posted since it was loaded and not been left with

store    == <<session, stored, storedBy>>
requests == <<request, refreshPromise, post, spent>>
vars == <<store, requests, issued>>

Tokens == 0 .. MaxTokens

Sessions == [access : Tokens, refresh : Tokens]

NoSession == [access |-> 0, refresh |-> 0]

Stages == {"none", "sent", "waiting", "sentAgain"}

Unused == [stage |-> "none", awaits |-> None]

setSession(t, access, refresh) ==
  /\ session' = [session EXCEPT ![t] = [access |-> access, refresh |-> refresh]]
  /\ stored' = [access |-> access, refresh |-> refresh]
  /\ storedBy' = t

\* Mutant of clearSession: the storage keeps what the tab has forgotten.
clearInMemory(t) ==
  /\ session' = [session EXCEPT ![t] = NoSession]
  /\ UNCHANGED <<stored, storedBy>>

clearSession(t) == setSession(t, 0, 0)

-----------------------------------------------------------------------------
(* The pages *)

\* A tab is opened or loaded again: nobody waits any more for what it had sent.
Load(t) ==
  /\ session' = [session EXCEPT ![t] = stored]
  /\ request' = [request EXCEPT ![t] = [r \in Requests |-> Unused]]
  /\ refreshPromise' = [refreshPromise EXCEPT ![t] = None]
  /\ post' = [post EXCEPT ![t] = [r \in Requests |-> 0]]
  /\ spent' = [spent EXCEPT ![t] = {}]
  /\ UNCHANGED <<stored, storedBy, issued>>

\* A login or a verified e-mail address; the server may issue no refresh token.
LogIn(t) ==
  /\ issued < MaxTokens
  /\ issued' = issued + 1
  /\ \E refresh \in {0, issued'} : setSession(t, issued', refresh)
  /\ UNCHANGED requests

LogOut(t) ==
  /\ clearSession(t)
  /\ UNCHANGED <<requests, issued>>

Send(t, r) ==
  /\ request[t][r].stage = "none"
  /\ request' = [request EXCEPT ![t][r] = [stage |-> "sent", awaits |-> None]]
  /\ UNCHANGED <<store, refreshPromise, post, spent, issued>>

-----------------------------------------------------------------------------
(* The response interceptor *)

\* Success, or an error other than the first 401.
Settle(t, r) ==
  /\ request[t][r].stage \in {"sent", "sentAgain"}
  /\ request' = [request EXCEPT ![t][r] = Unused]
  /\ UNCHANGED <<store, refreshPromise, post, spent, issued>>

JoinRefresh(t, r) ==
  /\ request[t][r].stage = "sent"
  /\ refreshPromise[t] # None
  /\ request' = [request EXCEPT ![t][r] = [stage |-> "waiting", awaits |-> refreshPromise[t]]]
  /\ UNCHANGED <<store, refreshPromise, post, spent, issued>>

Post(t, r) ==
  LET token == session[t].refresh
  IN /\ token # 0
     /\ request' = [request EXCEPT ![t][r] = [stage |-> "waiting", awaits |-> r]]
     /\ refreshPromise' = [refreshPromise EXCEPT ![t] = r]
     /\ post' = [post EXCEPT ![t][r] = token]
     /\ spent' = [spent EXCEPT ![t] = @ \cup {token}]
     /\ UNCHANGED <<store, issued>>

\* Mutant of BeginRefresh: every 401 refreshes.
BeginAnyRefresh(t, r) ==
  /\ request[t][r].stage = "sent"
  /\ Post(t, r)

BeginRefresh(t, r) ==
  /\ request[t][r].stage = "sent"
  /\ refreshPromise[t] = None
  /\ Post(t, r)

\* Without a refresh token refreshAccessToken ends at once.
NothingToRefresh(t, r) ==
  /\ request[t][r].stage = "sent"
  /\ refreshPromise[t] = None
  /\ session[t].refresh = 0
  /\ clearSession(t)
  /\ request' = [request EXCEPT ![t][r] = Unused]
  /\ UNCHANGED <<refreshPromise, post, spent, issued>>

\* The requests of a tab, when those that awaited the refresh of r have gone on.
Released(t, r, after) ==
  [x \in Requests |-> IF request[t][x].stage = "waiting" /\ request[t][x].awaits = r THEN after ELSE request[t][x]]

Resent == [stage |-> "sentAgain", awaits |-> None]

EndRefresh(t, r, after) ==
  /\ post[t][r] # 0
  /\ post' = [post EXCEPT ![t][r] = 0]
  /\ refreshPromise' = [refreshPromise EXCEPT ![t] = None]
  /\ request' = [request EXCEPT ![t] = Released(t, r, after)]

\* The answer replaces the session whatever it is by now.
Refreshed(t, r, rotate) ==
  /\ EndRefresh(t, r, Resent)
  /\ issued < MaxTokens
  /\ issued' = issued + 1
  /\ setSession(t, issued', IF rotate THEN issued' ELSE post[t][r])
  /\ spent' = [spent EXCEPT ![t] = IF rotate THEN @ ELSE @ \ {post[t][r]}]

\* Mutant of RefreshFailed: sent through apiClient, the refresh that is refused
\* awaits in its own interceptor the refresh in progress.
RefreshAwaitsItself(t, r) ==
  /\ post[t][r] # 0
  /\ post' = [post EXCEPT ![t][r] = 0]
  /\ UNCHANGED <<store, request, refreshPromise, spent, issued>>

\* A refusal, an answer without a token or a network error.
RefreshFailed(t, r) ==
  /\ EndRefresh(t, r, Unused)
  /\ clearSession(t)
  /\ UNCHANGED <<spent, issued>>

-----------------------------------------------------------------------------
Init ==
  /\ session = [t \in Tabs |-> NoSession]
  /\ stored = NoSession
  /\ storedBy = None
  /\ request = [t \in Tabs |-> [r \in Requests |-> Unused]]
  /\ refreshPromise = [t \in Tabs |-> None]
  /\ post = [t \in Tabs |-> [r \in Requests |-> 0]]
  /\ issued = 0
  /\ spent = [t \in Tabs |-> {}]

Answered(t, r) == Settle(t, r) \/ JoinRefresh(t, r) \/ BeginRefresh(t, r) \/ NothingToRefresh(t, r)

RefreshAnswered(t, r) == (\E rotate \in BOOLEAN : Refreshed(t, r, rotate)) \/ RefreshFailed(t, r)

Next ==
  \E t \in Tabs :
    \/ Load(t) \/ LogIn(t) \/ LogOut(t)
    \/ \E r \in Requests : Send(t, r) \/ Answered(t, r) \/ RefreshAnswered(t, r)

Spec == Init /\ [][Next]_vars

\* Every call over the network ends, with an answer or an error.
FairSpec ==
  /\ Spec
  /\ \A t \in Tabs : \A r \in Requests : WF_vars(Answered(t, r)) /\ WF_vars(RefreshAnswered(t, r))

-----------------------------------------------------------------------------
(* Properties *)

\* Stores, requests and tokens hold values of their types.
TypeOK ==
  /\ session \in [Tabs -> Sessions]
  /\ stored \in Sessions
  /\ storedBy \in Tabs \cup {None}
  /\ request \in [Tabs -> [Requests -> [stage : Stages, awaits : Requests \cup {None}]]]
  /\ refreshPromise \in [Tabs -> Requests \cup {None}]
  /\ post \in [Tabs -> [Requests -> Tokens]]
  /\ issued \in Tokens
  /\ spent \in [Tabs -> SUBSET (1 .. MaxTokens)]

\* A request that awaits a refresh awaits one whose answer is still to come,
\* and a refresh somebody may join is in flight (client.ts:87-91).
WaiterHasRefresh ==
  \A t \in Tabs : \A r \in Requests :
    /\ request[t][r].stage = "waiting" => post[t][request[t][r].awaits] # 0
    /\ post[t][r] # 0 <=> refreshPromise[t] = r

\* However many requests of a tab are answered 401, and whatever logins and logouts come
\* between, it posts no refresh token again that the server has replaced: the second
\* post would be refused and would end the session (client.ts:87).  Another tab, or the
\* same one loaded again, may.
PresentedOnce ==
  [][\A t \in Tabs : \A r \in Requests :
       post'[t][r] \notin {0, post[t][r]} => post'[t][r] \notin spent[t]]_vars

ComesBackProperly ==
  \A t \in Tabs : session[t].access = 0 /\ session'[t].access # 0 =>
    \/ LogIn(t)
    \/ refreshPromise[t] # None
    \/ storedBy # t /\ session'[t] = stored

\* A tab that is logged out is logged in again only by its own login, by the answer to
\* its own refresh that was in flight (client.ts:49), or when it is loaded after another
\* tab has stored a session; its own logout outlives it (auth-store.ts:35).
LogoutHolds == [][ComesBackProperly]_vars

\* Every request ends for the page that made it, through any refresh
\* (client.ts:77-104).
RequestsSettle ==
  \A t \in Tabs : \A r \in Requests : request[t][r].stage # "none" ~> request[t][r].stage = "none"
=============================================================================
