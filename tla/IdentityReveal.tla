---------------------------- MODULE IdentityReveal ----------------------------
(***************************************************************************)
(* Revealing identities in a one-to-one chat: ChatRevealService with its   *)
(* in-memory store, the resolver that decides whether a viewer sees the    *)
(* full identity of the other participant, and ChatIdentityGateway, which  *)
(* calls the listeners that the participants have subscribed.  Both are    *)
(* objects of one process: nothing in the repository connects the gateway  *)
(* to the Socket.IO rooms of the chat pages, and the pages do not ask this *)
(* resolver for the identities they show.                                  *)
(*                                                                         *)
(* Records and listeners are keyed by chat, hence one chat is modelled.    *)
(* Every service call is synchronous, so each is one action.  A call on a  *)
(* group chat throws before it reads anything (assertOneToOne).            *)
(***************************************************************************)
EXTENDS Naturals

CONSTANT Listeners  \* functions that a participant may subscribe

VARIABLES
  reveal,    \* reveal[u]: status of the record from u to the other participant
  scope,     \* scope[v]: what setScope stored for viewer v
  consent,   \* history: the last thing u said was not "revoke"
  heard      \* heard[v][l]: the identity of the other that listener l of v was told last

revealVars == <<reveal, scope, consent, heard>>

\* participantAId and participantBId.
Participants == {"A", "B"}

getOther(u) == IF u = "A" THEN "B" ELSE "A"

RevealStatus ==
  {"NONE", "ONE_SIDED_A_TO_B", "ONE_SIDED_B_TO_A", "MUTUAL_PENDING", "MUTUAL_CONFIRMED",
   "REVOKED_BY_A", "REVOKED_BY_B", "REVOKED_MUTUAL"}

StoredScopes == {"GLOBAL_DEFAULT", "FULL"}

\* NONE stands for a record that does not exist: no handler writes NONE.
Revoked == {"REVOKED_BY_A", "REVOKED_BY_B", "REVOKED_MUTUAL"}

isOneSided(status) == status \in {"ONE_SIDED_A_TO_B", "ONE_SIDED_B_TO_A"}

getDirectionalStatus(u) == IF u = "A" THEN "ONE_SIDED_A_TO_B" ELSE "ONE_SIDED_B_TO_A"

revokedBy(u) == IF u = "A" THEN "REVOKED_BY_A" ELSE "REVOKED_BY_B"

-----------------------------------------------------------------------------
(* What the resolver and the status endpoint answer *)

\* With these records the other participant sees the full identity of u.
isFullForViewer(records, u) ==
  \/ isOneSided(records[u])
  \/ records[u] = "MUTUAL_CONFIRMED"
  \/ records[getOther(u)] = "MUTUAL_CONFIRMED"

\* The identity of u as the other participant sees it.
resolveIdentityFor(records, u) ==
  IF isFullForViewer(records, u) THEN "FULL" ELSE "GLOBAL_DEFAULT"

\* Mutant of canRevoke: a pending request is nothing to revoke.
canRevokeGranted(u) == isOneSided(reveal[u]) \/ reveal[u] = "MUTUAL_CONFIRMED"

canRevoke(u) == reveal[u] \notin {"NONE"} \cup Revoked

-----------------------------------------------------------------------------
(* Effects the service calls share *)

Says(u, word) == consent' = [consent EXCEPT ![u] = word]

\* What a listener holds that is not subscribed, and one that has been told nothing.
Unsubscribed == "unsubscribed"
Nothing      == "nothing"

Subscribed(v, l) == heard[v][l] # Unsubscribed

\* Both participants' listeners are called with the identity of u: news to the other's.
emitToChat(u, newIdentity) ==
  heard' = [v \in Participants |-> [l \in Listeners |->
              IF v = getOther(u) /\ Subscribed(v, l) THEN newIdentity ELSE heard[v][l]]]

-----------------------------------------------------------------------------
(* ChatRevealService *)

\* The identity is resolved when the own record is written and the other's is not.
Reveal(u) ==
  LET o      == getOther(u)
      mutual == isOneSided(reveal[o])
      own    == [reveal EXCEPT ![u] = IF mutual THEN "MUTUAL_CONFIRMED" ELSE getDirectionalStatus(u)]
  IN /\ reveal' = [own EXCEPT ![o] = IF mutual THEN "MUTUAL_CONFIRMED" ELSE @]
     /\ scope' = [scope EXCEPT ![o] = "FULL", ![u] = IF mutual THEN "FULL" ELSE @]
     /\ emitToChat(u, resolveIdentityFor(own, u))
     /\ Says(u, TRUE)

\* The request replaces whatever record u had; the other participant is notified,
\* but no event goes to the chat.
RequestMutualReveal(u) ==
  /\ reveal' = [reveal EXCEPT ![u] = "MUTUAL_PENDING"]
  /\ Says(u, TRUE)
  /\ UNCHANGED <<scope, heard>>

\* Mutant of AcceptMutualReveal: stores the scope of the caller only.
AcceptForCaller(u) ==
  /\ reveal[getOther(u)] = "MUTUAL_PENDING"
  /\ reveal' = [v \in Participants |-> "MUTUAL_CONFIRMED"]
  /\ scope' = [scope EXCEPT ![u] = "FULL"]
  /\ Says(u, TRUE)
  /\ UNCHANGED heard

\* The event carries no identity, only that the reveal is mutual now.
AcceptMutualReveal(u) ==
  /\ reveal[getOther(u)] = "MUTUAL_PENDING"
  /\ reveal' = [v \in Participants |-> "MUTUAL_CONFIRMED"]
  /\ scope' = [v \in Participants |-> "FULL"]
  /\ Says(u, TRUE)
  /\ UNCHANGED heard

\* Mutant of RevokedRecords: the other side of a mutual reveal stays confirmed.
RevokedOwnSide(u) == [reveal EXCEPT ![u] = revokedBy(u)]

\* The records after u's revoke: what was confirmed by both is revoked on both sides.
RevokedRecords(u) ==
  [reveal EXCEPT ![u] = revokedBy(u),
                 ![getOther(u)] = IF @ = "MUTUAL_CONFIRMED" THEN "REVOKED_MUTUAL" ELSE @]

\* Mutant of RevokeReveal: the identity is resolved before the records are written.
RevokeResolvedFirst(u) ==
  /\ reveal[u] # "NONE"
  /\ reveal' = RevokedRecords(u)
  /\ scope' = [scope EXCEPT ![getOther(u)] = "GLOBAL_DEFAULT"]
  /\ emitToChat(u, resolveIdentityFor(reveal, u))
  /\ Says(u, FALSE)

RevokeReveal(u) ==
  /\ reveal[u] # "NONE"
  /\ reveal' = RevokedRecords(u)
  /\ scope' = [scope EXCEPT ![getOther(u)] = "GLOBAL_DEFAULT"]
  /\ emitToChat(u, resolveIdentityFor(RevokedRecords(u), u))
  /\ Says(u, FALSE)

-----------------------------------------------------------------------------
(* ChatIdentityGateway: subscribe throws for anybody but the participants *)

\* Subscribing a listener again changes nothing.
Subscribe(v, l) ==
  /\ ~Subscribed(v, l)
  /\ heard' = [heard EXCEPT ![v][l] = Nothing]
  /\ UNCHANGED <<reveal, scope, consent>>

\* The function that subscribe returned is called.
Unsubscribe(v, l) ==
  /\ Subscribed(v, l)
  /\ heard' = [heard EXCEPT ![v][l] = Unsubscribed]
  /\ UNCHANGED <<reveal, scope, consent>>

-----------------------------------------------------------------------------
RevealInit ==
  /\ reveal = [u \in Participants |-> "NONE"]
  /\ scope = [v \in Participants |-> "GLOBAL_DEFAULT"]
  /\ consent = [u \in Participants |-> FALSE]
  /\ heard = [v \in Participants |-> [l \in Listeners |-> Unsubscribed]]

RevealNext ==
  \E u \in Participants :
    \/ Reveal(u)
    \/ RequestMutualReveal(u)
    \/ AcceptMutualReveal(u)
    \/ RevokeReveal(u)
    \/ \E l \in Listeners : Subscribe(u, l) \/ Unsubscribe(u, l)

RevealSpec == RevealInit /\ [][RevealNext]_revealVars

-----------------------------------------------------------------------------
(* Properties *)

\* Every record, stored scope and listener holds a value of its type.
RevealTypeOK ==
  /\ reveal \in [Participants -> RevealStatus]
  /\ scope \in [Participants -> StoredScopes]
  /\ consent \in [Participants -> BOOLEAN]
  /\ heard \in [Participants -> [Listeners -> StoredScopes \cup {Unsubscribed, Nothing}]]

\* The full identity of u is resolved for the other participant only while u stands
\* by it: whatever the two call in which order, after u's revoke it stays hidden
\* until u itself reveals, requests or accepts again.
VisibleOnlyWithConsent == \A u \in Participants : isFullForViewer(reveal, u) => consent[u]

\* Whoever is visible can withdraw: the status endpoint offers the revoke button and
\* revokeReveal finds a record, even if visibility comes from the other's record only.
VisibleCanRevoke == \A u \in Participants : isFullForViewer(reveal, u) => canRevoke(u)

\* The scope stored for a viewer is never narrower than what the resolver answers.
StoredScopeCoversResolver ==
  \A u \in Participants : isFullForViewer(reveal, u) => scope[getOther(u)] = "FULL"

\* A withdrawal is heard: no listener goes on holding the full identity of somebody
\* who has revoked and said nothing since, whichever of the two records made it
\* visible and whenever the listener subscribed.
WithdrawalIsHeard ==
  \A v \in Participants, l \in Listeners : heard[v][l] = "FULL" => consent[getOther(v)]
=============================================================================
