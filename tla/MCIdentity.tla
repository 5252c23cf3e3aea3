----------------------------- MODULE MCIdentity -----------------------------
(***************************************************************************)
(* The three services that say what somebody sees of somebody else: the    *)
(* resolver, the reveal of a chat, and the endpoints for a user's scopes.  *)
(* They have no state in common, so one run checks them side by side: a    *)
(* behaviour is one of either part, while the others stay where they were. *)
(***************************************************************************)
EXTENDS IdentityResolver, IdentityReveal, IdentityScopes, TLC

VARIABLE part \* the one that takes steps

identityVars == <<part, vars, revealVars, scopesVars>>

\* Rows to start from matter to the resolver alone, and names to the scopes alone.
IdentityInit ==
  /\ part \in {"resolver", "reveal", "scopes"}
  /\ Init /\ RevealInit /\ ScopesInit
  /\ part # "resolver" =>
       \A u \in Subjects : exact[u] = None /\ chatScopes[u] = {} /\ defaults[u] = <<>>
  /\ part # "scopes" => names = "none"

IdentityNext ==
  \/ part = "resolver" /\ Next /\ UNCHANGED <<part, revealVars, scopesVars>>
  \/ part = "reveal" /\ RevealNext /\ UNCHANGED <<part, vars, scopesVars>>
  \/ part = "scopes" /\ ScopesNext /\ UNCHANGED <<part, vars, revealVars>>

IdentitySpec == IdentityInit /\ [][IdentityNext]_identityVars

\* Subjects are alike, and so are resolutions.
Symmetry == Permutations(Subjects) \cup Permutations(Tasks)
=============================================================================
