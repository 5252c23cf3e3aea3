----------------------------- MODULE IdentityScopes -----------------------------
(***************************************************************************)
(* The scope management endpoints (identity-scope/app.js): a user chooses  *)
(* how much it shows by default, in its Cirvias and in its chats.  A PUT   *)
(* validates the request and merges it into the stored scope; a DELETE     *)
(* removes a scope that is not the default.                                *)
(*                                                                         *)
(* The handlers are synchronous and a user changes its own scopes only, so *)
(* the scopes of one user are the state.  The event that a PUT for a chat  *)
(* emits carries ids only, and no code of the repository listens to it: it *)
(* is left out.                                                            *)
(***************************************************************************)
CONSTANTS
  Cirvias,   \* Cirvias the user is a member of
  Chats,     \* chats the user takes part in
  NoScope

VARIABLES
  names,     \* what the profile has: "none", "valid" ones, or one that is refused
  scopes     \* per place: the stored scope, or NoScope

scopesVars == <<names, scopes>>

IdentityLevel == {"ANONYMOUS", "PARTIAL", "FULL"}

\* One toggle of each kind: those every level allows (showAgeRange, showGender), those
\* that PARTIAL allows too (showCity, showState, useChosenName), those of FULL only
\* (showProfilePhoto, showRealName).
Toggles == {"showGender", "showCity", "showRealName"}

Default == "GLOBAL_DEFAULT"

Places == {Default} \cup Cirvias \cup Chats

ASSUME PlacesAssumption == Default \notin Cirvias \cup Chats /\ Cirvias \cap Chats = {}

Scopes == [identityLevel : IdentityLevel, toggles : SUBSET Toggles]

ASSUME NoScopeAssumption == NoScope \notin Scopes

-----------------------------------------------------------------------------
(* services.js *)

\* validateLevelToggleConsistency: what a request may enable along with a level.
Allowed(level) ==
  CASE level = "ANONYMOUS" -> {"showGender"}
    [] level = "PARTIAL"   -> {"showGender", "showCity"}
    [] level = "FULL"      -> Toggles

\* A name that is refused is refused at every level, none at all above ANONYMOUS.
NamesFit(level) == names # "refused" /\ (level # "ANONYMOUS" => names = "valid")

\* Mutant of Valid: the level is not checked against the toggles.
ValidByNames(level, on) == NamesFit(level)

\* A request names the level and those toggles it turns on or off.
Valid(level, on) == on \subseteq Allowed(level) /\ NamesFit(level)

Stored(place) == IF scopes[place] = NoScope THEN {} ELSE scopes[place].toggles

\* upsertScope: toggles the request does not name keep their values.
Merged(place, level, on, off) ==
  [identityLevel |-> level, toggles |-> (Stored(place) \ off) \cup on]

-----------------------------------------------------------------------------
(* app.js *)

PutScope(place, level, on, off) ==
  /\ Valid(level, on)
  /\ scopes' = [scopes EXCEPT ![place] = Merged(place, level, on, off)]
  /\ UNCHANGED names

DeleteScope(place) ==
  /\ scopes[place] # NoScope
  /\ place # Default
  /\ scopes' = [scopes EXCEPT ![place] = NoScope]
  /\ UNCHANGED names

-----------------------------------------------------------------------------
\* No endpoint of the app writes the profile.
ScopesInit ==
  /\ names \in {"none", "valid", "refused"}
  /\ scopes = [place \in Places |-> NoScope]

ScopesNext ==
  \E place \in Places :
    \/ \E level \in IdentityLevel, on \in SUBSET Toggles : \E off \in SUBSET (Toggles \ on) :
         PutScope(place, level, on, off)
    \/ DeleteScope(place)

ScopesSpec == ScopesInit /\ [][ScopesNext]_scopesVars

-----------------------------------------------------------------------------
(* Properties *)

\* The toggles that the scope of a place has on although its level does not allow them.
Excess(place) ==
  IF scopes[place] = NoScope THEN {} ELSE Stored(place) \ Allowed(scopes[place].identityLevel)

\* "ANONYMOUS only allows showAgeRange and showGender", "PARTIAL cannot enable
\* showProfilePhoto or showRealName": a stored scope has no toggle on that its level
\* does not allow.  It may: upsertScope merges what the request does not name.
TogglesFitLevel == \A place \in Places : Excess(place) = {}

\* What remains of that rule: no request turns on a toggle beyond the level it stores.
\* Whatever exceeds a level was on before in the same scope, which a request has lowered;
\* a scope that is created anew, after a DELETE too, fits its level.
ExcessIsKept == [][\A place \in Places : Excess(place)' \subseteq Stored(place)]_scopesVars
=============================================================================
