------------------------------- MODULE WebPages -------------------------------
(***************************************************************************)
(* The two pages a browser tab polls the feed API from: FeedPage and       *)
(* PostPage.  A tab shows one of them at a time, and what it shows is      *)
(* another query than what the other shows, so they have nothing in common *)
(* but whether the API is reached and serves the user.                     *)
(***************************************************************************)
EXTENDS FeedPage

CONSTANTS
  Tabs, \* the pages the tab may show
  Mutations, MaxOthers, Asked \* of PostPage

VARIABLES
  tab, \* the page that is shown
  mine, others, thread, deleted, cache, fetches, mutation, behind \* of PostPage

Post == INSTANCE PostPage

ASSUME PostAssumption ==
  /\ None \notin Post!Views \cup Post!Sent /\ Asked \notin Post!Views \cup {None}
  /\ MaxOthers \in Nat /\ Tabs \subseteq {"feed", "post"}

postVars == <<mine, others, thread, deleted, cache, fetches, mutation, behind>>

FeedStep(A) == tab = "feed" /\ A /\ UNCHANGED <<tab, postVars>>

PostStep(A) == tab = "post" /\ A /\ UNCHANGED <<tab, server, data, fetch, mutations>>

TabInit == tab \in Tabs /\ Init /\ Post!Init

TabNext == FeedStep(Next) \/ PostStep(Post!Next)

tabVars == <<vars, postVars, tab>>

\* What is fair of a page is fair while it is shown.
TabSpec ==
  /\ TabInit /\ [][TabNext]_tabVars
  /\ WF_tabVars(FeedStep(FetchStep))
  /\ \A k \in Post!Queries : WF_tabVars(PostStep(Post!FetchStep(k)))

-----------------------------------------------------------------------------
(* Properties: ShownOnce and NothingSkipped of FeedPage, and these *)

\* The state of both pages is well typed.
TabTypeOK == TypeOK /\ Post!TypeOK

\* A settled page of a post shows what the server has.
SettledIsShown == Post!SettledIsShown

\* The page that stays in view ends up with what the server has: entries that were never
\* created go, restored snapshots are replaced, and what the page was not told it learns.
\* A page whose fetches fail for good is stuck: the user is no member, or the post is
\* deleted.
PagesCatchUp ==
  /\ tab = "feed" => PageCatchesUp
  /\ tab = "post" => Post!PageShowsServer
=============================================================================
