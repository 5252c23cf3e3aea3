------------------------------- MODULE PostPage -------------------------------
(***************************************************************************)
(* The page of one post: two queries, the post and its comments, fetched   *)
(* again every 30 seconds; likes of the post and of a comment, which are   *)
(* shown before the server knows and taken back when it fails; and new     *)
(* comments, which are not.  Requests overtake each other, and one whose   *)
(* answer is lost may still be served.                                     *)
(*                                                                         *)
(* React Query is external: cancelQueries gives up the fetch of a query,   *)
(* invalidateQueries starts one in its place unless it is the first, and   *)
(* an answer replaces the data.  Meanwhile the post may be deleted, the    *)
(* user may lose membership of its Cirvia, and the network may be down: a  *)
(* fetch then fails, and the page keeps what it has.  One comment stands   *)
(* for those that are liked; the number of comments for the thread.        *)
(***************************************************************************)
EXTENDS Integers, FiniteSets

CONSTANTS
  Mutations,   \* numbers of the user's clicks and comments, in the order they are made
  MaxOthers,   \* bound: times that somebody else likes the post or takes it back
  Asked,
  None

VARIABLES
  mine,     \* what the user likes
  others,   \* likes of the post by somebody else, and how often they changed
  thread,   \* number of comments
  deleted,  \* the post is
  reached,  \* the network works, and the user is an active member of the Cirvia
  cache,    \* the data of each query, or None
  fetches,  \* the fetch of each query: None, Asked, or the answer on its way
  mutation, \* per mutation: what was sent and how far it is, or None
  behind    \* history: queries that missed something, and were not served since

server == <<mine, others, thread, deleted, reached>>
vars == <<server, cache, fetches, mutation, behind>>

Queries == {"post", "comments"}

\* liked and count are those of the post, or of the comment; size is commentCount, or
\* the length of the thread.
Views == [liked : BOOLEAN, count : Nat, size : Nat]

Sent == [op : {"like"}, key : Queries, shouldLike : BOOLEAN, previous : Views, stage : {"sent", "applied", "lost"}]
          \cup [op : {"comment"}, stage : {"sent", "applied", "lost"}]
          \cup [op : {"done"}]

Done == [op |-> "done"]

\* What a mutation is about.
KeysOf(m) == IF mutation[m].op = "comment" THEN Queries ELSE {mutation[m].key}

-----------------------------------------------------------------------------
(* What the API answers, as getPost and getPostComments hand it on *)

\* The API is not reached, or refuses: getPostOrThrow and requireMember.
Failing == deleted \/ ~reached

\* normalizeComment sets likedByCurrentUser to false.
Answer(k) ==
  [liked |-> k = "post" /\ k \in mine,
   count |-> (IF k \in mine THEN 1 ELSE 0) + (IF k = "post" THEN others % 2 ELSE 0),
   size  |-> thread]

-----------------------------------------------------------------------------
(* Fetches *)

cancelQueries(k) == fetches' = [fetches EXCEPT ![k] = None]

\* A fetch under way is replaced when there is data, and kept when there is none: what it
\* was answered already is then what the page goes on with.
Kept(k) == cache[k] = None /\ fetches[k] # None

invalidateQueries(keys) ==
  /\ fetches' = [k \in Queries |-> IF k \in keys /\ ~Kept(k) THEN Asked ELSE fetches[k]]
  /\ behind' = behind \cup {k \in keys : Kept(k) /\ fetches[k] # Asked}

\* The page opens, the interval ends, or the user asks to retry.
Refetch(k) ==
  /\ fetches[k] = None
  /\ fetches' = [fetches EXCEPT ![k] = Asked]
  /\ UNCHANGED <<server, cache, mutation, behind>>

ServeFetch(k) ==
  /\ fetches[k] = Asked /\ ~Failing
  /\ fetches' = [fetches EXCEPT ![k] = Answer(k)]
  /\ behind' = behind \ {k}
  /\ UNCHANGED <<server, cache, mutation>>

\* After one retry, and before it is served or while its answer is on its way.  The data
\* stays; the interval asks again.
FetchFails(k) ==
  /\ fetches[k] # None /\ Failing
  /\ fetches' = [fetches EXCEPT ![k] = None]
  /\ behind' = behind \cup {k}
  /\ UNCHANGED <<server, cache, mutation>>

FetchArrives(k) ==
  /\ fetches[k] \notin {None, Asked}
  /\ cache' = [cache EXCEPT ![k] = fetches[k]]
  /\ fetches' = [fetches EXCEPT ![k] = None]
  /\ UNCHANGED <<server, mutation, behind>>

-----------------------------------------------------------------------------
(* Mutations *)

IsNext(m) == mutation[m] = None /\ \A n \in Mutations : n < m => mutation[n] # None

InStage(m, stage) == mutation[m] \notin {None, Done} /\ mutation[m].stage = stage

GoTo(m, stage) == mutation' = [mutation EXCEPT ![m].stage = stage]

\* The view with the like that was clicked; also what updateCommentLike does.
Liked(view, shouldLike) ==
  [view EXCEPT !.liked = shouldLike, !.count = IF shouldLike THEN @ + 1 ELSE IF @ > 0 THEN @ - 1 ELSE 0]

\* The button is that of the item on the screen, which may lag behind the data.  The wait
\* for cancelQueries ends before anything else happens: its fetch is given up at once.
ClickLike(m, k, shouldLike) ==
  /\ IsNext(m) /\ cache[k] # None
  /\ cancelQueries(k)
  /\ cache' = [cache EXCEPT ![k] = Liked(@, shouldLike)]
  /\ mutation' = [mutation EXCEPT ![m] =
       [op |-> "like", key |-> k, shouldLike |-> shouldLike, previous |-> cache[k], stage |-> "sent"]]
  /\ UNCHANGED <<server, behind>>

SubmitComment(m) ==
  /\ IsNext(m) /\ cache["post"] # None
  /\ mutation' = [mutation EXCEPT ![m] = [op |-> "comment", stage |-> "sent"]]
  /\ UNCHANGED <<server, cache, fetches, behind>>

\* What the server does with the request.  Liking twice and taking back what was not
\* liked change nothing.
Serve(m) ==
  IF mutation[m].op = "comment"
  THEN thread' = thread + 1 /\ UNCHANGED mine
  ELSE /\ mine' = IF mutation[m].shouldLike THEN mine \cup {mutation[m].key} ELSE mine \ {mutation[m].key}
       /\ UNCHANGED thread

ServeMutation(m) ==
  /\ InStage(m, "sent") /\ ~Failing
  /\ Serve(m)
  /\ GoTo(m, "applied")
  /\ UNCHANGED <<others, deleted, reached, cache, fetches, behind>>

Succeeds(m) ==
  /\ InStage(m, "applied")
  /\ mutation' = [mutation EXCEPT ![m] = Done]
  /\ invalidateQueries(KeysOf(m))
  /\ UNCHANGED <<server, cache>>

\* Mutant of TakeBack: invalidates on success only.
TakeBackOnly(m) ==
  /\ cache' = [cache EXCEPT ![mutation[m].key] = mutation[m].previous]
  /\ UNCHANGED <<fetches, behind>>

\* onError restores what was shown when the button was pressed, and onSettled invalidates.
TakeBack(m) ==
  /\ cache' = [cache EXCEPT ![mutation[m].key] = mutation[m].previous]
  /\ invalidateQueries({mutation[m].key})

\* Refused, or the answer is lost: of a request that was sent it is not known whether
\* the server will serve it.
Fails(m) ==
  /\ \/ InStage(m, "sent") /\ (GoTo(m, "lost") \/ mutation' = [mutation EXCEPT ![m] = Done])
     \/ InStage(m, "applied") /\ mutation' = [mutation EXCEPT ![m] = Done]
  /\ IF mutation[m].op = "like" THEN TakeBack(m)
     ELSE /\ behind' = IF InStage(m, "applied") THEN Queries ELSE behind
          /\ UNCHANGED <<cache, fetches>>
  /\ UNCHANGED <<server>>

\* A request that the page has given up is served after all.
ServeLost(m) ==
  /\ InStage(m, "lost") /\ ~Failing
  /\ Serve(m)
  /\ mutation' = [mutation EXCEPT ![m] = Done]
  /\ behind' = behind \cup KeysOf(m)
  /\ UNCHANGED <<others, deleted, reached, cache, fetches>>

-----------------------------------------------------------------------------
(* Other members *)

\* Somebody else likes the post or takes it back.
OtherLikes ==
  /\ ~deleted /\ others < MaxOthers
  /\ others' = others + 1
  /\ behind' = behind \cup {"post"}
  /\ UNCHANGED <<mine, thread, deleted, reached, cache, fetches, mutation>>

DeletePost ==
  /\ ~deleted
  /\ deleted' = TRUE
  /\ UNCHANGED <<mine, others, thread, reached, cache, fetches, mutation, behind>>

\* The network fails or works again; the user leaves, is removed, banned or muted, or is
\* an active member again.
Move ==
  /\ reached' = ~reached
  /\ UNCHANGED <<mine, others, thread, deleted, cache, fetches, mutation, behind>>

-----------------------------------------------------------------------------
Init ==
  /\ mine = {}
  /\ others = 0
  /\ thread = 1
  /\ deleted = FALSE
  /\ reached \in BOOLEAN
  /\ cache = [k \in Queries |-> None]
  /\ fetches = [k \in Queries |-> None]
  /\ mutation = [m \in Mutations |-> None]
  /\ behind = {}

FetchStep(k) == Refetch(k) \/ ServeFetch(k) \/ FetchFails(k) \/ FetchArrives(k)

Next ==
  \/ \E k \in Queries : Refetch(k) \/ ServeFetch(k) \/ FetchFails(k) \/ FetchArrives(k)
  \/ \E m \in Mutations :
       \/ \E k \in Queries, shouldLike \in BOOLEAN : ClickLike(m, k, shouldLike)
       \/ SubmitComment(m) \/ ServeMutation(m) \/ Succeeds(m) \/ Fails(m) \/ ServeLost(m)
  \/ OtherLikes \/ DeletePost \/ Move

Spec == Init /\ [][Next]_vars

\* Intervals end while the page is in view, and the browser gets an answer or an error.
FairSpec == Spec /\ \A k \in Queries : WF_vars(FetchStep(k))

-----------------------------------------------------------------------------
(* Properties *)

\* The state is well typed.
TypeOK ==
  /\ mine \subseteq Queries
  /\ others \in 0..MaxOthers
  /\ thread \in Nat
  /\ deleted \in BOOLEAN
  /\ reached \in BOOLEAN
  /\ cache \in [Queries -> Views \cup {None}]
  /\ fetches \in [Queries -> Views \cup {None, Asked}]
  /\ mutation \in [Mutations -> Sent \cup {None}]
  /\ behind \subseteq Queries

Pending(k) == \E m \in Mutations : (InStage(m, "sent") \/ InStage(m, "applied")) /\ k \in KeysOf(m)

\* However clicks, answers and failures overtake each other and whatever snapshots were
\* restored: when the last click of the user is settled and the fetch that follows it has
\* arrived, the page shows what the server has.  Only what the page is not told may be
\* missing: changes by others, a request that was given up, a fetch that failed, and what
\* the user added after the first fetch of a query was answered and before it arrived.
SettledIsShown ==
  \A k \in Queries :
    cache[k] # None /\ fetches[k] = None /\ ~Pending(k) /\ k \notin behind => cache[k] = Answer(k)

\* What the page was not told it learns from its intervals, whatever becomes of its
\* mutations, unless its fetches may fail again and again.
ShowsServer == \A k \in Queries : cache[k] = Answer(k)

PageShowsServer == <>[]~Failing => <>[]ShowsServer
=============================================================================
