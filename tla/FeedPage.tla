------------------------------- MODULE FeedPage -------------------------------
(***************************************************************************)
(* The feed page of one Cirvia: listFeed, which answers with the posts     *)
(* before a cursor; the infinite query that asks it for one page after the *)
(* other, every 30 seconds and when told; and the posts the page shows     *)
(* before the server has created them.  Other members create and delete    *)
(* posts meanwhile.                                                        *)
(*                                                                         *)
(* Posts are numbered in the order of their creation.  createdAt has the   *)
(* resolution of CURRENT_TIMESTAMP, a second, and the posts of one second  *)
(* come in any order.  React Query is external: a fetch is given up when a *)
(* mutation cancels it or another fetch replaces it, and the data it was   *)
(* to replace stays.  While the network is down, or the user is no member  *)
(* any more, fetches fail, and the page keeps what it has.  What a page    *)
(* of posts answers is shown later; nothing but giving it up happens to    *)
(* it in between, so both are one step.                                    *)
(***************************************************************************)
EXTENDS Naturals, Sequences, FiniteSets, FiniteSetsExt, SequencesExt

CONSTANTS
  PageSize,  \* posts asked for at a time: 10 in the code
  MaxOthersPosts, \* bound: posts that other members create
  MaxDeleted, \* bound: posts deleted
  MaxTime,   \* bound: seconds that pass
  MaxLikes,  \* bound: likes clicked
  Creations, \* times the user submits the composer
  None

ASSUME PageSizeAssumption == PageSize \in Nat \ {0}

ASSUME BoundsAssumption ==
  {MaxOthersPosts, MaxDeleted, MaxTime, MaxLikes} \subseteq Nat /\ IsFiniteSet(Creations)

VARIABLES
  now,      \* the clock of the database
  born,     \* createdAt of the posts, in the order of their creation
  live,     \* posts that are not deleted
  made,     \* the post that each creation of the user has led to, or None
  data,     \* what the page shows, or None
  fetch,    \* the fetch under way, or None
  creating, \* the creation under way, or None
  liking,   \* per like: what was shown when it was clicked, while it is under way
  likes,    \* likes clicked
  reached   \* the network works, and the user is an active member of the Cirvia

server == <<now, born, live, made>>
mutations == <<creating, liking, likes>>
vars == <<server, data, fetch, mutations, reached>>

PostIds == 1..(MaxOthersPosts + Cardinality(Creations))

Pages == [items : SUBSET PostIds, nextCursor : 0..MaxTime \cup {None}]

\* upTo is a history: the number of posts there were when the first page was read.
Data == [pages : Seq(Pages), optimistic : SUBSET Creations, upTo : {0} \cup PostIds]

Likes == [previous : Data, served : BOOLEAN]

\* The data collected so far, and the number of pages that were asked for.
Fetches == [so : Data, wanted : Nat, more : BOOLEAN]

ASSUME NoneAssumption ==
  None \notin Nat \cup Data \cup Fetches \cup [creation : Creations, previous : Data \cup {None}]

NoData == [pages |-> <<>>, optimistic |-> {}, upTo |-> 0]

-----------------------------------------------------------------------------
(* listFeed *)

\* Mutant of Before: the posts of the cursor's second are listed again.
BeforeInclusive(cursor) == {p \in live : cursor # None => born[p] <= cursor}

Before(cursor) == {p \in live : cursor # None => born[p] < cursor}

\* Some of the rows ORDER BY createdAt DESC LIMIT PageSize may leave.
Newest(rows) ==
  {page \in SUBSET rows :
     /\ Cardinality(page) = Min({Cardinality(rows), PageSize})
     /\ \A p \in page, q \in rows \ page : born[p] >= born[q]}

NextCursor(page) == IF Cardinality(page) = PageSize THEN Min({born[p] : p \in page}) ELSE None

-----------------------------------------------------------------------------
(* The infinite query *)

hasNextPage == data # None /\ Last(data.pages).nextCursor # None

\* All the pages there are, from the first.
AllPages(shown) == [so |-> NoData, wanted |-> IF shown = None THEN 1 ELSE Len(shown.pages), more |-> FALSE]

\* Mutant of Refetch: what the page has counts as fresh.
RefetchOnce ==
  /\ fetch = None
  /\ IF data = None THEN fetch' = AllPages(data) ELSE UNCHANGED fetch
  /\ UNCHANGED <<server, data, mutations, reached>>

\* The page opens, the interval ends, or the user asks to retry.
Refetch ==
  /\ fetch = None
  /\ fetch' = AllPages(data)
  /\ UNCHANGED <<server, data, mutations, reached>>

\* The end of the list is in sight.  A refetch under way is given up.
FetchNextPage ==
  /\ hasNextPage
  /\ fetch # None => ~fetch.more
  /\ fetch' = [so |-> data, wanted |-> Len(data.pages) + 1, more |-> TRUE]
  /\ UNCHANGED <<server, data, mutations, reached>>

\* Mutant of ReadPage: pages are read by their offset, as listPublic does.
ReadPageByOffset ==
  /\ fetch # None /\ reached
  /\ LET offset == PageSize * Len(fetch.so.pages)
         rows == {p \in live : Cardinality({q \in live : q > p}) >= offset}
     IN \E page \in Newest(rows) :
          LET so == [fetch.so EXCEPT !.pages = Append(@, [items |-> page, nextCursor |-> NextCursor(page)]),
                                     !.upTo = IF fetch.so.pages = <<>> THEN Len(born) ELSE @]
          IN IF Len(so.pages) = fetch.wanted \/ NextCursor(page) = None
             THEN data' = so /\ fetch' = None
             ELSE fetch' = [fetch EXCEPT !.so = so] /\ UNCHANGED data
  /\ UNCHANGED <<server, mutations, reached>>

\* The next page of the fetch; the data is replaced when there is no other to read.
ReadPage ==
  /\ fetch # None /\ reached
  /\ LET first == fetch.so.pages = <<>>
         rows == Before(IF first THEN None ELSE Last(fetch.so.pages).nextCursor)
     IN \E page \in Newest(rows) :
          LET so == [fetch.so EXCEPT !.pages = Append(@, [items |-> page, nextCursor |-> NextCursor(page)]),
                                     !.upTo = IF first THEN Len(born) ELSE @]
          IN IF Len(so.pages) = fetch.wanted \/ NextCursor(page) = None
             THEN data' = so /\ fetch' = None
             ELSE fetch' = [fetch EXCEPT !.so = so] /\ UNCHANGED data
  /\ UNCHANGED <<server, mutations, reached>>

\* After one retry: the API is not reached, or requireMember of listFeed refuses.
FetchFails ==
  /\ fetch # None /\ ~reached
  /\ fetch' = None
  /\ UNCHANGED <<server, data, mutations, reached>>

-----------------------------------------------------------------------------
(* The composer *)

\* Mutant of Shown: a list that was never fetched has no page to put the entry on.
ShownUnpaged == IF data = None THEN NoData ELSE data

\* What the entry of a new post is put on top of.
Shown == IF data = None THEN [NoData EXCEPT !.pages = <<[items |-> {}, nextCursor |-> None]>>] ELSE data

\* The creation in progress disables the composer.
Submit(c) ==
  /\ creating = None /\ made[c] = None
  /\ \A d \in Creations : made[d] = None => c <= d
  /\ creating' = [creation |-> c, previous |-> data]
  /\ data' = [Shown EXCEPT !.optimistic = @ \cup {c}]
  /\ made' = [made EXCEPT ![c] = 0]
  /\ fetch' = None
  /\ UNCHANGED <<now, born, live, liking, likes, reached>>

NewPost ==
  /\ born' = Append(born, now)
  /\ live' = live \cup {Len(born) + 1}

\* createPost reaches the server.
Create ==
  /\ creating # None /\ reached
  /\ made[creating.creation] = 0
  /\ NewPost
  /\ made' = [made EXCEPT ![creating.creation] = Len(born) + 1]
  /\ UNCHANGED <<now, data, fetch, mutations, reached>>

\* Invalidates, which replaces a fetch under way.
CreateSucceeds ==
  /\ creating # None
  /\ made[creating.creation] > 0
  /\ creating' = None
  /\ fetch' = AllPages(data)
  /\ UNCHANGED <<server, data, liking, likes, reached>>

\* Refused, or the answer is lost; a request served later still is to this page a post
\* like those of others.  What was shown before is restored, if there was anything;
\* nothing is invalidated.
CreateFails ==
  /\ creating # None
  /\ data' = IF creating.previous = None THEN data ELSE creating.previous
  /\ creating' = None
  /\ UNCHANGED <<server, fetch, liking, likes, reached>>

-----------------------------------------------------------------------------
(* Likes, of which the page shows a number: what they do to the list as a whole *)

\* The button is not disabled while another like is under way.
Like ==
  /\ data # None /\ likes < MaxLikes
  /\ liking' = [liking EXCEPT ![likes + 1] = [previous |-> data, served |-> FALSE]]
  /\ likes' = likes + 1
  /\ fetch' = None
  /\ UNCHANGED <<server, data, creating, reached>>

ServeLike(l) ==
  /\ liking[l] # None /\ ~liking[l].served /\ reached
  /\ liking' = [liking EXCEPT ![l].served = TRUE]
  /\ UNCHANGED <<server, data, fetch, creating, likes, reached>>

LikeSucceeds(l) ==
  /\ liking[l] # None /\ liking[l].served
  /\ liking' = [liking EXCEPT ![l] = None]
  /\ fetch' = AllPages(data)
  /\ UNCHANGED <<server, data, creating, likes, reached>>

\* Refused, or the answer is lost.  The whole list is restored, not the like alone; then
\* it is invalidated.
LikeFails(l) ==
  /\ liking[l] # None
  /\ data' = liking[l].previous
  /\ liking' = [liking EXCEPT ![l] = None]
  /\ fetch' = AllPages(liking[l].previous)
  /\ UNCHANGED <<server, creating, likes, reached>>

-----------------------------------------------------------------------------
(* Other members, and time *)

OtherCreates ==
  /\ Len(born) - Cardinality({c \in Creations : made[c] \notin {None, 0}}) < MaxOthersPosts
  /\ NewPost
  /\ UNCHANGED <<now, made, data, fetch, mutations, reached>>

Delete(p) ==
  /\ p \in live
  /\ Len(born) - Cardinality(live) < MaxDeleted
  /\ live' = live \ {p}
  /\ UNCHANGED <<now, born, made, data, fetch, mutations, reached>>

Tick ==
  /\ now < MaxTime
  /\ now' = now + 1
  /\ UNCHANGED <<born, live, made, data, fetch, mutations, reached>>

\* The network fails or works again; the user leaves, is removed, banned or muted, or is
\* an active member again.
Move ==
  /\ reached' = ~reached
  /\ UNCHANGED <<server, data, fetch, mutations>>

-----------------------------------------------------------------------------
Init ==
  /\ now = 0
  /\ born = <<>>
  /\ live = {}
  /\ made = [c \in Creations |-> None]
  /\ data = None
  /\ fetch = None
  /\ creating = None
  /\ liking = [l \in 1..MaxLikes |-> None]
  /\ likes = 0
  /\ reached \in BOOLEAN

FetchStep == Refetch \/ ReadPage \/ FetchFails

Next ==
  \/ Refetch \/ FetchNextPage \/ ReadPage \/ FetchFails
  \/ \E c \in Creations : Submit(c)
  \/ Create \/ CreateSucceeds \/ CreateFails
  \/ Like
  \/ \E l \in 1..MaxLikes : ServeLike(l) \/ LikeSucceeds(l) \/ LikeFails(l)
  \/ OtherCreates \/ Tick \/ Move
  \/ \E p \in live : Delete(p)

Spec == Init /\ [][Next]_vars

\* The interval ends again and again while the page is in view; fetches are answered.
FairSpec == Spec /\ WF_vars(FetchStep)

-----------------------------------------------------------------------------
(* Properties *)

Listed(d) == UNION {d.pages[i].items : i \in DOMAIN d.pages}

\* The state is well typed; in particular what the page shows has a page to it.
TypeOK ==
  /\ now \in 0..MaxTime
  /\ born \in Seq(0..MaxTime) /\ Len(born) \in {0} \cup PostIds
  /\ live \subseteq 1..Len(born)
  /\ made \in [Creations -> 0..Len(born) \cup {None}]
  /\ data # None => data \in Data /\ data.pages # <<>>
  /\ fetch = None \/ fetch \in Fetches
  /\ creating = None \/ creating \in [creation : Creations, previous : Data \cup {None}]
  /\ liking \in [1..MaxLikes -> Likes \cup {None}]
  /\ likes \in 0..MaxLikes
  /\ reached \in BOOLEAN

\* No post is on the page twice, though its pages were read at different times, nor
\* beside the entry that announced it.
ShownOnce ==
  data # None =>
    /\ \A i, j \in DOMAIN data.pages : i # j => data.pages[i].items \cap data.pages[j].items = {}
    /\ \A c \in data.optimistic : made[c] \notin Listed(data)

\* A cursor loses no post: what was there when the first page was read and is still
\* there is shown down to the last cursor, whatever was created or deleted between the
\* pages.  Only a post of the second in which a page ends may be missing.
NothingSkipped ==
  data # None =>
    \A p \in live :
      \/ p > data.upTo
      \/ p \in Listed(data)
      \/ hasNextPage /\ born[p] < Last(data.pages).nextCursor
      \/ \E i \in DOMAIN data.pages : data.pages[i].nextCursor = born[p]

UpToDate ==
  /\ data # None
  /\ data.optimistic = {}
  /\ data.upTo = Len(born)
  /\ Listed(data) \subseteq live

\* The page ends up with what the server has: entries that were never created go, and
\* restored snapshots are replaced, whatever becomes of the mutations.  A page whose
\* fetches may fail again and again may learn nothing.
PageCatchesUp == <>[]reached => <>[]UpToDate
=============================================================================
