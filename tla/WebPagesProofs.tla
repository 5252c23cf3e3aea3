----------------------------- MODULE WebPagesProofs -----------------------------
(***************************************************************************)
(* Proofs about the pages a browser tab polls the feed API from: what      *)
(* every snapshot of the feed keeps to, whatever is created, deleted or    *)
(* restored between its pages; and what a settled page of a post shows,    *)
(* in whatever order clicks, answers and failures come.                    *)
(***************************************************************************)
EXTENDS WebPages, FiniteSetTheorems, TLAPS

-----------------------------------------------------------------------------
(* The feed: what holds of the server, and of every snapshot of the list *)

\* Posts are numbered in the order of their creation, at the time it was then.
ServerInv ==
  /\ now \in 0..MaxTime
  /\ born \in Seq(0..MaxTime) /\ \A p \in 1..Len(born) : born[p] <= now
  /\ live \subseteq 1..Len(born)
  /\ made \in [Creations -> 0..Len(born) \cup {None}]
  /\ Len(born) <= MaxOthersPosts + Cardinality({c \in Creations : made[c] \notin {None, 0}})

\* Pages come one after the other, each before the cursor of the one above it; a page
\* reaches down to its own cursor.
Descending(pages) ==
  /\ \A i \in DOMAIN pages :
       /\ pages[i].items \subseteq 1..Len(born)
       /\ pages[i].nextCursor # None =>
            pages[i].nextCursor <= now /\ \A p \in pages[i].items : pages[i].nextCursor <= born[p]
  /\ \A i, j \in DOMAIN pages : i < j =>
       /\ pages[i].nextCursor # None
       /\ \A p \in pages[j].items : born[p] < pages[i].nextCursor
       /\ pages[j].nextCursor # None => pages[j].nextCursor < pages[i].nextCursor

\* What was created for an entry is no older than any cursor, and not on a page.
Announced(d) ==
  \A c \in d.optimistic : made[c] \notin {None, 0} =>
    /\ made[c] \notin Listed(d)
    /\ \A i \in DOMAIN d.pages : d.pages[i].nextCursor # None => d.pages[i].nextCursor <= born[made[c]]

\* What was there is on a page, or older than them, or shares the second of a cursor.
Complete(d) ==
  d.pages # <<>> =>
    \A p \in live :
      \/ p > d.upTo
      \/ p \in Listed(d)
      \/ Last(d.pages).nextCursor # None /\ born[p] < Last(d.pages).nextCursor
      \/ \E i \in DOMAIN d.pages : d.pages[i].nextCursor = born[p]

Snapshot(d) ==
  /\ d \in Data /\ d.upTo <= Len(born)
  /\ Descending(d.pages) /\ Announced(d) /\ Complete(d)

\* What the page shows, and what it may restore, has a page to it.
Restorable(d) == Snapshot(d) /\ d.pages # <<>>

\* A fetch that goes on has a cursor to go on from.
Collected(d) ==
  /\ Snapshot(d)
  /\ IF d.pages = <<>> THEN d = NoData ELSE Last(d.pages).nextCursor # None

DataInv == data # None => Restorable(data)

FetchInv == fetch # None => fetch \in Fetches /\ Collected(fetch.so)

CreatingInv ==
  creating # None =>
    /\ creating \in [creation : Creations, previous : Data \cup {None}]
    /\ made[creating.creation] # None
    /\ creating.previous # None => Restorable(creating.previous)

LikingInv ==
  /\ liking \in [1..MaxLikes -> Likes \cup {None}]
  /\ \A l \in 1..MaxLikes : liking[l] # None => Restorable(liking[l].previous)

CountersInv == likes \in 0..MaxLikes /\ reached \in BOOLEAN

FeedInv == ServerInv /\ DataInv /\ FetchInv /\ CreatingInv /\ LikingInv /\ CountersInv

-----------------------------------------------------------------------------
(* The page of a post *)

\* The server has done something about k of which the page will hear.
Applied(k) == \E m \in Mutations : Post!InStage(m, "applied") /\ k \in Post!KeysOf(m)

\* A like of k is shown that is not settled.
Clicked(k) == \E m \in Mutations :
  (Post!InStage(m, "sent") \/ Post!InStage(m, "applied")) /\ mutation[m].op = "like" /\ mutation[m].key = k

\* Unless something of k is applied or was missed: the answer on its way is what the server
\* has, and so is what is shown when no fetch is under way and no like is shown early.
Current(k) ==
  ~Applied(k) /\ k \notin behind =>
    /\ fetches[k] \notin {None, Asked} => fetches[k] = Post!Answer(k)
    /\ fetches[k] = None /\ cache[k] # None /\ ~Clicked(k) => cache[k] = Post!Answer(k)

PostInv == Post!TypeOK /\ \A k \in Post!Queries : Current(k)

-----------------------------------------------------------------------------
(* Operators *)

\* A set of naturals has a minimum.
LEMMA MinNat ==
  ASSUME NEW S \in SUBSET Nat, S # {}
  PROVE  Min(S) \in S /\ \A x \in S : Min(S) <= x
<1>1. \E x \in S : \A y \in S : ~(<<y, x>> \in OpToRel(<, Nat))
  BY WFMin, NatLessThanWellFounded
<1>2. PICK x \in S : \A y \in S : ~(<<y, x>> \in OpToRel(<, Nat))
  BY <1>1
<1>3. ASSUME NEW y \in S, y < x
      PROVE  <<y, x>> \in OpToRel(<, Nat)
  <2>1. <<y, x>> \in Nat \X Nat /\ <<y, x>>[1] = y /\ <<y, x>>[2] = x
    OBVIOUS
  <2>2. QED BY <1>3, <2>1, Zenon DEF OpToRel
<1>4. \A y \in S : ~(y < x)
  BY <1>2, <1>3, Zenon
<1>5. \A y \in S : x <= y
  BY <1>4
<1>6. QED BY <1>5 DEF Min

\* A page is put behind the others.
LEMMA PageAdd ==
  ASSUME NEW pages \in Seq(Pages), NEW page \in Pages
  PROVE  /\ Append(pages, page) \in Seq(Pages) /\ Append(pages, page) # <<>>
         /\ DOMAIN pages = 1..Len(pages) /\ Len(pages) \in Nat
         /\ DOMAIN Append(pages, page) = 1..(Len(pages) + 1)
         /\ \A i \in DOMAIN pages : Append(pages, page)[i] = pages[i]
         /\ Append(pages, page)[Len(pages) + 1] = page
         /\ Last(Append(pages, page)) = page
BY DEF Last

\* The last of some pages is one of them.
LEMMA LastPage ==
  ASSUME NEW pages \in Seq(Pages), pages # <<>>
  PROVE  Len(pages) \in DOMAIN pages /\ Last(pages) = pages[Len(pages)] /\ Last(pages) \in Pages
BY DEF Last

LEMMA Born ==
  ASSUME ServerInv
  PROVE  /\ Len(born) \in Nat /\ now \in Nat /\ DOMAIN born = 1..Len(born) /\ MaxTime \in Nat
         /\ \A p \in 1..Len(born) : born[p] \in 0..MaxTime /\ born[p] \in Nat
BY BoundsAssumption DEF ServerInv

\* A page that is full has a cursor, which is the time of its oldest posts; what is left out
\* is no younger.
LEMMA NewestPosts ==
  ASSUME ServerInv, NEW rows \in SUBSET live, NEW page \in Newest(rows)
  PROVE  /\ page \subseteq rows /\ page \subseteq 1..Len(born)
         /\ NextCursor(page) \in 0..MaxTime \cup {None}
         /\ NextCursor(page) # None =>
              /\ NextCursor(page) \in Nat
              /\ \A p \in page : NextCursor(page) <= born[p]
              /\ \E p \in page : NextCursor(page) = born[p]
         /\ \A p \in rows \ page : NextCursor(page) # None /\ born[p] <= NextCursor(page)
<1>1. page \subseteq rows /\ Cardinality(page) = Min({Cardinality(rows), PageSize})
      /\ \A p \in page, q \in rows \ page : born[p] >= born[q]
  BY DEF Newest
<1>2. page \subseteq 1..Len(born) /\ rows \subseteq 1..Len(born)
  BY <1>1 DEF ServerInv
<1>3. IsFiniteSet(rows) /\ IsFiniteSet(page) /\ Cardinality(page) \in Nat /\ Cardinality(rows) \in Nat
  <2>1. IsFiniteSet(1..Len(born))
    BY Born, FS_Interval
  <2>2. IsFiniteSet(rows) /\ IsFiniteSet(page)
    BY <1>2, <2>1, FS_Subset
  <2>3. QED BY <2>2, FS_CardinalityType
<1> DEFINE times == {born[p] : p \in page}
<1>4. times \subseteq Nat
  BY <1>2, Born
<1>5. CASE Cardinality(page) = PageSize
  <2>1. page # {}
    BY <1>3, <1>5, PageSizeAssumption, FS_EmptySet
  <2>2. times # {}
    BY <2>1
  <2>3. NextCursor(page) = Min(times)
    BY <1>5 DEF NextCursor
  <2>4. Min(times) \in times /\ \A x \in times : Min(times) <= x
    BY <1>4, <2>2, MinNat
  <2>5. PICK p \in page : NextCursor(page) = born[p]
    BY <2>3, <2>4
  <2>6. NextCursor(page) \in 0..MaxTime /\ NextCursor(page) \in Nat
    BY <1>2, <2>5, Born
  <2>7. NextCursor(page) # None
    BY <2>6, NoneAssumption
  <2>8. \A q \in page : NextCursor(page) <= born[q]
    BY <2>3, <2>4
  <2>9. \A q \in rows \ page : born[q] <= NextCursor(page)
    BY <1>1, <1>2, <2>5, Born
  <2>10. QED BY <1>1, <1>2, <2>5, <2>6, <2>7, <2>8, <2>9
<1>6. CASE Cardinality(page) # PageSize
  <2>1. NextCursor(page) = None
    BY <1>6 DEF NextCursor
  <2>2. {Cardinality(rows), PageSize} \subseteq Nat
    BY <1>3, PageSizeAssumption
  <2>3. Cardinality(page) \in {Cardinality(rows), PageSize}
    BY <1>1, <2>2, MinNat
  <2>4. rows = page
    BY <1>1, <1>3, <1>6, <2>3, FS_Subset
  <2>5. QED BY <1>1, <1>2, <2>1, <2>4
<1>7. QED BY <1>5, <1>6

-----------------------------------------------------------------------------
(* What happens to the server leaves every snapshot as good as it was *)

Posted == /\ born' = Append(born, now) /\ now' = now
          /\ live' = live \cup {Len(born) + 1}
          /\ \A c \in Creations : made'[c] \in {made[c], Len(born) + 1}

Moved == /\ born' = born /\ now' >= now
         /\ live' \subseteq live
         /\ \A c \in Creations : made'[c] \in {made[c], 0}

LEMMA BornKept ==
  ASSUME ServerInv, ServerInv', Posted \/ Moved
  PROVE  /\ Len(born) <= Len(born') /\ Len(born) \in Nat /\ Len(born') \in Nat
         /\ \A p \in 1..Len(born) : born'[p] = born[p] /\ p \in 1..Len(born')
         /\ now' >= now /\ now \in Nat /\ now' \in Nat
         /\ \A p \in live' : p \in live \/ p > Len(born)
<1>1. CASE Posted
  BY <1>1, Born DEF Posted, ServerInv
<1>2. CASE Moved
  <2>1. now' \in Nat
    BY BoundsAssumption DEF ServerInv
  <2>2. QED BY <1>2, <2>1, Born DEF Moved, ServerInv
<1>3. QED BY <1>1, <1>2

LEMMA DescendingKept ==
  ASSUME ServerInv, ServerInv', Posted \/ Moved,
         NEW pages \in Seq(Pages), Descending(pages)
  PROVE  Descending(pages)'
<1>1. ASSUME NEW i \in DOMAIN pages
      PROVE  /\ pages[i].items \subseteq 1..Len(born')
             /\ pages[i].nextCursor # None =>
                  pages[i].nextCursor <= now' /\ \A p \in pages[i].items : pages[i].nextCursor <= born'[p]
  <2>1. pages[i].items \subseteq 1..Len(born)
    BY DEF Descending
  <2>2. pages[i].nextCursor \in Nat \cup {None}
    <3>1. pages[i] \in Pages
      OBVIOUS
    <3>2. QED BY <3>1, BoundsAssumption DEF Pages
  <2>3. QED BY <2>1, <2>2, BornKept DEF Descending
<1>2. ASSUME NEW i \in DOMAIN pages, NEW j \in DOMAIN pages, i < j
      PROVE  \A p \in pages[j].items : born'[p] < pages[i].nextCursor
  <2>1. pages[j].items \subseteq 1..Len(born) /\ \A p \in pages[j].items : born[p] < pages[i].nextCursor
    BY <1>2 DEF Descending
  <2>2. QED BY <2>1, BornKept
<1>3. QED BY <1>1, <1>2 DEF Descending

\* Everything listed was there when it was read.
LEMMA ListedBorn ==
  ASSUME ServerInv, NEW d \in Data, Descending(d.pages)
  PROVE  Listed(d) \subseteq 1..Len(born)
BY DEF Listed, Descending

LEMMA SnapshotKept ==
  ASSUME ServerInv, ServerInv', Posted \/ Moved, NEW d, Snapshot(d)
  PROVE  Snapshot(d)'
<1>1. d \in Data /\ d.pages \in Seq(Pages) /\ d.upTo \in Nat /\ d.optimistic \subseteq Creations
  BY DEF Snapshot, Data, PostIds
<1>2. d.upTo <= Len(born')
  BY <1>1, BornKept DEF Snapshot
<1>3. Descending(d.pages)'
  BY <1>1, DescendingKept DEF Snapshot
<1>4. Announced(d)'
  <2> SUFFICES ASSUME NEW c \in d.optimistic, made'[c] \notin {None, 0}
               PROVE  /\ made'[c] \notin Listed(d)
                      /\ \A i \in DOMAIN d.pages :
                           d.pages[i].nextCursor # None => d.pages[i].nextCursor <= born'[made'[c]]
    BY DEF Announced, Listed
  <2>1. CASE made'[c] = made[c]
    <3>1. made[c] \in 1..Len(born)
      BY <1>1, <2>1 DEF ServerInv
    <3>2. QED BY <2>1, <3>1, BornKept DEF Snapshot, Announced
  <2>2. CASE Posted /\ made'[c] = Len(born) + 1
    <3>1. Listed(d) \subseteq 1..Len(born)
      BY <1>1, ListedBorn DEF Snapshot
    <3>2. born'[Len(born) + 1] = now
      BY <2>2, Born DEF Posted
    <3>3. QED BY <2>2, <3>1, <3>2, Born DEF Snapshot, Descending
  <2>3. QED BY <1>1, <2>1, <2>2 DEF Posted, Moved
<1>5. Complete(d)'
  <2> SUFFICES ASSUME d.pages # <<>>, NEW p \in live'
               PROVE  \/ p > d.upTo
                      \/ p \in Listed(d)
                      \/ Last(d.pages).nextCursor # None /\ born'[p] < Last(d.pages).nextCursor
                      \/ \E i \in DOMAIN d.pages : d.pages[i].nextCursor = born'[p]
    BY DEF Complete, Listed, Last
  <2>1. p \in live \/ p > Len(born)
    BY BornKept
  <2>2. CASE p \in live
    <3>1. p \in 1..Len(born)
      BY <2>2 DEF ServerInv
    <3>2. born'[p] = born[p]
      BY <3>1, BornKept
    <3>3. QED BY <2>2, <3>2 DEF Snapshot, Complete
  <2>3. CASE p > Len(born)
    <3>1. p \in Nat
      BY DEF ServerInv
    <3>2. QED BY <1>1, <2>3, <3>1, Born DEF Snapshot
  <2>4. QED BY <2>1, <2>2, <2>3
<1>6. QED BY <1>1, <1>2, <1>3, <1>4, <1>5 DEF Snapshot

\* The posts of the user and those of others keep to the bounds.
LEMMA ServerBound ==
  ASSUME ServerInv
  PROVE  1..Len(born) \subseteq PostIds /\ (Len(born) = 0 \/ Len(born) \in PostIds)
<1> DEFINE own == {c \in Creations : made[c] \notin {None, 0}}
<1>1. own \subseteq Creations /\ IsFiniteSet(Creations)
  BY BoundsAssumption
<1>2. Cardinality(own) <= Cardinality(Creations) /\ Cardinality(own) \in Nat /\ Cardinality(Creations) \in Nat
  BY <1>1, FS_Subset, FS_CardinalityType
<1>3. Len(born) <= MaxOthersPosts + Cardinality(own) /\ Len(born) \in Nat /\ MaxOthersPosts \in Nat
  BY BoundsAssumption, Born DEF ServerInv
<1>4. QED BY <1>2, <1>3 DEF PostIds

-----------------------------------------------------------------------------
(* Reading a page *)

\* With another page, read before the last cursor, a snapshot is one still.
LEMMA PageRead ==
  ASSUME ServerInv, NEW d, Collected(d),
         NEW page \in Newest(Before(IF d.pages = <<>> THEN None ELSE Last(d.pages).nextCursor)),
         NEW so, so = [d EXCEPT !.pages = Append(@, [items |-> page, nextCursor |-> NextCursor(page)]),
                                !.upTo = IF d.pages = <<>> THEN Len(born) ELSE @]
  PROVE  Restorable(so) /\ Last(so.pages).nextCursor = NextCursor(page)
<1> DEFINE first == d.pages = <<>>
           rows == Before(IF first THEN None ELSE Last(d.pages).nextCursor)
           read == [items |-> page, nextCursor |-> NextCursor(page)]
           n == Len(d.pages) + 1
<1>1. d \in Data /\ d.pages \in Seq(Pages) /\ d.upTo \in {0} \cup PostIds /\ d.upTo \in Nat
      /\ d.optimistic \subseteq Creations
  BY DEF Collected, Snapshot, Data, PostIds
<1>2. /\ page \subseteq rows /\ page \subseteq 1..Len(born)
      /\ NextCursor(page) \in 0..MaxTime \cup {None}
      /\ NextCursor(page) # None =>
           /\ NextCursor(page) \in Nat
           /\ \A p \in page : NextCursor(page) <= born[p]
           /\ \E p \in page : NextCursor(page) = born[p]
      /\ \A p \in rows \ page : NextCursor(page) # None /\ born[p] <= NextCursor(page)
  <2>1. rows \in SUBSET live
    BY DEF Before
  <2>2. QED BY <2>1, NewestPosts
<1>3. 1..Len(born) \subseteq PostIds /\ (Len(born) = 0 \/ Len(born) \in PostIds)
  BY ServerBound
<1>4. read \in Pages
  BY <1>2, <1>3 DEF Pages
<1>5. so.pages = Append(d.pages, read) /\ so.optimistic = d.optimistic
      /\ so.upTo = (IF first THEN Len(born) ELSE d.upTo) /\ so \in Data
  <2>1. Append(d.pages, read) \in Seq(Pages)
    BY <1>1, <1>4, PageAdd
  <2>2. (IF first THEN Len(born) ELSE d.upTo) \in {0} \cup PostIds
    BY <1>1, <1>3
  <2> HIDE DEF read
  <2>3. so = [d EXCEPT !.pages = Append(@, read), !.upTo = IF first THEN Len(born) ELSE @]
    BY DEF read
  <2>4. QED BY <1>1, <2>1, <2>2, <2>3 DEF Data
<1>6. read.items = page /\ read.nextCursor = NextCursor(page)
  OBVIOUS
<1> HIDE DEF read
<1>7. /\ so.pages # <<>> /\ Last(so.pages) = read
      /\ DOMAIN so.pages = 1..n /\ DOMAIN d.pages = 1..(n - 1) /\ n \in Nat \ {0}
      /\ \A i \in DOMAIN d.pages : so.pages[i] = d.pages[i]
      /\ so.pages[n] = read
  BY <1>1, <1>4, <1>5, PageAdd
<1>8. first \/ (n - 1 \in DOMAIN d.pages /\ Last(d.pages) = d.pages[n - 1] /\ d.pages[n - 1].nextCursor # None
                /\ d.pages[n - 1].nextCursor \in Nat)
  <2>1. CASE ~first
    <3>1. Last(d.pages).nextCursor \in 0..MaxTime \cup {None}
      BY <1>1, <2>1, LastPage DEF Pages
    <3>2. QED BY <1>1, <2>1, <3>1, LastPage, Born DEF Collected
  <2>2. QED BY <2>1
<1>9. \A p \in page : p \in live /\ (~first => born[p] < d.pages[n - 1].nextCursor)
  BY <1>2, <1>8 DEF Before
<1>10. Listed(so) = Listed(d) \cup page
  <2>1. \A i \in DOMAIN so.pages : i \in DOMAIN d.pages \/ i = n
    BY <1>7
  <2>2. \A p : p \in Listed(so) <=> \E i \in DOMAIN so.pages : p \in so.pages[i].items
    BY DEF Listed
  <2>3. \A p : p \in Listed(d) <=> \E i \in DOMAIN d.pages : p \in d.pages[i].items
    BY DEF Listed
  <2>4. QED BY <1>6, <1>7, <2>1, <2>2, <2>3
<1>11. Descending(so.pages)
  <2>1. Descending(d.pages) /\ \A i \in DOMAIN d.pages : d.pages[i].nextCursor \in Nat \cup {None}
    <3>1. \A i \in DOMAIN d.pages : d.pages[i] \in Pages
      BY <1>1
    <3>2. QED BY <3>1, Born DEF Collected, Snapshot, Pages
  <2>2. ASSUME NEW i \in DOMAIN so.pages
        PROVE  /\ so.pages[i].items \subseteq 1..Len(born)
               /\ so.pages[i].nextCursor # None =>
                    /\ so.pages[i].nextCursor <= now
                    /\ \A p \in so.pages[i].items : so.pages[i].nextCursor <= born[p]
    <3>1. CASE i \in DOMAIN d.pages
      BY <1>7, <2>1, <3>1 DEF Descending
    <3>2. CASE i = n
      <4>1. NextCursor(page) # None => NextCursor(page) <= now
        BY <1>2, Born DEF ServerInv
      <4>2. QED BY <1>2, <1>6, <1>7, <3>2, <4>1
    <3>3. QED BY <1>7, <3>1, <3>2
  <2>3. ASSUME NEW i \in DOMAIN d.pages
        PROVE  /\ d.pages[i].nextCursor # None
               /\ \A p \in page : born[p] < d.pages[i].nextCursor
    <3>1. ~first
      BY <1>7, <2>3
    <3>2. CASE i = n - 1
      BY <1>8, <1>9, <3>1, <3>2
    <3>3. CASE i # n - 1
      <4>1. i < n - 1 /\ n - 1 \in DOMAIN d.pages
        BY <1>7, <1>8, <3>1, <3>3
      <4>2. d.pages[i].nextCursor # None /\ d.pages[n - 1].nextCursor < d.pages[i].nextCursor
        BY <1>8, <2>1, <3>1, <4>1 DEF Descending
      <4>3. \A p \in page : born[p] \in Nat
        BY <1>2, Born
      <4>4. d.pages[i].nextCursor \in Nat
        BY <2>1, <4>2
      <4>5. QED BY <1>8, <1>9, <3>1, <4>2, <4>3, <4>4
    <3>4. QED BY <3>2, <3>3
  <2>4. ASSUME NEW i \in DOMAIN so.pages, NEW j \in DOMAIN so.pages, i < j
        PROVE  /\ so.pages[i].nextCursor # None
               /\ \A p \in so.pages[j].items : born[p] < so.pages[i].nextCursor
               /\ so.pages[j].nextCursor # None => so.pages[j].nextCursor < so.pages[i].nextCursor
    <3>1. CASE j \in DOMAIN d.pages
      <4>1. i \in DOMAIN d.pages
        BY <1>7, <2>4, <3>1
      <4>2. QED BY <1>7, <2>1, <2>4, <3>1, <4>1 DEF Descending
    <3>2. CASE j = n
      <4>1. i \in DOMAIN d.pages
        BY <1>7, <2>4, <3>2
      <4>2. so.pages[i] = d.pages[i] /\ so.pages[j] = read
        BY <1>7, <3>2, <4>1
      <4>3. /\ d.pages[i].nextCursor # None
            /\ \A p \in page : born[p] < d.pages[i].nextCursor
        BY <2>3, <4>1
      <4>4. NextCursor(page) # None => NextCursor(page) < d.pages[i].nextCursor
        BY <1>2, <4>3
      <4>5. QED BY <1>6, <4>2, <4>3, <4>4
    <3>3. QED BY <1>7, <3>1, <3>2
  <2>5. QED BY <2>2, <2>4 DEF Descending
<1>12. Announced(so)
  <2> SUFFICES ASSUME NEW c \in so.optimistic, made[c] \notin {None, 0}
               PROVE  /\ made[c] \notin Listed(so)
                      /\ \A i \in DOMAIN so.pages :
                           so.pages[i].nextCursor # None => so.pages[i].nextCursor <= born[made[c]]
    BY DEF Announced
  <2>1. ~first
    BY <1>5 DEF Collected, NoData
  <2>2. /\ made[c] \notin Listed(d)
        /\ \A i \in DOMAIN d.pages : d.pages[i].nextCursor # None => d.pages[i].nextCursor <= born[made[c]]
    BY <1>5 DEF Collected, Snapshot, Announced
  <2>3. made[c] \in 1..Len(born) /\ born[made[c]] \in Nat
    BY <1>1, <1>5, Born DEF ServerInv
  <2>4. d.pages[n - 1].nextCursor <= born[made[c]] /\ d.pages[n - 1].nextCursor \in Nat
    BY <1>8, <2>1, <2>2
  <2>5. \A p \in page : born[p] < born[made[c]] /\ born[p] \in Nat
    BY <1>2, <1>9, <2>1, <2>3, <2>4, Born
  <2>6. NextCursor(page) # None => NextCursor(page) <= born[made[c]]
    BY <1>2, <2>3, <2>5
  <2>7. made[c] \notin Listed(so)
    BY <1>10, <2>2, <2>3, <2>5
  <2>8. ASSUME NEW i \in DOMAIN so.pages, so.pages[i].nextCursor # None
        PROVE  so.pages[i].nextCursor <= born[made[c]]
    <3>1. CASE i \in DOMAIN d.pages
      BY <1>7, <2>2, <2>8, <3>1
    <3>2. CASE i = n
      BY <1>6, <1>7, <2>6, <2>8, <3>2
    <3>3. QED BY <1>7, <3>1, <3>2
  <2>9. QED BY <2>7, <2>8
<1>13. Complete(so)
  <2> SUFFICES ASSUME NEW p \in live
               PROVE  \/ p > so.upTo
                      \/ p \in Listed(so)
                      \/ NextCursor(page) # None /\ born[p] < NextCursor(page)
                      \/ \E i \in DOMAIN so.pages : so.pages[i].nextCursor = born[p]
    BY <1>6, <1>7 DEF Complete
  <2>1. CASE p \in rows
    <3>1. CASE p \in page
      BY <1>10, <3>1
    <3>2. CASE p \notin page
      <4>1. NextCursor(page) # None /\ born[p] <= NextCursor(page) /\ NextCursor(page) \in Nat
        BY <1>2, <2>1, <3>2
      <4>2. born[p] \in Nat
        BY Born DEF ServerInv
      <4>3. born[p] = NextCursor(page) => so.pages[n].nextCursor = born[p] /\ n \in DOMAIN so.pages
        BY <1>6, <1>7
      <4>4. QED BY <4>1, <4>2, <4>3
    <3>3. QED BY <3>1, <3>2
  <2>2. CASE p \notin rows
    <3>1. ~first /\ ~(born[p] < Last(d.pages).nextCursor)
      BY <2>2 DEF Before
    <3>2. so.upTo = d.upTo /\ \A i \in DOMAIN d.pages : i \in DOMAIN so.pages /\ so.pages[i] = d.pages[i]
      BY <1>5, <1>7, <3>1
    <3>3. \/ p > d.upTo \/ p \in Listed(d) \/ \E i \in DOMAIN d.pages : d.pages[i].nextCursor = born[p]
      BY <3>1 DEF Collected, Snapshot, Complete
    <3>4. QED BY <1>10, <3>2, <3>3
  <2>3. QED BY <2>1, <2>2
<1>14. so.upTo <= Len(born)
  BY <1>1, <1>5, Born DEF Collected, Snapshot
<1>15. QED
  BY <1>5, <1>6, <1>7, <1>11, <1>12, <1>13, <1>14 DEF Restorable, Snapshot

-----------------------------------------------------------------------------
(* The invariant of the feed *)

LEMMA ServerStep ==
  ASSUME ServerInv, [Next]_vars, creating # None => creating.creation \in Creations
  PROVE  ServerInv' /\ (Posted \/ Moved)
<1> USE DEF mutations, NewPost
<1> DEFINE own == {c \in Creations : made[c] \notin {None, 0}}
<1>0. /\ IsFiniteSet(own) /\ Cardinality(own) \in Nat /\ Len(born) <= MaxOthersPosts + Cardinality(own)
      /\ MaxOthersPosts \in Nat
  <2>1. own \subseteq Creations /\ IsFiniteSet(Creations) /\ MaxOthersPosts \in Nat
    BY BoundsAssumption
  <2>2. IsFiniteSet(own)
    BY <2>1, FS_Subset
  <2>3. QED BY <2>1, <2>2, FS_CardinalityType DEF ServerInv
<1>1. CASE UNCHANGED server
  <2>1. ServerInv'
    BY <1>1 DEF server, ServerInv
  <2>2. QED BY <1>1, <2>1, Born DEF server, Moved
<1>2. ASSUME NewPost, now' = now, Len(born') <= MaxOthersPosts + Cardinality(own'),
             made' \in [Creations -> 0..Len(born') \cup {None}],
             \A c \in Creations : made'[c] \in {made[c], Len(born) + 1}
      PROVE  ServerInv' /\ Posted
  <2>1. /\ born' \in Seq(0..MaxTime) /\ Len(born') = Len(born) + 1 /\ born'[Len(born) + 1] = now
        /\ \A p \in 1..Len(born) : born'[p] = born[p]
    BY <1>2, Born DEF ServerInv
  <2>2. \A p \in 1..Len(born') : born'[p] <= now'
    BY <1>2, <2>1, Born DEF ServerInv
  <2>3. live' \subseteq 1..Len(born')
    <3>1. live \subseteq 1..Len(born) /\ Len(born) \in Nat
      BY Born DEF ServerInv
    <3>2. live' = live \cup {Len(born) + 1}
      BY <1>2
    <3>3. 1..Len(born') = 1..Len(born) \cup {Len(born) + 1}
      BY <2>1, <3>1
    <3>4. QED BY <3>1, <3>2, <3>3
  <2>4. now' \in 0..MaxTime
    BY <1>2 DEF ServerInv
  <2>5. QED BY <1>2, <2>1, <2>2, <2>3, <2>4 DEF ServerInv, Posted
<1>3. ASSUME NEW c \in Creations, Submit(c)
      PROVE  ServerInv' /\ Moved
  <2>1. made[c] = None /\ made' = [made EXCEPT ![c] = 0] /\ UNCHANGED <<now, born, live>>
    BY <1>3 DEF Submit
  <2>2. made' \in [Creations -> 0..Len(born) \cup {None}] /\ \A x \in Creations : made'[x] \in {made[x], 0}
    BY <2>1, Born DEF ServerInv
  <2>3. own' = own
    BY <2>1 DEF ServerInv
  <2>4. Len(born') <= MaxOthersPosts + Cardinality(own')
    BY <1>0, <2>1, <2>3
  <2>5. QED BY <2>1, <2>2, <2>4, Born DEF ServerInv, Moved
<1>4. CASE Create
  <2>1. PICK c \in Creations : c = creating.creation /\ made[c] = 0
    BY <1>4 DEF Create
  <2>2. NewPost /\ made' = [made EXCEPT ![c] = Len(born) + 1] /\ now' = now /\ Len(born') = Len(born) + 1
    BY <1>4, <2>1, Born DEF Create, ServerInv
  <2>3. /\ made' \in [Creations -> 0..Len(born') \cup {None}]
        /\ \A x \in Creations : made'[x] \in {made[x], Len(born) + 1}
    BY <2>2, Born DEF ServerInv
  <2>4. own' = own \cup {c} /\ c \notin own
    <3>1. Len(born) + 1 \notin {None, 0}
      BY NoneAssumption, Born
    <3>2. QED BY <2>1, <2>2, <3>1 DEF ServerInv
  <2>5. Cardinality(own') = Cardinality(own) + 1
    BY <1>0, <2>4, FS_AddElement
  <2>6. QED BY <1>0, <1>2, <2>2, <2>3, <2>5, Born
<1>5. CASE OtherCreates
  <2>1. Len(born) - Cardinality(own) < MaxOthersPosts /\ NewPost /\ UNCHANGED <<now, made>>
    BY <1>5 DEF OtherCreates
  <2>2. Len(born') = Len(born) + 1 /\ Len(born') <= MaxOthersPosts + Cardinality(own')
    BY <1>0, <2>1, Born DEF ServerInv
  <2>3. made' \in [Creations -> 0..Len(born') \cup {None}]
    BY <2>1, <2>2, Born DEF ServerInv
  <2>4. QED BY <1>2, <2>1, <2>2, <2>3
<1>6. ASSUME NEW p \in live, Delete(p)
      PROVE  ServerInv' /\ Moved
  BY <1>6, Born DEF Delete, ServerInv, Moved
<1>7. CASE Tick
  <2>1. now' = now + 1 /\ now < MaxTime /\ UNCHANGED <<born, live, made>>
    BY <1>7 DEF Tick
  <2>2. now' \in 0..MaxTime /\ now' >= now
    BY <2>1, Born DEF ServerInv
  <2>3. QED BY <2>1, <2>2, Born DEF ServerInv, Moved
<1>8. CASE UNCHANGED vars
  BY <1>1, <1>8 DEF vars
<1>9. CASE \/ Refetch \/ FetchNextPage \/ ReadPage \/ FetchFails
           \/ CreateSucceeds \/ CreateFails \/ Like \/ Move
           \/ \E l \in 1..MaxLikes : ServeLike(l) \/ LikeSucceeds(l) \/ LikeFails(l)
  BY <1>1, <1>9 DEF Refetch, FetchNextPage, ReadPage, FetchFails, CreateSucceeds, CreateFails, Like,
     Move, ServeLike, LikeSucceeds, LikeFails
<1>10. QED
  BY <1>3, <1>4, <1>5, <1>6, <1>7, <1>8, <1>9 DEF Next

LEMMA NoDataSnapshot ==
  ASSUME ServerInv
  PROVE  Collected(NoData) /\ NoData.pages = <<>> /\ NoData \in Data
<1>1. NoData \in Data /\ NoData.pages = <<>> /\ NoData.optimistic = {} /\ NoData.upTo = 0
  BY DEF NoData, Data
<1>2. Descending(NoData.pages)
  BY <1>1 DEF Descending
<1>3. Announced(NoData) /\ Complete(NoData)
  BY <1>1 DEF Announced, Complete
<1>4. QED BY <1>1, <1>2, <1>3, Born DEF Collected, Snapshot

\* What an entry is put on top of is a snapshot, and is one still with the entry.
LEMMA EntryShown ==
  ASSUME ServerInv, data # None => Restorable(data), NEW c \in Creations, made[c] \in {None, 0},
         NEW d, d = [Shown EXCEPT !.optimistic = @ \cup {c}]
  PROVE  Restorable(d)
<1> DEFINE page == [items |-> {}, nextCursor |-> None]
<1>1. Restorable(Shown)
  <2>1. CASE data # None
    BY <2>1 DEF Shown
  <2>2. CASE data = None
    <3>1. <<page>> \in Seq(Pages) /\ <<page>> # <<>> /\ DOMAIN <<page>> = {1} /\ <<page>>[1] = page
      BY DEF Pages
    <3>2. page.items = {} /\ page.nextCursor = None
      OBVIOUS
    <3> HIDE DEF page
    <3>3. Shown = [NoData EXCEPT !.pages = <<page>>]
      BY <2>2 DEF Shown, page
    <3>4. Shown \in Data /\ Shown.pages = <<page>> /\ Shown.optimistic = {} /\ Shown.upTo = 0
      BY <3>1, <3>3 DEF NoData, Data
    <3>5. Descending(Shown.pages)
      BY <3>1, <3>2, <3>4 DEF Descending
    <3>6. Announced(Shown)
      BY <3>4 DEF Announced
    <3>7. \A p \in live : p > Shown.upTo
      BY <3>4, Born DEF ServerInv
    <3>8. QED BY <3>1, <3>4, <3>5, <3>6, <3>7, Born DEF Restorable, Snapshot, Complete
  <2>3. QED BY <2>1, <2>2
<1>2. Shown \in Data
  BY <1>1 DEF Restorable, Snapshot
<1> HIDE DEF page
<1>3. d \in Data /\ d.pages = Shown.pages /\ d.optimistic = Shown.optimistic \cup {c} /\ d.upTo = Shown.upTo
  BY <1>2 DEF Data
<1>4. Listed(d) = Listed(Shown)
  BY <1>3 DEF Listed
<1>5. Announced(d)
  BY <1>1, <1>3, <1>4 DEF Restorable, Snapshot, Announced
<1>6. Complete(d)
  BY <1>1, <1>3, <1>4 DEF Restorable, Snapshot, Complete
<1>7. QED BY <1>1, <1>3, <1>5, <1>6 DEF Restorable, Snapshot

\* A fetch of all the pages starts with none.
LEMMA AllPagesFetch ==
  ASSUME ServerInv, NEW d, d # None => Restorable(d)
  PROVE  AllPages(d) \in Fetches /\ AllPages(d).so = NoData
<1>1. d # None => Len(d.pages) \in Nat
  BY DEF Restorable, Snapshot, Data
<1>2. QED BY <1>1, NoDataSnapshot DEF AllPages, Fetches

LEMMA CountersStep == CountersInv /\ [Next]_vars => CountersInv'
<1> SUFFICES ASSUME CountersInv, [Next]_vars PROVE CountersInv'
  OBVIOUS
<1> USE BoundsAssumption DEF CountersInv, mutations
<1>1. CASE FetchFails
  BY <1>1 DEF FetchFails
<1>2. CASE Like
  BY <1>2 DEF Like
<1>3. CASE Move
  BY <1>3 DEF Move
<1>4. ASSUME UNCHANGED <<likes, reached>> PROVE CountersInv'
  BY <1>4
<1>5. QED
  BY <1>1, <1>2, <1>3, <1>4 DEF Next, vars, mutations, Refetch, FetchNextPage, ReadPage, Submit, Create,
     CreateSucceeds, CreateFails, ServeLike, LikeSucceeds, LikeFails, OtherCreates, Tick, Delete

LEMMA FeedInvStep == FeedInv /\ [Next]_vars => FeedInv'
<1> SUFFICES ASSUME FeedInv, [Next]_vars PROVE FeedInv'
  OBVIOUS
<1> USE DEF mutations
<1>1. ServerInv /\ ServerInv' /\ (Posted \/ Moved)
  BY ServerStep DEF FeedInv, CreatingInv
<1>2. /\ \A d : Snapshot(d) => Snapshot(d)'
      /\ \A d : Restorable(d) => Restorable(d)'
      /\ \A d : Collected(d) => Collected(d)'
  <2>1. \A d : Snapshot(d) => Snapshot(d)'
    BY <1>1, SnapshotKept
  <2>2. QED BY <2>1 DEF Restorable, Collected, Last
<1>3. /\ UNCHANGED data => DataInv'
      /\ UNCHANGED fetch => FetchInv'
      /\ UNCHANGED liking => LikingInv'
  BY <1>2 DEF FeedInv, DataInv, FetchInv, LikingInv
<1>4. UNCHANGED creating => CreatingInv'
  <2>1. ASSUME NEW c \in Creations, made[c] # None PROVE made'[c] # None
    BY <1>1, <2>1, Born, NoneAssumption DEF Posted, Moved
  <2>2. QED BY <1>2, <2>1 DEF FeedInv, CreatingInv
<1>5. fetch' = None => FetchInv'
  BY DEF FetchInv
<1>6. ASSUME NEW d, d # None => Restorable(d), fetch' = AllPages(d)
      PROVE  FetchInv'
  <2>1. fetch' \in Fetches /\ fetch'.so = NoData
    BY <1>1, <1>6, AllPagesFetch
  <2>2. Collected(NoData)'
    BY <1>1, <1>2, NoDataSnapshot
  <2>3. QED BY <2>1, <2>2 DEF FetchInv
<1>7. SUFFICES DataInv' /\ FetchInv' /\ CreatingInv' /\ LikingInv'
  BY <1>1, CountersStep DEF FeedInv
<1>8. DataInv /\ FetchInv /\ CreatingInv /\ LikingInv /\ (data = None \/ data \in Data)
  BY DEF FeedInv, DataInv, Restorable, Snapshot
<1>9. CASE Refetch
  BY <1>3, <1>4, <1>6, <1>8, <1>9 DEF Refetch, DataInv
<1>10. CASE FetchNextPage
  <2>1. data # None /\ Last(data.pages).nextCursor # None /\ Restorable(data)
    BY <1>8, <1>10 DEF FetchNextPage, hasNextPage, DataInv
  <2>2. PICK d : d = data
    OBVIOUS
  <2>3. fetch' = [so |-> d, wanted |-> Len(d.pages) + 1, more |-> TRUE] /\ UNCHANGED <<server, data, mutations>>
    BY <1>10, <2>2 DEF FetchNextPage
  <2>4. Collected(d) /\ d \in Data /\ Len(d.pages) \in Nat
    BY <2>1, <2>2 DEF Restorable, Collected, Snapshot, Data
  <2>5. fetch' \in Fetches /\ fetch'.so = d
    BY <2>3, <2>4 DEF Fetches
  <2>6. FetchInv'
    BY <1>2, <2>4, <2>5 DEF FetchInv
  <2>7. QED BY <1>3, <1>4, <2>3, <2>6
<1>11. CASE ReadPage
  <2>1. UNCHANGED <<server, mutations>> /\ fetch # None
    BY <1>11 DEF ReadPage
  <2>2. PICK d, wanted, more : d = fetch.so /\ wanted = fetch.wanted /\ more = fetch.more
    OBVIOUS
  <2>3. Collected(d) /\ d \in Data /\ fetch \in Fetches
    BY <1>8, <2>1, <2>2 DEF FetchInv, Collected, Snapshot
  <2>4. PICK page \in Newest(Before(IF d.pages = <<>> THEN None ELSE Last(d.pages).nextCursor)) :
          LET so == [d EXCEPT !.pages = Append(@, [items |-> page, nextCursor |-> NextCursor(page)]),
                              !.upTo = IF d.pages = <<>> THEN Len(born) ELSE @]
          IN IF Len(so.pages) = wanted \/ NextCursor(page) = None
             THEN data' = so /\ fetch' = None
             ELSE fetch' = [fetch EXCEPT !.so = so] /\ UNCHANGED data
    BY <1>11, <2>2 DEF ReadPage
  <2> DEFINE read == [d EXCEPT !.pages = Append(@, [items |-> page, nextCursor |-> NextCursor(page)]),
                               !.upTo = IF d.pages = <<>> THEN Len(born) ELSE @]
  <2>5. PICK so : so = read
    OBVIOUS
  <2>6. Restorable(so) /\ Last(so.pages).nextCursor = NextCursor(page)
    BY <1>1, <2>3, <2>4, <2>5, PageRead
  <2>7. so \in Data
    BY <2>6 DEF Restorable, Snapshot
  <2>8. \/ data' = so /\ fetch' = None
        \/ NextCursor(page) # None /\ fetch' = [fetch EXCEPT !.so = so] /\ UNCHANGED data
    BY <2>4, <2>5
  <2> HIDE DEF read
  <2>9. CASE data' = so /\ fetch' = None
    <3>1. DataInv'
      BY <1>2, <2>6, <2>7, <2>9 DEF DataInv
    <3>2. QED BY <1>3, <1>4, <1>5, <2>1, <2>9, <3>1
  <2>10. CASE NextCursor(page) # None /\ fetch' = [fetch EXCEPT !.so = so] /\ UNCHANGED data
    <3>1. fetch' \in Fetches /\ fetch'.so = so
      BY <2>3, <2>6, <2>7, <2>10 DEF Fetches
    <3>2. Collected(so)
      BY <2>6, <2>7, <2>10 DEF Restorable, Collected
    <3>3. FetchInv'
      BY <1>2, <3>1, <3>2 DEF FetchInv
    <3>4. QED BY <1>3, <1>4, <2>1, <2>10, <3>3
  <2>11. QED BY <2>8, <2>9, <2>10
<1>12. CASE FetchFails
  BY <1>3, <1>4, <1>5, <1>12 DEF FetchFails
<1>13. ASSUME NEW c \in Creations, Submit(c)
       PROVE  DataInv' /\ FetchInv' /\ CreatingInv' /\ LikingInv'
  <2>1. PICK d, previous : d = [Shown EXCEPT !.optimistic = @ \cup {c}] /\ previous = data
    OBVIOUS
  <2>2. /\ made[c] = None /\ made' = [made EXCEPT ![c] = 0] /\ fetch' = None /\ UNCHANGED liking
        /\ data' = d /\ creating' = [creation |-> c, previous |-> previous]
    BY <1>13, <2>1 DEF Submit
  <2>3. Restorable(d)
    BY <1>1, <1>8, <2>1, <2>2, EntryShown DEF DataInv
  <2>4. DataInv'
    BY <1>2, <2>2, <2>3 DEF DataInv
  <2>5. /\ creating' \in [creation : Creations, previous : Data \cup {None}]
        /\ creating'.creation = c /\ creating'.previous = previous
    BY <1>8, <2>1, <2>2
  <2>6. made'[c] # None
    BY <1>1, <2>2, NoneAssumption DEF ServerInv
  <2>7. previous # None => Restorable(previous)
    BY <1>8, <2>1 DEF DataInv
  <2>8. CreatingInv'
    BY <1>2, <2>5, <2>6, <2>7 DEF CreatingInv
  <2>9. QED BY <1>3, <1>5, <2>2, <2>4, <2>8
<1>14. CASE Create \/ OtherCreates \/ Tick \/ Move \/ (\E p \in live : Delete(p)) \/ UNCHANGED vars
  BY <1>3, <1>4, <1>14 DEF Create, OtherCreates, Tick, Move, Delete, vars
<1>15. creating' = None => CreatingInv'
  BY DEF CreatingInv
<1>16. CASE CreateSucceeds
  BY <1>3, <1>6, <1>8, <1>15, <1>16 DEF CreateSucceeds, DataInv
<1>17. CASE CreateFails
  <2>1. PICK previous : previous = creating.previous
    OBVIOUS
  <2>2. data' = IF previous = None THEN data ELSE previous
    BY <1>17, <2>1 DEF CreateFails
  <2>3. previous # None => Restorable(previous)
    BY <1>8, <1>17, <2>1 DEF CreateFails, CreatingInv
  <2>4. previous # None => DataInv'
    BY <1>2, <2>2, <2>3 DEF DataInv
  <2>5. QED BY <1>3, <1>15, <1>17, <2>2, <2>4 DEF CreateFails
<1>18. ASSUME NEW l \in 1..MaxLikes, NEW x, liking' = [liking EXCEPT ![l] = x],
              x = None \/ (x \in Likes /\ Restorable(x.previous))
       PROVE  LikingInv'
  <2>1. liking' \in [1..MaxLikes -> Likes \cup {None}]
    BY <1>8, <1>18 DEF LikingInv
  <2>2. \A k \in 1..MaxLikes : liking'[k] # None => \E d : d = liking'[k].previous /\ Restorable(d)
    BY <1>8, <1>18 DEF LikingInv
  <2>3. \A k \in 1..MaxLikes : liking'[k] # None => \E d : d = liking'[k].previous /\ Restorable(d)'
    BY <1>2, <2>2
  <2>4. QED BY <2>1, <2>3 DEF LikingInv
<1>19. CASE Like
  <2>1. PICK x : x = [previous |-> data, served |-> FALSE]
    OBVIOUS
  <2>2. Restorable(data) /\ data \in Data
    BY <1>8, <1>19 DEF Like, DataInv
  <2>3. x \in Likes /\ x.previous = data
    BY <2>1, <2>2 DEF Likes
  <2>4. likes + 1 \in 1..MaxLikes
    BY <1>19, BoundsAssumption DEF Like, FeedInv, CountersInv
  <2>5. liking' = [liking EXCEPT ![likes + 1] = x]
    BY <1>19, <2>1 DEF Like
  <2>6. LikingInv'
    BY <1>18, <2>2, <2>3, <2>4, <2>5
  <2>7. QED BY <1>3, <1>4, <1>5, <1>19, <2>6 DEF Like
<1>20. ASSUME NEW l \in 1..MaxLikes, ServeLike(l)
       PROVE  DataInv' /\ FetchInv' /\ CreatingInv' /\ LikingInv'
  <2>1. PICK x : x = [liking[l] EXCEPT !.served = TRUE]
    OBVIOUS
  <2>2. liking[l] \in Likes /\ Restorable(liking[l].previous)
    BY <1>8, <1>20 DEF ServeLike, LikingInv
  <2>3. x \in Likes /\ x.previous = liking[l].previous
    BY <2>1, <2>2 DEF Likes
  <2>4. liking' = [liking EXCEPT ![l] = x]
    BY <1>20, <2>1 DEF ServeLike
  <2>5. LikingInv'
    BY <1>18, <2>2, <2>3, <2>4
  <2>6. QED BY <1>3, <1>4, <1>20, <2>5 DEF ServeLike
<1>21. ASSUME NEW l \in 1..MaxLikes, LikeSucceeds(l)
       PROVE  DataInv' /\ FetchInv' /\ CreatingInv' /\ LikingInv'
  <2>1. LikingInv'
    BY <1>18, <1>21 DEF LikeSucceeds
  <2>2. QED BY <1>3, <1>4, <1>6, <1>8, <1>21, <2>1 DEF LikeSucceeds, DataInv
<1>22. ASSUME NEW l \in 1..MaxLikes, LikeFails(l)
       PROVE  DataInv' /\ FetchInv' /\ CreatingInv' /\ LikingInv'
  <2>1. PICK d : d = liking[l].previous
    OBVIOUS
  <2>2. data' = d /\ fetch' = AllPages(d) /\ UNCHANGED creating /\ Restorable(d)
    BY <1>8, <1>22, <2>1 DEF LikeFails, LikingInv
  <2>3. DataInv'
    BY <1>2, <2>2 DEF DataInv
  <2>4. LikingInv'
    BY <1>18, <1>22 DEF LikeFails
  <2>5. QED BY <1>4, <1>6, <2>2, <2>3, <2>4
<1>23. QED
  BY <1>9, <1>10, <1>11, <1>12, <1>13, <1>14, <1>16, <1>17, <1>19, <1>20, <1>21, <1>22 DEF Next

LEMMA InitFeedInv == Init => FeedInv
<1> SUFFICES ASSUME Init PROVE FeedInv
  OBVIOUS
<1>1. Len(born) = 0 /\ born \in Seq(0..MaxTime) /\ now \in 0..MaxTime
  BY BoundsAssumption DEF Init
<1>2. Cardinality({c \in Creations : made[c] \notin {None, 0}}) = 0
  <2>1. {c \in Creations : made[c] \notin {None, 0}} = {}
    BY DEF Init
  <2>2. QED BY <2>1, FS_EmptySet
<1>3. Len(born) <= MaxOthersPosts + Cardinality({c \in Creations : made[c] \notin {None, 0}})
  BY <1>1, <1>2, BoundsAssumption
<1>4. ServerInv
  BY <1>1, <1>3 DEF Init, ServerInv
<1>5. QED
  BY <1>4, BoundsAssumption DEF Init, FeedInv, DataInv, FetchInv, CreatingInv, LikingInv, CountersInv

-----------------------------------------------------------------------------
(* What the invariant of the feed means for the page *)

LEMMA FeedInvShownOnce == FeedInv => ShownOnce
<1> SUFFICES ASSUME FeedInv, data # None PROVE ShownOnce
  BY DEF ShownOnce
<1>1. Snapshot(data) /\ ServerInv
  BY DEF FeedInv, DataInv, Restorable
<1>2. /\ data.pages \in Seq(Pages) /\ DOMAIN data.pages = 1..Len(data.pages)
      /\ data.optimistic \subseteq Creations /\ Len(data.pages) \in Nat
  BY <1>1 DEF Snapshot, Data
<1>3. \A i \in DOMAIN data.pages : data.pages[i].nextCursor \in Nat \cup {None}
  <2>1. \A i \in DOMAIN data.pages : data.pages[i] \in Pages
    BY <1>2
  <2>2. QED BY <1>1, <2>1, Born DEF Pages
<1>4. ASSUME NEW i \in DOMAIN data.pages, NEW j \in DOMAIN data.pages, i < j
      PROVE  data.pages[i].items \cap data.pages[j].items = {}
  <2> SUFFICES ASSUME NEW p \in data.pages[i].items, p \in data.pages[j].items PROVE FALSE
    OBVIOUS
  <2>1. data.pages[i].nextCursor # None /\ born[p] < data.pages[i].nextCursor
    BY <1>1, <1>4 DEF Snapshot, Descending
  <2>2. data.pages[i].nextCursor <= born[p] /\ p \in 1..Len(born)
    BY <1>1, <2>1 DEF Snapshot, Descending
  <2>3. QED BY <1>1, <1>3, <2>1, <2>2, Born
<1>5. \A i, j \in DOMAIN data.pages : i # j => data.pages[i].items \cap data.pages[j].items = {}
  <2> SUFFICES ASSUME NEW i \in DOMAIN data.pages, NEW j \in DOMAIN data.pages, i # j
               PROVE  data.pages[i].items \cap data.pages[j].items = {}
    OBVIOUS
  <2>1. i < j \/ j < i
    BY <1>2
  <2>2. QED BY <1>4, <2>1
<1>6. ASSUME NEW c \in data.optimistic, made[c] \in Listed(data)
      PROVE  FALSE
  <2>1. made[c] \in 1..Len(born)
    BY <1>1, <1>6, ListedBorn DEF Snapshot
  <2>2. made[c] \notin {None, 0}
    BY <1>1, <2>1, Born, NoneAssumption
  <2>3. QED BY <1>1, <1>6, <2>2 DEF Snapshot, Announced
<1>7. QED BY <1>5, <1>6 DEF ShownOnce

LEMMA FeedInvNothingSkipped == FeedInv => NothingSkipped
BY DEF FeedInv, DataInv, Restorable, Snapshot, Complete, NothingSkipped, hasNextPage

LEMMA FeedInvTypeOK == FeedInv => TypeOK
<1> SUFFICES ASSUME FeedInv PROVE TypeOK
  OBVIOUS
<1>1. ServerInv /\ DataInv /\ FetchInv /\ CreatingInv /\ LikingInv /\ CountersInv
  BY DEF FeedInv
<1>2. Len(born) \in {0} \cup PostIds
  BY <1>1, ServerBound
<1>3. data # None => data \in Data /\ data.pages # <<>>
  BY <1>1 DEF DataInv, Restorable, Snapshot
<1>4. QED BY <1>1, <1>2, <1>3 DEF ServerInv, FetchInv, CreatingInv, LikingInv, CountersInv, TypeOK

-----------------------------------------------------------------------------
(* Types of the page of a post *)

LEMMA AnswerType ==
  ASSUME Post!TypeOK, NEW k \in Post!Queries
  PROVE  Post!Answer(k) \in Post!Views
<1> DEFINE liked == k = "post" /\ k \in mine
           count == (IF k \in mine THEN 1 ELSE 0) + (IF k = "post" THEN others % 2 ELSE 0)
<1>1. liked \in BOOLEAN
  OBVIOUS
<1>2. count \in Nat /\ thread \in Nat
  BY PostAssumption DEF Post!TypeOK
<1>3. Post!Answer(k) = [liked |-> liked, count |-> count, size |-> thread]
  BY DEF Post!Answer
<1> HIDE DEF liked, count
<1>4. QED BY <1>1, <1>2, <1>3 DEF Post!Views

LEMMA LikedType ==
  ASSUME NEW view \in Post!Views, NEW shouldLike \in BOOLEAN
  PROVE  Post!Liked(view, shouldLike) \in Post!Views
<1> DEFINE count == IF shouldLike THEN view.count + 1 ELSE IF view.count > 0 THEN view.count - 1 ELSE 0
<1>1. count \in Nat
  BY DEF Post!Views
<1>2. Post!Liked(view, shouldLike) = [view EXCEPT !.liked = shouldLike, !.count = count]
  BY DEF Post!Liked
<1> HIDE DEF count
<1>3. QED BY <1>1, <1>2 DEF Post!Views

\* A mutation under way is a like of one query or a comment.
LEMMA SentType ==
  ASSUME NEW r \in Post!Sent, r # Post!Done
  PROVE  /\ r.op \in {"like", "comment"} /\ r.stage \in {"sent", "applied", "lost"}
         /\ r.op = "like" => r.key \in Post!Queries /\ r.previous \in Post!Views
<1>1. r.op # "done"
  BY DEF Post!Sent, Post!Done
<1>2. QED BY <1>1 DEF Post!Sent

LEMMA SentGoesOn ==
  ASSUME NEW r \in Post!Sent, r # Post!Done, NEW stage \in {"sent", "applied", "lost"},
         NEW x, x = [r EXCEPT !.stage = stage]
  PROVE  /\ x \in Post!Sent /\ x # Post!Done /\ x # None /\ x.stage = stage /\ x.op = r.op
         /\ r.op = "like" => x.key = r.key
<1>1. r.op \in {"like", "comment"}
  BY SentType
<1>2. CASE r.op = "like"
  <2>1. r \in [op : {"like"}, key : Post!Queries, shouldLike : BOOLEAN, previous : Post!Views,
               stage : {"sent", "applied", "lost"}]
    BY <1>2 DEF Post!Sent
  <2>2. QED BY <1>2, <2>1, PostAssumption DEF Post!Sent, Post!Done
<1>3. CASE r.op = "comment"
  <2>1. r \in [op : {"comment"}, stage : {"sent", "applied", "lost"}]
    BY <1>3 DEF Post!Sent
  <2>2. QED BY <1>3, <2>1, PostAssumption DEF Post!Sent, Post!Done
<1>4. QED BY <1>1, <1>2, <1>3 DEF Post!Sent

LEMMA InStageType ==
  ASSUME Post!TypeOK, NEW m \in Mutations, NEW stage, Post!InStage(m, stage)
  PROVE  /\ mutation[m] \in Post!Sent /\ mutation[m] # Post!Done /\ mutation[m] # None
         /\ mutation[m].stage = stage /\ Post!KeysOf(m) \subseteq Post!Queries
<1>1. mutation[m] \in Post!Sent /\ mutation[m] # Post!Done /\ mutation[m] # None /\ mutation[m].stage = stage
  BY DEF Post!InStage, Post!TypeOK
<1>2. PICK r \in Post!Sent : r = mutation[m]
  BY <1>1
<1>3. r.op \in {"like", "comment"} /\ (r.op = "like" => r.key \in Post!Queries)
  BY <1>1, <1>2, SentType
<1>4. QED BY <1>1, <1>2, <1>3 DEF Post!KeysOf

\* A mutation goes on to a stage and is about the same.
LEMMA StageType ==
  ASSUME Post!TypeOK, NEW m \in Mutations, NEW from, Post!InStage(m, from),
         NEW stage \in {"sent", "applied", "lost"}, Post!GoTo(m, stage)
  PROVE  /\ mutation' \in [Mutations -> Post!Sent \cup {None}]
         /\ \A n \in Mutations \ {m} : mutation'[n] = mutation[n]
         /\ mutation'[m] \notin {None, Post!Done} /\ mutation'[m].stage = stage
         /\ mutation'[m].op = mutation[m].op
         /\ mutation[m].op = "like" => mutation'[m].key = mutation[m].key
<1>1. PICK r \in Post!Sent : r = mutation[m] /\ r # Post!Done
  BY InStageType
<1>2. PICK x : x = [r EXCEPT !.stage = stage]
  OBVIOUS
<1>3. x \in Post!Sent /\ x # Post!Done /\ x # None /\ x.stage = stage /\ x.op = r.op
      /\ (r.op = "like" => x.key = r.key)
  BY <1>1, <1>2, SentGoesOn
<1>4. mutation' = [mutation EXCEPT ![m] = x] /\ mutation \in [Mutations -> Post!Sent \cup {None}]
  BY <1>1, <1>2 DEF Post!GoTo, Post!TypeOK
<1>5. QED BY <1>1, <1>3, <1>4

LEMMA PostTypeStep ==
  ASSUME Post!TypeOK, [Post!Next]_Post!vars
  PROVE  Post!TypeOK'
<1> DEFINE MutationOK == mutation' \in [Mutations -> Post!Sent \cup {None}]
           ViewsOK == /\ cache' \in [Post!Queries -> Post!Views \cup {None}]
                      /\ fetches' \in [Post!Queries -> Post!Views \cup {None, Asked}]
           ServerOK == /\ mine' \subseteq Post!Queries /\ others' \in 0..MaxOthers /\ thread' \in Nat
                       /\ deleted' \in BOOLEAN /\ reached' \in BOOLEAN
           RestOK == behind' \subseteq Post!Queries
<1> SUFFICES MutationOK /\ ViewsOK /\ ServerOK /\ RestOK
  BY DEF Post!TypeOK
<1>0. /\ UNCHANGED mutation => MutationOK
      /\ UNCHANGED <<cache, fetches>> => ViewsOK
      /\ UNCHANGED Post!server => ServerOK
      /\ UNCHANGED behind => RestOK
  BY DEF Post!TypeOK, Post!server
<1> USE DEF Post!server
<1> HIDE DEF MutationOK
<1>1. ASSUME NEW k \in Post!Queries, Post!Refetch(k) \/ Post!ServeFetch(k)
                                    \/ Post!FetchArrives(k) \/ Post!FetchFails(k)
      PROVE  MutationOK /\ ViewsOK /\ ServerOK /\ RestOK
  <2>1. UNCHANGED mutation /\ UNCHANGED Post!server
    BY <1>1 DEF Post!Refetch, Post!ServeFetch, Post!FetchArrives, Post!FetchFails
  <2>2. ViewsOK
    BY <1>1, AnswerType DEF Post!Refetch, Post!ServeFetch, Post!FetchArrives, Post!FetchFails, Post!TypeOK
  <2>3. RestOK
    BY <1>1 DEF Post!Refetch, Post!ServeFetch, Post!FetchArrives, Post!FetchFails, Post!TypeOK
  <2>4. QED BY <1>0, <2>1, <2>2, <2>3
<1>2. ASSUME NEW m \in Mutations, NEW k \in Post!Queries, NEW liked \in BOOLEAN, Post!ClickLike(m, k, liked)
      PROVE  MutationOK /\ ViewsOK /\ ServerOK /\ RestOK
  <2>1. cache[k] \in Post!Views
    BY <1>2 DEF Post!ClickLike, Post!TypeOK
  <2>2. Post!Liked(cache[k], liked) \in Post!Views
    BY <2>1, LikedType
  <2>3. ViewsOK
    BY <1>2, <2>2 DEF Post!ClickLike, Post!cancelQueries, Post!TypeOK
  <2>4. MutationOK
    <3>2. mutation' = [mutation EXCEPT ![m] =
            [op |-> "like", key |-> k, shouldLike |-> liked, previous |-> cache[k], stage |-> "sent"]]
      BY <1>2 DEF Post!ClickLike
    <3>3. [op |-> "like", key |-> k, shouldLike |-> liked, previous |-> cache[k], stage |-> "sent"] \in Post!Sent
      BY <2>1 DEF Post!Sent
    <3>4. QED BY <3>2, <3>3 DEF MutationOK, Post!TypeOK
  <2>5. QED BY <1>0, <1>2, <2>3, <2>4 DEF Post!ClickLike
<1>3. ASSUME NEW m \in Mutations, Post!SubmitComment(m)
      PROVE  MutationOK /\ ViewsOK /\ ServerOK /\ RestOK
  <2>1. [op |-> "comment", stage |-> "sent"] \in Post!Sent
    BY DEF Post!Sent
  <2>2. MutationOK
    BY <1>3, <2>1 DEF Post!SubmitComment, MutationOK, Post!TypeOK
  <2>3. QED BY <1>0, <1>3, <2>2 DEF Post!SubmitComment
<1>4. ASSUME NEW m \in Mutations, mutation' = [mutation EXCEPT ![m] = Post!Done]
      PROVE  MutationOK
  BY <1>4 DEF MutationOK, Post!TypeOK, Post!Sent, Post!Done
<1>5. ASSUME NEW m \in Mutations, NEW stage, Post!InStage(m, stage), Post!Serve(m), UNCHANGED <<others, deleted, reached>>
      PROVE  ServerOK
  <2>1. Post!KeysOf(m) \subseteq Post!Queries
    BY <1>5, InStageType
  <2>2. CASE mutation[m].op = "comment"
    BY <1>5, <2>2 DEF Post!Serve, Post!TypeOK
  <2>3. CASE mutation[m].op # "comment"
    <3>1. mutation[m].key \in Post!Queries
      BY <2>1, <2>3 DEF Post!KeysOf
    <3>2. QED BY <1>5, <2>3, <3>1 DEF Post!Serve, Post!TypeOK
  <2>4. QED BY <2>2, <2>3
<1>6. ASSUME NEW m \in Mutations, Post!ServeMutation(m)
      PROVE  MutationOK /\ ViewsOK /\ ServerOK /\ RestOK
  BY <1>0, <1>5, <1>6, StageType DEF Post!ServeMutation, MutationOK
<1>7. ASSUME NEW m \in Mutations, Post!Succeeds(m)
      PROVE  MutationOK /\ ViewsOK /\ ServerOK /\ RestOK
  <2>1. ViewsOK /\ behind' \subseteq Post!Queries
    BY <1>7, InStageType DEF Post!Succeeds, Post!invalidateQueries, Post!TypeOK
  <2>2. QED BY <1>0, <1>4, <1>7, <2>1 DEF Post!Succeeds, Post!TypeOK
<1>8. ASSUME NEW m \in Mutations, Post!Fails(m)
      PROVE  MutationOK /\ ViewsOK /\ ServerOK /\ RestOK
  <2>1. MutationOK
    BY <1>4, <1>8, StageType DEF Post!Fails, MutationOK
  <2>2. mutation[m].op = "like" => mutation[m].previous \in Post!Views
    BY <1>8, InStageType, SentType DEF Post!Fails
  <2>3. ViewsOK
    BY <1>0, <1>8, <2>2 DEF Post!Fails, Post!TakeBack, Post!invalidateQueries, Post!TypeOK
  <2>4. RestOK
    <3>1. mutation[m].op = "like" => mutation[m].key \in Post!Queries
      BY <1>8, InStageType, SentType DEF Post!Fails
    <3>2. QED BY <1>8, <3>1 DEF Post!Fails, Post!TakeBack, Post!invalidateQueries, Post!TypeOK
  <2>5. QED BY <1>0, <1>8, <2>1, <2>3, <2>4 DEF Post!Fails
<1>9. ASSUME NEW m \in Mutations, Post!ServeLost(m)
      PROVE  MutationOK /\ ViewsOK /\ ServerOK /\ RestOK
  <2>1. behind' \subseteq Post!Queries
    BY <1>9, InStageType DEF Post!ServeLost, Post!TypeOK
  <2>2. RestOK
    BY <1>9, <2>1 DEF Post!ServeLost, Post!TypeOK
  <2>3. QED BY <1>0, <1>4, <1>5, <1>9, <2>2 DEF Post!ServeLost
<1>10. CASE Post!OtherLikes
  <2>1. others' \in 0..MaxOthers /\ "post" \in Post!Queries
    BY <1>10, PostAssumption DEF Post!OtherLikes, Post!TypeOK, Post!Queries
  <2>2. QED BY <1>0, <1>10, <2>1 DEF Post!OtherLikes, Post!TypeOK
<1>11. CASE UNCHANGED Post!vars
  BY <1>0, <1>11 DEF Post!vars
<1>12. CASE Post!DeletePost
  BY <1>0, <1>12 DEF Post!DeletePost, Post!TypeOK
<1>13. CASE Post!Move
  BY <1>0, <1>13 DEF Post!Move, Post!TypeOK
<1>14. QED
  BY <1>1, <1>2, <1>3, <1>6, <1>7, <1>8, <1>9, <1>10, <1>11, <1>12, <1>13 DEF Post!Next

\* What is invalidated is asked for again, or missed something, or is asked for still.
LEMMA Invalidated ==
  ASSUME Post!TypeOK, NEW keys \in SUBSET Post!Queries, Post!invalidateQueries(keys), NEW k \in Post!Queries
  PROVE  /\ k \in keys => fetches'[k] = Asked \/ k \in behind'
         /\ k \notin keys => fetches'[k] = fetches[k]
         /\ k \in behind => k \in behind'
         /\ k \notin keys => (k \in behind' => k \in behind)
BY DEF Post!invalidateQueries, Post!Kept, Post!TypeOK

-----------------------------------------------------------------------------
(* What a settled page of a post shows *)

\* What is said of k holds on if nothing it is said of changes.
LEMMA CurrentKept ==
  ASSUME NEW k \in Post!Queries, Current(k),
         cache'[k] = cache[k], fetches'[k] = fetches[k], Post!Answer(k)' = Post!Answer(k),
         Applied(k) => Applied(k)', Clicked(k) => Clicked(k)', k \in behind => k \in behind'
  PROVE  Current(k)'
BY DEF Current

\* A mutation changes what is applied or clicked only where it is itself.
LEMMA OthersGoOn ==
  ASSUME NEW k, NEW m \in Mutations, \A n \in Mutations \ {m} : mutation'[n] = mutation[n]
  PROVE  /\ Applied(k) => Applied(k)' \/ (Post!InStage(m, "applied") /\ k \in Post!KeysOf(m))
         /\ Clicked(k) => Clicked(k)' \/ (/\ Post!InStage(m, "sent") \/ Post!InStage(m, "applied")
                                          /\ mutation[m].op = "like" /\ mutation[m].key = k)
<1>1. \A n \in Mutations \ {m}, stage \in {"sent", "applied"} :
        /\ Post!InStage(n, stage)' = Post!InStage(n, stage)
        /\ Post!KeysOf(n)' = Post!KeysOf(n)
  BY DEF Post!InStage, Post!KeysOf, Post!Done
<1>2. QED BY <1>1 DEF Applied, Clicked

\* A request changes the answers it is about.
LEMMA ServedAnswers ==
  ASSUME Post!TypeOK, NEW k \in Post!Queries, NEW m \in Mutations, NEW stage, Post!InStage(m, stage),
         Post!Serve(m), UNCHANGED others, k \notin Post!KeysOf(m)
  PROVE  Post!Answer(k)' = Post!Answer(k)
<1>1. mutation[m].op # "comment" /\ k # mutation[m].key
  BY DEF Post!KeysOf
<1>2. UNCHANGED thread /\ (k \in mine' <=> k \in mine)
  BY <1>1 DEF Post!Serve
<1>3. QED BY <1>2 DEF Post!Answer

LEMMA PostInvStep == PostInv /\ [Post!Next]_Post!vars => PostInv'
<1> SUFFICES ASSUME Post!TypeOK, \A k \in Post!Queries : Current(k), [Post!Next]_Post!vars,
                    NEW k \in Post!Queries
             PROVE  Current(k)'
  BY PostTypeStep DEF PostInv
<1> USE DEF Post!server
<1>0. Current(k) /\ cache \in [Post!Queries -> Post!Views \cup {None}]
      /\ fetches \in [Post!Queries -> Post!Views \cup {None, Asked}]
  BY DEF Post!TypeOK
<1>1. UNCHANGED Post!server => Post!Answer(k)' = Post!Answer(k)
  BY DEF Post!Answer
<1>2. UNCHANGED mutation => (Applied(k) => Applied(k)') /\ (Clicked(k) => Clicked(k)')
  BY DEF Applied, Clicked, Post!InStage, Post!KeysOf, Post!Done
<1>3. ASSUME fetches'[k] = Asked PROVE Current(k)'
  BY <1>3, PostAssumption DEF Current
<1>4. ASSUME NEW j \in Post!Queries,
             Post!Refetch(j) \/ Post!ServeFetch(j)
             \/ Post!FetchArrives(j) \/ Post!FetchFails(j)
      PROVE  Current(k)'
  <2>1. UNCHANGED mutation /\ UNCHANGED Post!server
    BY <1>4 DEF Post!Refetch, Post!ServeFetch, Post!FetchArrives, Post!FetchFails
  <2>2. CASE k # j
    <3>1. cache'[k] = cache[k] /\ fetches'[k] = fetches[k] /\ (k \in behind => k \in behind')
      BY <1>0, <1>4, <2>2 DEF Post!Refetch, Post!ServeFetch, Post!FetchArrives, Post!FetchFails
    <3>2. QED BY <1>0, <1>1, <1>2, <2>1, <3>1, CurrentKept
  <2>3. CASE k = j /\ Post!Refetch(k)
    BY <1>0, <1>3, <2>3 DEF Post!Refetch
  <2>4. CASE k = j /\ Post!ServeFetch(k)
    <3>1. fetches'[k] = Post!Answer(k)
      BY <1>0, <2>4 DEF Post!ServeFetch
    <3>2. fetches'[k] # None
      BY <3>1, AnswerType, PostAssumption
    <3>3. QED BY <1>1, <2>1, <3>1, <3>2 DEF Current
  <2>5. CASE k = j /\ Post!FetchArrives(k)
    <3>1. fetches'[k] = None /\ cache'[k] = fetches[k] /\ fetches[k] \notin {None, Asked} /\ UNCHANGED behind
      BY <1>0, <2>5 DEF Post!FetchArrives
    <3>2. QED BY <1>0, <1>1, <1>2, <2>1, <3>1 DEF Current
  <2>6. CASE k = j /\ Post!FetchFails(k)
    BY <2>6 DEF Post!FetchFails, Current
  <2>7. QED BY <1>4, <2>2, <2>3, <2>4, <2>5, <2>6
<1>5. ASSUME NEW m \in Mutations, NEW j \in Post!Queries, NEW liked \in BOOLEAN, Post!ClickLike(m, j, liked)
      PROVE  Current(k)'
  <2>1. mutation[m] = None /\ UNCHANGED Post!server /\ UNCHANGED behind
    BY <1>5 DEF Post!ClickLike, Post!IsNext
  <2>2. /\ \A n \in Mutations \ {m} : mutation'[n] = mutation[n]
        /\ mutation'[m].op = "like" /\ mutation'[m].key = j /\ mutation'[m].stage = "sent"
        /\ mutation'[m] \in Post!Sent
    <3>2. cache[j] \in Post!Views
      BY <1>0, <1>5 DEF Post!ClickLike
    <3>3. mutation' = [mutation EXCEPT ![m] =
            [op |-> "like", key |-> j, shouldLike |-> liked, previous |-> cache[j], stage |-> "sent"]]
      BY <1>5 DEF Post!ClickLike
    <3>4. [op |-> "like", key |-> j, shouldLike |-> liked, previous |-> cache[j], stage |-> "sent"] \in Post!Sent
      BY <3>2 DEF Post!Sent
    <3>5. QED BY <3>3, <3>4 DEF Post!TypeOK
  <2>3. CASE k # j
    <3>1. cache'[k] = cache[k] /\ fetches'[k] = fetches[k]
      BY <1>0, <1>5, <2>3 DEF Post!ClickLike, Post!cancelQueries
    <3>2. ~Post!InStage(m, "sent") /\ ~Post!InStage(m, "applied")
      BY <2>1 DEF Post!InStage
    <3>3. QED BY <1>0, <1>1, <2>1, <2>2, <3>1, <3>2, OthersGoOn, CurrentKept
  <2>4. CASE k = j
    <3>1. fetches'[k] = None
      BY <1>0, <1>5, <2>4 DEF Post!ClickLike, Post!cancelQueries
    <3>2. mutation'[m] # None /\ mutation'[m] # Post!Done
      BY <2>2, PostAssumption DEF Post!Done
    <3>3. Clicked(k)'
      BY <2>2, <2>4, <3>2 DEF Clicked, Post!InStage, Post!Done
    <3>4. QED BY <3>1, <3>3 DEF Current
  <2>5. QED BY <2>3, <2>4
<1>6. ASSUME NEW m \in Mutations, Post!SubmitComment(m)
      PROVE  Current(k)'
  <2>1. ~Post!InStage(m, "sent") /\ ~Post!InStage(m, "applied")
    BY <1>6 DEF Post!SubmitComment, Post!IsNext, Post!InStage
  <2>2. \A n \in Mutations \ {m} : mutation'[n] = mutation[n]
    BY <1>6 DEF Post!SubmitComment, Post!TypeOK
  <2>3. (Applied(k) => Applied(k)') /\ (Clicked(k) => Clicked(k)')
    BY <2>1, <2>2, OthersGoOn
  <2>4. UNCHANGED <<Post!server, cache, fetches, behind>>
    BY <1>6 DEF Post!SubmitComment
  <2>5. QED BY <1>0, <1>1, <2>3, <2>4, CurrentKept
<1>7. ASSUME NEW m \in Mutations, Post!ServeMutation(m)
      PROVE  Current(k)'
  <2>1. Post!InStage(m, "sent") /\ Post!GoTo(m, "applied") /\ Post!Serve(m)
        /\ UNCHANGED <<others, cache, fetches, behind>>
    BY <1>7 DEF Post!ServeMutation
  <2>2. /\ \A n \in Mutations \ {m} : mutation'[n] = mutation[n]
        /\ mutation'[m] \notin {None, Post!Done} /\ mutation'[m].stage = "applied"
        /\ mutation'[m].op = mutation[m].op
        /\ mutation[m].op = "like" => mutation'[m].key = mutation[m].key
    BY <2>1, StageType
  <2>3. Post!InStage(m, "applied")'
    BY <2>2 DEF Post!InStage, Post!Done
  <2>4. CASE k \in Post!KeysOf(m)
    <3>1. mutation[m].op \in {"like", "comment"}
      BY <2>1, InStageType, SentType
    <3>2. k \in Post!KeysOf(m)'
      BY <2>2, <2>4, <3>1 DEF Post!KeysOf
    <3>3. QED BY <2>3, <3>2 DEF Applied, Current
  <2>5. CASE k \notin Post!KeysOf(m)
    <3>1. Post!Answer(k)' = Post!Answer(k)
      BY <2>1, <2>5, ServedAnswers
    <3>2. Applied(k) => Applied(k)'
      BY <2>2, <2>5, OthersGoOn
    <3>3. Clicked(k) => Clicked(k)'
      BY <2>2, <2>5, OthersGoOn DEF Post!KeysOf
    <3>4. QED BY <1>0, <2>1, <3>1, <3>2, <3>3, CurrentKept
  <2>6. QED BY <2>4, <2>5
<1>8. ASSUME NEW m \in Mutations, NEW stage \in {"sent", "applied", "lost"}, Post!InStage(m, stage),
             mutation' = [mutation EXCEPT ![m] = Post!Done] \/ Post!GoTo(m, "lost")
      PROVE  /\ Applied(k) => Applied(k)' \/ (stage = "applied" /\ k \in Post!KeysOf(m))
             /\ Clicked(k) => Clicked(k)' \/ (stage # "lost" /\ mutation[m].op = "like" /\ mutation[m].key = k)
  <2>1. \A n \in Mutations \ {m} : mutation'[n] = mutation[n]
    BY <1>8, StageType DEF Post!TypeOK
  <2>2. mutation[m].stage = stage
    BY <1>8 DEF Post!InStage
  <2>3. QED BY <2>1, <2>2, OthersGoOn DEF Post!InStage
<1>9. ASSUME NEW m \in Mutations, Post!Succeeds(m)
      PROVE  Current(k)'
  <2>1. Post!KeysOf(m) \subseteq Post!Queries /\ Post!invalidateQueries(Post!KeysOf(m))
    BY <1>9, InStageType DEF Post!Succeeds
  <2>2. CASE k \in Post!KeysOf(m)
    <3>1. fetches'[k] = Asked \/ k \in behind'
      BY <2>1, <2>2, Invalidated
    <3>2. QED BY <1>3, <3>1 DEF Current
  <2>3. CASE k \notin Post!KeysOf(m)
    <3>1. (Applied(k) => Applied(k)') /\ (Clicked(k) => Clicked(k)')
      BY <1>8, <1>9, <2>3 DEF Post!Succeeds, Post!KeysOf
    <3>2. fetches'[k] = fetches[k] /\ (k \in behind => k \in behind')
      BY <2>1, <2>3, Invalidated
    <3>3. UNCHANGED <<Post!server, cache>>
      BY <1>9 DEF Post!Succeeds
    <3>4. QED BY <1>0, <1>1, <3>1, <3>2, <3>3, CurrentKept
  <2>4. QED BY <2>2, <2>3
<1>10. ASSUME NEW m \in Mutations, Post!Fails(m)
       PROVE  Current(k)'
  <2>1. PICK stage \in {"sent", "applied"} : Post!InStage(m, stage)
    BY <1>10 DEF Post!Fails
  <2>2. mutation[m].op \in {"like", "comment"} /\ mutation[m].stage = stage
    BY <2>1, InStageType, SentType
  <2>3. mutation' = [mutation EXCEPT ![m] = Post!Done] \/ Post!GoTo(m, "lost")
    BY <1>10 DEF Post!Fails
  <2>4. UNCHANGED Post!server
    BY <1>10 DEF Post!Fails
  <2>5. CASE mutation[m].op = "like" /\ k = mutation[m].key
    <3>1. fetches'[k] = Asked \/ k \in behind'
      BY <1>10, <2>5, Invalidated DEF Post!Fails, Post!TakeBack
    <3>2. QED BY <1>3, <3>1 DEF Current
  <2>6. CASE mutation[m].op = "like" /\ k # mutation[m].key
    <3>1. cache'[k] = cache[k] /\ fetches'[k] = fetches[k] /\ (k \in behind => k \in behind')
      BY <1>0, <1>10, <2>6 DEF Post!Fails, Post!TakeBack, Post!invalidateQueries
    <3>2. (Applied(k) => Applied(k)') /\ (Clicked(k) => Clicked(k)')
      BY <1>8, <2>1, <2>3, <2>6 DEF Post!KeysOf
    <3>3. QED BY <1>0, <1>1, <2>4, <3>1, <3>2, CurrentKept
  <2>7. CASE mutation[m].op = "comment" /\ stage = "applied"
    <3>1. k \in behind'
      BY <1>10, <2>1, <2>7 DEF Post!Fails
    <3>2. QED BY <3>1 DEF Current
  <2>8. CASE mutation[m].op = "comment" /\ stage # "applied"
    <3>1. UNCHANGED <<cache, fetches, behind>>
      BY <1>10, <2>2, <2>8 DEF Post!Fails, Post!InStage
    <3>2. (Applied(k) => Applied(k)') /\ (Clicked(k) => Clicked(k)')
      BY <1>8, <2>1, <2>3, <2>8
    <3>3. QED BY <1>0, <1>1, <2>4, <3>1, <3>2, CurrentKept
  <2>9. QED BY <2>2, <2>5, <2>6, <2>7, <2>8
<1>11. ASSUME NEW m \in Mutations, Post!ServeLost(m)
       PROVE  Current(k)'
  <2>1. Post!InStage(m, "lost") /\ Post!Serve(m) /\ mutation' = [mutation EXCEPT ![m] = Post!Done]
        /\ UNCHANGED <<others, cache, fetches>> /\ behind' = behind \cup Post!KeysOf(m)
    BY <1>11 DEF Post!ServeLost
  <2>2. CASE k \in Post!KeysOf(m)
    BY <2>1, <2>2 DEF Current
  <2>3. CASE k \notin Post!KeysOf(m)
    <3>1. Post!Answer(k)' = Post!Answer(k)
      BY <2>1, <2>3, ServedAnswers
    <3>2. (Applied(k) => Applied(k)') /\ (Clicked(k) => Clicked(k)')
      BY <1>8, <2>1
    <3>3. QED BY <1>0, <2>1, <3>1, <3>2, CurrentKept
  <2>4. QED BY <2>2, <2>3
<1>12. CASE Post!OtherLikes
  <2>1. k = "post" => k \in behind'
    BY <1>12 DEF Post!OtherLikes
  <2>2. k # "post" => Post!Answer(k)' = Post!Answer(k)
    BY <1>12 DEF Post!OtherLikes, Post!Answer
  <2>3. UNCHANGED <<mutation, cache, fetches>> /\ behind \subseteq behind'
    BY <1>12 DEF Post!OtherLikes
  <2>4. CASE k = "post"
    BY <2>1, <2>4 DEF Current
  <2>5. CASE k # "post"
    BY <1>0, <1>2, <2>2, <2>3, <2>5, CurrentKept
  <2>6. QED BY <2>4, <2>5
<1>13. CASE UNCHANGED Post!vars
  BY <1>0, <1>1, <1>2, <1>13, CurrentKept DEF Post!vars
<1>14. CASE Post!DeletePost \/ Post!Move
  <2>1. UNCHANGED <<mine, others, thread, cache, fetches, mutation, behind>>
    BY <1>14 DEF Post!DeletePost, Post!Move
  <2>2. Post!Answer(k)' = Post!Answer(k)
    BY <2>1 DEF Post!Answer
  <2>3. QED BY <1>0, <1>2, <2>1, <2>2, CurrentKept
<1>15. QED
  BY <1>4, <1>5, <1>6, <1>7, <1>9, <1>10, <1>11, <1>12, <1>13, <1>14 DEF Post!Next

LEMMA InitPostInv == Post!Init => PostInv
<1> SUFFICES ASSUME Post!Init PROVE PostInv
  OBVIOUS
<1>1. /\ mine = {} /\ others = 0 /\ thread = 1 /\ behind = {} /\ deleted = FALSE /\ reached \in BOOLEAN
      /\ cache = [k \in Post!Queries |-> None] /\ fetches = [k \in Post!Queries |-> None]
      /\ mutation = [m \in Mutations |-> None]
  BY DEF Post!Init
<1>2. Post!TypeOK
  <2>1. others \in 0..MaxOthers
    BY <1>1, PostAssumption
  <2>2. /\ cache \in [Post!Queries -> Post!Views \cup {None}]
        /\ fetches \in [Post!Queries -> Post!Views \cup {None, Asked}]
        /\ mutation \in [Mutations -> Post!Sent \cup {None}]
    BY <1>1
  <2>3. QED BY <1>1, <2>1, <2>2 DEF Post!TypeOK
<1>3. ASSUME NEW k \in Post!Queries
      PROVE  Current(k)
  BY <1>1 DEF Current
<1>4. QED BY <1>2, <1>3 DEF PostInv

\* What is applied or clicked is pending, so a page without pending mutations is current.
LEMMA PostInvSettled == PostInv => Post!SettledIsShown
<1> SUFFICES ASSUME PostInv, NEW k \in Post!Queries,
                    cache[k] # None, fetches[k] = None, ~Post!Pending(k), k \notin behind
             PROVE  cache[k] = Post!Answer(k)
  BY DEF Post!SettledIsShown
<1>1. ~Applied(k)
  BY DEF Applied, Post!Pending
<1>2. ~Clicked(k)
  BY DEF Clicked, Post!Pending, Post!KeysOf
<1>3. QED BY <1>1, <1>2 DEF PostInv, Current

-----------------------------------------------------------------------------
(* Both pages *)

\* The pages share whether the API is reached.
TabInv == FeedInv /\ PostInv

LEMMA InitTabInv == TabInit => TabInv
BY InitFeedInv, InitPostInv DEF TabInit, TabInv

LEMMA PostInvKept ==
  ASSUME PostInv, UNCHANGED postVars, reached' \in BOOLEAN
  PROVE  PostInv'
<1>1. UNCHANGED <<mine, others, thread, deleted, cache, fetches, mutation, behind>>
  BY DEF postVars
<1>2. Post!TypeOK'
  BY <1>1 DEF PostInv, Post!TypeOK
<1>3. ASSUME NEW k \in Post!Queries
      PROVE  Current(k)'
  BY <1>1 DEF PostInv, Current, Applied, Clicked, Post!InStage, Post!KeysOf, Post!Answer, Post!Done
<1>4. QED BY <1>2, <1>3 DEF PostInv

LEMMA FeedInvKept ==
  ASSUME FeedInv, UNCHANGED <<server, data, fetch, mutations>>, reached' \in BOOLEAN
  PROVE  FeedInv'
<1>1. UNCHANGED <<now, born, live, made, data, fetch, creating, liking, likes>>
  BY DEF server, mutations
<1>2. QED
  BY <1>1 DEF FeedInv, ServerInv, DataInv, FetchInv, CreatingInv, LikingInv, CountersInv, Restorable, Collected,
              Snapshot, Descending, Announced, Complete, Listed

LEMMA TabInvStep == TabInv /\ [TabNext]_tabVars => TabInv'
<1> SUFFICES ASSUME FeedInv, PostInv, [TabNext]_tabVars
             PROVE  FeedInv' /\ PostInv'
  BY DEF TabInv
<1>1. CASE FeedStep(Next)
  <2>1. FeedInv'
    BY <1>1, FeedInvStep DEF FeedStep
  <2>2. PostInv'
    BY <1>1, <2>1, PostInvKept DEF FeedStep, FeedInv, CountersInv
  <2>3. QED BY <2>1, <2>2
<1>2. CASE PostStep(Post!Next)
  <2>1. PostInv'
    BY <1>2, PostInvStep DEF PostStep
  <2>2. FeedInv'
    BY <1>2, <2>1, FeedInvKept DEF PostStep, PostInv, Post!TypeOK
  <2>3. QED BY <2>1, <2>2
<1>3. CASE UNCHANGED tabVars
  <2>1. UNCHANGED vars /\ UNCHANGED postVars /\ UNCHANGED tab
    BY <1>3 DEF tabVars
  <2>2. FeedInv'
    BY <2>1, FeedInvStep
  <2>3. PostInv'
    BY <2>1, <2>2, PostInvKept DEF FeedInv, CountersInv
  <2>4. QED BY <2>2, <2>3
<1>4. QED BY <1>1, <1>2, <1>3 DEF TabNext

LEMMA TabInvariant == TabSpec => []TabInv
<1>1. QED BY InitTabInv, TabInvStep, PTL DEF TabSpec

\* The state of both pages is well typed, whatever snapshots are restored.
THEOREM TypeCorrect == TabSpec => []TabTypeOK
<1>1. TabInv => TabTypeOK
  BY FeedInvTypeOK DEF TabInv, PostInv, TabTypeOK
<1>2. QED BY <1>1, TabInvariant, PTL

\* feedQuery collects pages that were read at different times, around posts that are created
\* and deleted in between, and shows created posts early: no post is on two pages, nor beside
\* the entry that announced it.
THEOREM PostsShownOnce == TabSpec => []ShownOnce
<1>1. TabInv => ShownOnce
  BY FeedInvShownOnce DEF TabInv
<1>2. QED BY <1>1, TabInvariant, PTL

\* The cursor is a time: what the pages leave out lies before the last cursor, is newer than
\* the first page, or was created in the second of a cursor.
THEOREM PostsNotSkipped == TabSpec => []NothingSkipped
<1>1. TabInv => NothingSkipped
  BY FeedInvNothingSkipped DEF TabInv
<1>2. QED BY <1>1, TabInvariant, PTL

\* postLikeMutation and commentLikeMutation show a like before the server has it and restore a
\* snapshot when it fails: in whatever order clicks, answers, failures and fetches
\* come, a page that is settled shows what the server has, but for what it was not told, and
\* for what was added while the first fetch of a query was answered already.
THEOREM SettledShown == TabSpec => []SettledIsShown
<1>1. TabInv => SettledIsShown
  BY PostInvSettled DEF TabInv, SettledIsShown
<1>2. QED BY <1>1, TabInvariant, PTL
=============================================================================
