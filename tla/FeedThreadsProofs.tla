------------------------- MODULE FeedThreadsProofs -------------------------
(* Theorems about FeedThreads, for any users, posts, comments and views.            *)
EXTENDS FeedThreads, FiniteSetTheorems, TLAPS

\* Counts are numbers.
LEMMA CountsAreNat ==
  /\ \A p : postLikeCount(p) \in Nat
  /\ \A c : commentLikeCount(c) \in Nat
  /\ \A p : Cardinality(CommentsOf(p)) \in Nat
<1>1. ASSUME NEW S \in SUBSET Users
      PROVE  Cardinality(S) \in Nat
  BY UsersAssumption, FS_Subset, FS_CardinalityType
<1>2. ASSUME NEW S \in SUBSET Comments
      PROVE  Cardinality(S) \in Nat
  BY UsersAssumption, FS_Subset, FS_CardinalityType
<1>3. \A p : postLikeCount(p) \in Nat
  BY <1>1 DEF postLikeCount
<1>4. \A c : commentLikeCount(c) \in Nat
  BY <1>1 DEF commentLikeCount
<1>5. \A p : Cardinality(CommentsOf(p)) \in Nat
  BY <1>2 DEF CommentsOf
<1>6. QED BY <1>3, <1>4, <1>5

-----------------------------------------------------------------------------
(* Type correctness *)

\* The parts of TypeOK: each variable's type, and what replies hang on.
VarsTyped ==
  /\ role \in [Users -> Roles]
  /\ post \in [Posts -> PostRows \cup {None}]
  /\ comment \in [Comments -> CommentRows \cup {None}]
  /\ likes \subseteq Posts \X Users
  /\ commentLikes \subseteq Comments \X Users

RepliesFit ==
  \A c \in Comments : comment[c] # None =>
    /\ post[comment[c].postId] # None
    /\ comment[c].parentCommentId # None =>
         /\ comment[comment[c].parentCommentId] # None
         /\ comment[comment[c].parentCommentId].postId = comment[c].postId

LEMMA TypeParts ==
  /\ TypeOK <=> VarsTyped /\ (view \in [Views -> ViewStates]) /\ RepliesFit
  /\ TypeOK' <=> VarsTyped' /\ (view \in [Views -> ViewStates])' /\ RepliesFit'
BY DEF TypeOK, VarsTyped, RepliesFit

\* Handlers that write neither posts nor comments keep what replies hang on.
LEMMA ReadersKeepReplies ==
  ASSUME RepliesFit, UNCHANGED <<post, comment>>
  PROVE  RepliesFit'
BY DEF RepliesFit

LEMMA PostHandlers ==
  ASSUME TypeOK, NEW u \in Users, NEW p \in Posts, PostNext(u, p)
  PROVE  TypeOK'
<1> USE TypeParts DEF VarsTyped
<1>1. ASSUME NEW v \in Views, CreatePost(v, u, p)
      PROVE  TypeOK'
  <2>1. [authorId |-> u, isDeleted |-> FALSE] \in PostRows
    BY DEF PostRows
  <2>2. [op |-> "post", postId |-> p, user |-> u] \in ViewStates
    BY DEF ViewStates
  <2>3. VarsTyped' /\ (view \in [Views -> ViewStates])'
    BY <1>1, <2>1, <2>2 DEF CreatePost, AwaitAuthor
  <2>4. \A q \in Posts : post[q] # None => post'[q] # None
    BY <1>1, <2>1, NoneAssumption DEF CreatePost
  <2>5. RepliesFit'
    BY <1>1, <2>4 DEF CreatePost, RepliesFit, CommentRows
  <2>6. QED BY <2>3, <2>5
<1>2. ASSUME NEW v \in Views, GetPost(v, u, p) \/ UpdatePost(v, u, p)
      PROVE  TypeOK'
  <2>1. [op |-> "post", postId |-> p, user |-> u] \in ViewStates
    BY DEF ViewStates
  <2>2. QED BY <1>2, <2>1, ReadersKeepReplies DEF GetPost, UpdatePost, AwaitAuthor
<1>3. CASE DeletePost(u, p)
  <2>1. post[p] \in PostRows
    BY <1>3 DEF DeletePost, getPostOrThrow
  <2>2. [post[p] EXCEPT !.isDeleted = TRUE] \in PostRows
    BY <2>1 DEF PostRows
  <2>3. VarsTyped' /\ (view \in [Views -> ViewStates])'
    BY <1>3, <2>2 DEF DeletePost
  <2>4. \A q \in Posts : post[q] # None => post'[q] # None
    BY <1>3, <2>2, NoneAssumption DEF DeletePost
  <2>5. RepliesFit'
    BY <1>3, <2>4 DEF DeletePost, RepliesFit, CommentRows
  <2>6. QED BY <2>3, <2>5
<1>4. CASE LikePost(u, p) \/ UnlikePost(u, p)
  BY <1>4, ReadersKeepReplies DEF LikePost, UnlikePost
<1>5. QED BY <1>1, <1>2, <1>3, <1>4 DEF PostNext

LEMMA CommentHandlers ==
  ASSUME TypeOK, NEW u \in Users, NEW c \in Comments, CommentNext(u, c)
  PROVE  TypeOK'
<1> USE TypeParts DEF VarsTyped
<1>1. ASSUME NEW v \in Views, NEW p \in Posts, NEW parent \in Comments \cup {None},
             CreateComment(v, u, p, c, parent)
      PROVE  TypeOK'
  <2> DEFINE row == NewComment(u, p, parent)
  <2>1. row \in CommentRows /\ row # None /\ row.postId = p /\ row.parentCommentId = parent
    <3>1. row \in CommentRows
      BY <1>1 DEF CommentRows, NewComment, CreateComment
    <3>2. QED BY <3>1, NoneAssumption DEF NewComment
  <2>2. [op |-> "comment", commentId |-> c] \in ViewStates
    BY DEF ViewStates
  <2> HIDE DEF row
  <2>3. comment' = [comment EXCEPT ![c] = row] /\ comment[c] = None /\ post' = post /\ post[p] # None
    BY <1>1 DEF CreateComment, getPostOrThrow, row
  <2>4. VarsTyped' /\ (view \in [Views -> ViewStates])'
    BY <1>1, <2>1, <2>2, <2>3 DEF CreateComment
  <2>5. parent # None => parent \in Comments \ {c} /\ comment[parent] # None /\ comment[parent].postId = p
    BY <1>1, <2>3 DEF CreateComment, ParentFits, getCommentOrThrow
  <2>6. RepliesFit'
    <3> SUFFICES ASSUME NEW d \in Comments, comment'[d] # None
                 PROVE  /\ post[comment'[d].postId] # None
                        /\ comment'[d].parentCommentId # None =>
                             /\ comment'[comment'[d].parentCommentId] # None
                             /\ comment'[comment'[d].parentCommentId].postId = comment'[d].postId
      BY <2>3 DEF RepliesFit
    <3>1. CASE d = c
      BY <3>1, <2>1, <2>3, <2>5
    <3>2. CASE d # c
      <4>1. comment'[d] = comment[d] /\ comment[d] \in CommentRows
        BY <3>2, <2>3
      <4>2. comment[d].parentCommentId # None => comment[d].parentCommentId \in Comments \ {c}
        BY <4>1, <2>3 DEF RepliesFit, CommentRows
      <4>3. QED BY <4>1, <4>2, <2>3 DEF RepliesFit
    <3>3. QED BY <3>1, <3>2
  <2>7. QED BY <2>4, <2>6
<1>2. CASE DeleteComment(u, c)
  <2>1. comment[c] \in CommentRows
    BY <1>2 DEF DeleteComment, ReachesComment, getCommentOrThrow
  <2> DEFINE row == [comment[c] EXCEPT !.isDeleted = TRUE]
  <2>2. /\ row \in CommentRows /\ row # None
        /\ row.postId = comment[c].postId /\ row.parentCommentId = comment[c].parentCommentId
    BY <2>1, NoneAssumption DEF CommentRows
  <2>3. comment' = [comment EXCEPT ![c] = row] /\ post' = post
    BY <1>2 DEF DeleteComment
  <2> HIDE DEF row
  <2>4. VarsTyped' /\ (view \in [Views -> ViewStates])'
    BY <1>2, <2>2, <2>3 DEF DeleteComment
  <2>5. \A d \in Comments : /\ comment'[d] # None <=> comment[d] # None
                            /\ comment[d] # None => /\ comment'[d].postId = comment[d].postId
                                                    /\ comment'[d].parentCommentId = comment[d].parentCommentId
                                                    /\ comment[d] \in CommentRows
    BY <2>1, <2>2, <2>3, NoneAssumption
  <2>6. \A d \in Comments : comment[d] # None => comment[d].parentCommentId \in Comments \cup {None}
    BY <2>5 DEF CommentRows
  <2>7. RepliesFit'
    BY <2>3, <2>5, <2>6 DEF RepliesFit
  <2>8. QED BY <2>4, <2>7
<1>3. CASE LikeComment(u, c) \/ UnlikeComment(u, c)
  BY <1>3, ReadersKeepReplies DEF LikeComment, UnlikeComment
<1>4. QED BY <1>1, <1>2, <1>3 DEF CommentNext

LEMMA Answers ==
  ASSUME TypeOK, NEW v \in Views, AnswerPost(v) \/ AnswerComment(v) \/ AnswerThread(v)
  PROVE  TypeOK'
<1> USE TypeParts DEF VarsTyped
<1>1. PICK answer \in ViewStates : view' = [view EXCEPT ![v] = answer]
  <2>1. CASE AnswerPost(v)
    <3>1. \A liked \in BOOLEAN, n, m \in Nat :
            [op |-> "postAnswer", liked |-> liked, likeCount |-> n, commentCount |-> m] \in ViewStates
      BY DEF ViewStates
    <3> DEFINE p == view[v].postId
               liked == <<p, view[v].user>> \in likes
    <3>2. liked \in BOOLEAN
      OBVIOUS
    <3>3. view' = [view EXCEPT ![v] = [op |-> "postAnswer", liked |-> liked, likeCount |-> postLikeCount(p),
                                       commentCount |-> Cardinality(CommentsOf(p))]]
      BY <2>1 DEF AnswerPost
    <3> HIDE DEF liked
    <3>4. QED BY <3>1, <3>2, <3>3, CountsAreNat
  <2>2. CASE AnswerComment(v)
    BY <2>2, CountsAreNat DEF AnswerComment, ViewStates
  <2>3. CASE AnswerThread(v)
    <3> DEFINE rows == view[v].rows
    <3>1. rows \in SUBSET Comments /\ Roots(rows) \in SUBSET Comments
      <4>1. view[v] \in [op : {"thread"}, rows : SUBSET Comments]
        BY <2>3 DEF AnswerThread, ViewStates
      <4>2. QED BY <4>1 DEF Roots
    <3>2. [op |-> "tree", rows |-> rows, roots |-> Roots(rows)] \in ViewStates
      BY <3>1 DEF ViewStates
    <3>3. QED BY <2>3, <3>2 DEF AnswerThread
  <2>4. QED BY <2>1, <2>2, <2>3
<1>2. QED
  BY <1>1, ReadersKeepReplies DEF AnswerPost, AnswerComment, AnswerThread

\* Every reachable state is well typed, and a reply answers a comment on its post.
THEOREM TypeCorrect == Spec => []TypeOK
<1>1. Init => TypeOK
  BY DEF Init, TypeOK, ViewStates
<1>2. TypeOK /\ [Next]_vars => TypeOK'
  <2> SUFFICES ASSUME TypeOK, [Next]_vars PROVE TypeOK'
    OBVIOUS
  <2>1. ASSUME NEW v \in Views, NEW u \in Users, NEW p \in Posts, ListComments(v, u, p)
        PROVE  TypeOK'
    <3>1. [op |-> "thread", rows |-> CommentsOf(p)] \in ViewStates
      BY DEF ViewStates, CommentsOf
    <3>2. QED BY <2>1, <3>1, TypeParts, ReadersKeepReplies DEF ListComments, VarsTyped
  <2>2. ASSUME NEW u \in Users, Moderate(u)
        PROVE  TypeOK'
    BY <2>2, TypeParts, ReadersKeepReplies DEF Moderate, VarsTyped
  <2>3. CASE UNCHANGED vars
    BY <2>3 DEF vars, TypeOK
  <2>4. QED
    BY <2>1, <2>2, <2>3, PostHandlers, CommentHandlers, Answers DEF Next
<1>3. QED
  BY <1>1, <1>2, PTL DEF Spec

-----------------------------------------------------------------------------
(* Likes and counts *)

\* A caller who is told that it likes a post is counted.
THEOREM LikesCounted == Spec => []LikedIsCounted
<1>1. Init => LikedIsCounted
  BY DEF Init, LikedIsCounted
<1>2. TypeOK /\ LikedIsCounted /\ [Next]_vars => LikedIsCounted'
  <2> SUFFICES ASSUME TypeOK, LikedIsCounted, [Next]_vars,
                      NEW v \in Views, view'[v].op = "postAnswer", view'[v].liked
               PROVE  view'[v].likeCount > 0
    BY DEF LikedIsCounted
  <2>1. CASE view'[v] = view[v]
    BY <2>1 DEF LikedIsCounted
  <2>2. ASSUME NEW w \in Views, AnswerPost(w), v = w
        PROVE  view'[v].likeCount > 0
    <3> DEFINE p == view[v].postId
               Likers == {u \in Users : <<p, u>> \in likes}
    <3>1. view[v] \in [op : {"post"}, postId : Posts, user : Users]
      BY <2>2 DEF AnswerPost, TypeOK, ViewStates
    <3>2. <<p, view[v].user>> \in likes /\ view'[v].likeCount = Cardinality(Likers)
      BY <2>2 DEF AnswerPost, TypeOK, postLikeCount
    <3>3. view[v].user \in Likers
      BY <3>1, <3>2
    <3>4. IsFiniteSet(Likers)
      BY UsersAssumption, FS_Subset
    <3> HIDE DEF Likers
    <3>5. Cardinality(Likers) \in Nat /\ Cardinality(Likers) # 0
      BY <3>3, <3>4, FS_CardinalityType, FS_EmptySet
    <3>6. QED BY <3>2, <3>5
  <2>3. ASSUME NEW w \in Views, view' = [view EXCEPT ![w] = view'[w]], view'[w].op # "postAnswer"
        PROVE  view'[v] = view[v]
    BY <2>3 DEF TypeOK
  <2>4. ASSUME NEW w \in Views, AnswerPost(w), v # w
        PROVE  view'[v] = view[v]
    BY <2>4 DEF AnswerPost, TypeOK
  <2>5. ASSUME NEW u \in Users, NEW p \in Posts, PostNext(u, p)
        PROVE  view'[v] = view[v]
    <3>1. ASSUME NEW w \in Views, CreatePost(w, u, p) \/ GetPost(w, u, p) \/ UpdatePost(w, u, p)
          PROVE  view' = [view EXCEPT ![w] = view'[w]] /\ view'[w].op # "postAnswer"
      BY <3>1 DEF CreatePost, GetPost, UpdatePost, AwaitAuthor, TypeOK
    <3>2. QED BY <2>5, <3>1, <2>3 DEF PostNext, DeletePost, LikePost, UnlikePost
  <2>6. ASSUME NEW u \in Users, NEW c \in Comments, CommentNext(u, c)
        PROVE  view'[v] = view[v]
    <3>1. ASSUME NEW w \in Views, NEW p \in Posts, NEW parent \in Comments \cup {None},
                 CreateComment(w, u, p, c, parent)
          PROVE  view' = [view EXCEPT ![w] = view'[w]] /\ view'[w].op # "postAnswer"
      BY <3>1 DEF CreateComment, TypeOK
    <3>2. QED BY <2>6, <3>1, <2>3 DEF CommentNext, DeleteComment, LikeComment, UnlikeComment
  <2>7. ASSUME NEW w \in Views,
               \/ AnswerComment(w) \/ AnswerThread(w)
               \/ \E u \in Users, p \in Posts : ListComments(w, u, p)
        PROVE  view'[v] = view[v]
    <3>1. view' = [view EXCEPT ![w] = view'[w]] /\ view'[w].op # "postAnswer"
      BY <2>7 DEF AnswerComment, AnswerThread, ListComments, TypeOK
    <3>2. QED BY <3>1, <2>3
  <2>8. QED
    BY <2>1, <2>2, <2>4, <2>5, <2>6, <2>7 DEF Next, Moderate, vars
<1>3. QED
  BY <1>1, <1>2, TypeCorrect, PTL DEF Spec

-----------------------------------------------------------------------------
(* Deleted posts *)

On(p) == {c \in Comments : comment[c] # None /\ comment[c].postId = p}

\* What has to stay for the content of a post to stay.
LEMMA ContentStays ==
  ASSUME NEW p \in Posts,
         post'[p] = post[p],
         \A u \in Users : <<p, u>> \in likes' <=> <<p, u>> \in likes,
         On(p)' = On(p),
         \A c \in On(p) : comment'[c] = comment[c],
         {like \in commentLikes' : like[1] \in On(p)} = {like \in commentLikes : like[1] \in On(p)}
  PROVE  Content(p)' = Content(p)
<1>1. {u \in Users : <<p, u>> \in likes'} = {u \in Users : <<p, u>> \in likes}
  OBVIOUS
<1>2. [c \in On(p)' |-> comment'[c]] = [c \in On(p) |-> comment[c]]
  OBVIOUS
<1>3. QED BY <1>1, <1>2 DEF Content, On

\* A deleted post, its likes, its comments and theirs are left as they are.
THEOREM DeletedStays == Spec => DeletedIsFrozen
<1>1. TypeOK /\ [Next]_vars =>
        [\A p \in Posts : post[p] # None /\ post[p].isDeleted => Content(p)' = Content(p)]_vars
  <2> SUFFICES ASSUME TypeOK, Next, NEW p \in Posts, post[p] # None, post[p].isDeleted
               PROVE  Content(p)' = Content(p)
    OBVIOUS
  <2> USE DEF TypeOK
  <2>1. ~getPostOrThrow(p)
    BY DEF getPostOrThrow
  <2>2. ASSUME UNCHANGED <<comment, commentLikes>>, post'[p] = post[p],
               \A u \in Users : <<p, u>> \in likes' <=> <<p, u>> \in likes
        PROVE  Content(p)' = Content(p)
    BY <2>2, ContentStays DEF On
  <2>3. ASSUME NEW u \in Users, NEW q \in Posts, PostNext(u, q)
        PROVE  Content(p)' = Content(p)
    <3>1. ASSUME NEW v \in Views, CreatePost(v, u, q)
          PROVE  Content(p)' = Content(p)
      BY <3>1, <2>2 DEF CreatePost
    <3>2. ASSUME NEW v \in Views, GetPost(v, u, q) \/ UpdatePost(v, u, q)
          PROVE  Content(p)' = Content(p)
      BY <3>2, <2>2 DEF GetPost, UpdatePost
    <3>3. CASE DeletePost(u, q)
      BY <3>3, <2>1, <2>2 DEF DeletePost
    <3>4. CASE LikePost(u, q) \/ UnlikePost(u, q)
      BY <3>4, <2>1, <2>2 DEF LikePost, UnlikePost
    <3>5. QED BY <2>3, <3>1, <3>2, <3>3, <3>4 DEF PostNext
  <2>4. ASSUME NEW u \in Users, NEW c \in Comments, CommentNext(u, c)
        PROVE  Content(p)' = Content(p)
    <3>1. ASSUME UNCHANGED <<post, likes>>,
                 c \notin On(p), c \notin On(p)',
                 \A d \in Comments \ {c} : comment'[d] = comment[d],
                 \A like : like[1] # c => (like \in commentLikes' <=> like \in commentLikes)
          PROVE  Content(p)' = Content(p)
      <4>1. On(p)' = On(p) /\ \A d \in On(p) : comment'[d] = comment[d]
        BY <3>1 DEF On
      <4>2. {like \in commentLikes' : like[1] \in On(p)} = {like \in commentLikes : like[1] \in On(p)}
        BY <3>1
      <4>3. QED BY <3>1, <4>1, <4>2, ContentStays
    <3>2. ASSUME NEW v \in Views, NEW q \in Posts, NEW parent \in Comments \cup {None},
                 CreateComment(v, u, q, c, parent)
          PROVE  Content(p)' = Content(p)
      <4>1. q # p
        BY <3>2, <2>1 DEF CreateComment
      <4>2. comment[c] = None /\ comment'[c].postId = q
        BY <3>2 DEF CreateComment, NewComment
      <4>3. QED BY <3>1, <3>2, <4>1, <4>2 DEF CreateComment, On
    <3>3. ASSUME ReachesComment(u, c)
          PROVE  c \notin On(p)
      BY <3>3, <2>1 DEF ReachesComment, On
    <3>4. CASE DeleteComment(u, c)
      <4>1. comment[c] \in CommentRows /\ c \notin On(p)
        BY <3>4, <3>3 DEF DeleteComment, ReachesComment, getCommentOrThrow
      <4>2. comment[c] # None /\ comment'[c].postId = comment[c].postId
        BY <3>4, <4>1, NoneAssumption DEF DeleteComment, CommentRows
      <4>3. QED BY <3>1, <3>4, <4>1, <4>2 DEF DeleteComment, On
    <3>5. CASE LikeComment(u, c) \/ UnlikeComment(u, c)
      <4>1. c \notin On(p)
        BY <3>5, <3>3 DEF LikeComment, UnlikeComment
      <4>2. \A like : like[1] # c => (like \in commentLikes' <=> like \in commentLikes)
        BY <3>5 DEF LikeComment, UnlikeComment
      <4>3. QED BY <3>1, <3>5, <4>1, <4>2 DEF LikeComment, UnlikeComment, On
    <3>6. QED BY <2>4, <3>2, <3>4, <3>5 DEF CommentNext
  <2>5. QED
    BY <2>2, <2>3, <2>4 DEF Next, ListComments, AnswerPost, AnswerComment, AnswerThread, Moderate
<1>2. QED
  BY <1>1, TypeCorrect, PTL DEF Spec, DeletedIsFrozen

-----------------------------------------------------------------------------
(* Threads *)

\* A nonempty set of naturals has a least element.
LEMMA Least ==
  ASSUME NEW S \in SUBSET Nat, S # {}
  PROVE  \E x \in S : \A y \in S : x <= y
<1>1. PICK x \in S : \A y \in S : ~(<<y, x>> \in OpToRel(<, Nat))
  BY WFMin, NatLessThanWellFounded
<1>2. ASSUME NEW y \in S, y < x
      PROVE  <<y, x>> \in OpToRel(<, Nat)
  <2>1. <<y, x>> \in Nat \X Nat /\ <<y, x>>[1] = y /\ <<y, x>>[2] = x
    OBVIOUS
  <2>2. QED BY <1>2, <2>1, Zenon DEF OpToRel
<1>3. \A y \in S : ~(y < x)
  BY <1>1, <1>2, Zenon
<1>4. QED BY <1>3

\* A set that holds 0, and with a number the next one up to N, holds them all.
LEMMA Climb ==
  ASSUME NEW N \in Nat, NEW S, 0 \in S, \A n \in 1..N : n - 1 \in S => n \in S
  PROVE  \A n \in 0..N : n \in S
<1> DEFINE missing == {n \in 0..N : n \notin S}
<1>1. CASE missing = {}
  BY <1>1
<1>2. CASE missing # {}
  <2>1. PICK n \in missing : \A k \in missing : n <= k
    <3>1. missing \in SUBSET Nat
      OBVIOUS
    <3> HIDE DEF missing
    <3>2. QED BY <1>2, <3>1, Least
  <2>2. n \in 1..N /\ n - 1 \in 0..N /\ n - 1 \notin missing
    BY <2>1
  <2>3. QED BY <2>1, <2>2
<1>3. QED BY <1>1, <1>2

\* Levels are the levels of a tree as Shown collects them, down to the level N.
Levels(tree, N, levels) ==
  levels = [n \in 0..N |->
              IF n = 0 THEN tree.roots
              ELSE levels[n - 1] \cup {c \in tree.rows : comment[c].parentCommentId \in levels[n - 1]}]

LEMMA LevelsExist ==
  ASSUME NEW tree, NEW N \in Nat
  PROVE  \E levels : Levels(tree, N, levels)
<1> DEFINE reached == {n \in 0..N : \E levels : Levels(tree, n, levels)}
<1>1. 0 \in reached
  <2>1. Levels(tree, 0, [n \in 0..0 |-> tree.roots])
    BY DEF Levels
  <2>2. QED BY <2>1
<1>2. ASSUME NEW n \in 1..N, n - 1 \in reached
      PROVE  n \in reached
  <2>1. PICK levels : Levels(tree, n - 1, levels)
    BY <1>2
  <2> DEFINE more == [i \in 0..n |->
                        IF i < n THEN levels[i]
                        ELSE levels[n - 1] \cup {c \in tree.rows : comment[c].parentCommentId \in levels[n - 1]}]
  <2>2. \A i \in 0..(n - 1) : more[i] = levels[i]
    OBVIOUS
  <2>3. ASSUME NEW i \in 0..n
        PROVE  more[i] = IF i = 0 THEN tree.roots
                         ELSE more[i - 1] \cup {c \in tree.rows : comment[c].parentCommentId \in more[i - 1]}
    <3>1. CASE i = n
      <4>1. n # 0 /\ n - 1 \in 0..(n - 1)
        OBVIOUS
      <4>2. more[n] = levels[n - 1] \cup {c \in tree.rows : comment[c].parentCommentId \in levels[n - 1]}
        OBVIOUS
      <4> HIDE DEF more
      <4>3. QED BY <2>2, <3>1, <4>1, <4>2
    <3>2. CASE i # n
      <4>1. i \in 0..(n - 1)
        BY <3>2
      <4>2. more[i] = IF i = 0 THEN tree.roots
                      ELSE levels[i - 1] \cup {c \in tree.rows : comment[c].parentCommentId \in levels[i - 1]}
        BY <2>1, <2>2, <4>1 DEF Levels
      <4>3. i # 0 => i - 1 \in 0..(n - 1)
        BY <4>1
      <4> HIDE DEF more
      <4>4. QED BY <2>2, <4>2, <4>3
    <3>3. QED BY <3>1, <3>2
  <2>4. more = [i \in 0..n |-> more[i]]
    OBVIOUS
  <2> HIDE DEF more
  <2>5. Levels(tree, n, more)
    BY <2>3, <2>4 DEF Levels
  <2>6. QED BY <2>5
<1> HIDE DEF reached
<1>3. N \in reached
  BY <1>1, <1>2, Climb
<1>4. QED BY <1>3 DEF reached

LEMMA ShownIsLevel ==
  ASSUME NEW tree
  PROVE  \E levels : Levels(tree, Cardinality(Comments), levels) /\ Shown(tree) = levels[Cardinality(Comments)]
<1>1. PICK levels : levels = CHOOSE f : Levels(tree, Cardinality(Comments), f)
  OBVIOUS
<1>2. Cardinality(Comments) \in Nat
  BY UsersAssumption, FS_CardinalityType
<1>3. Levels(tree, Cardinality(Comments), levels)
  BY <1>1, <1>2, LevelsExist
<1>4. Shown(tree) = levels[Cardinality(Comments)]
  BY <1>1 DEF Shown, Levels
<1>5. QED BY <1>3, <1>4

Rows == {c \in Comments : comment[c] # None}

\* Replies come after what they answer, so that they can be numbered upwards.
Ranks(rank) ==
  \A c \in Rows :
    /\ rank[c] < Cardinality(Rows)
    /\ comment[c].parentCommentId # None => rank[comment[c].parentCommentId] < rank[c]

RankedInv == \E rank \in [Comments -> 0..Cardinality(Comments)] : Ranks(rank)

\* What was read stays there, and answers what it answered.
TreeFits(tree) ==
  /\ tree.op \in {"thread", "tree"} => tree.rows \subseteq Rows
  /\ tree.op = "tree" => tree.roots = Roots(tree.rows)

TreesInv == \A v \in Views : TreeFits(view[v])

\* What a handler may write to the answers about threads.
LEMMA ThreadViews ==
  ASSUME TypeOK, [Next]_vars, NEW v \in Views
  PROVE  \/ view'[v] = view[v]
         \/ view'[v].op \notin {"thread", "tree"}
         \/ \E p \in Posts : view'[v] = [op |-> "thread", rows |-> CommentsOf(p)]
         \/ view[v].op = "thread"
            /\ view'[v] = [op |-> "tree", rows |-> view[v].rows, roots |-> Roots(view[v].rows)]
<1> USE DEF TypeOK
<1>1. ASSUME NEW u \in Users, NEW p \in Posts, PostNext(u, p)
      PROVE  view'[v] = view[v] \/ view'[v].op \notin {"thread", "tree"}
  BY <1>1 DEF PostNext, CreatePost, GetPost, UpdatePost, AwaitAuthor, DeletePost, LikePost, UnlikePost
<1>2. ASSUME NEW u \in Users, NEW c \in Comments, CommentNext(u, c)
      PROVE  view'[v] = view[v] \/ view'[v].op \notin {"thread", "tree"}
  BY <1>2 DEF CommentNext, CreateComment, DeleteComment, LikeComment, UnlikeComment
<1>3. ASSUME NEW w \in Views, NEW u \in Users, NEW p \in Posts, ListComments(w, u, p)
      PROVE  view'[v] = view[v] \/ view'[v] = [op |-> "thread", rows |-> CommentsOf(p)]
  BY <1>3 DEF ListComments
<1>4. ASSUME NEW w \in Views, AnswerPost(w) \/ AnswerComment(w)
      PROVE  view'[v] = view[v] \/ view'[v].op \notin {"thread", "tree"}
  BY <1>4 DEF AnswerPost, AnswerComment
<1>5. ASSUME NEW w \in Views, AnswerThread(w)
      PROVE  \/ view'[v] = view[v]
             \/ view[v].op = "thread"
                /\ view'[v] = [op |-> "tree", rows |-> view[v].rows, roots |-> Roots(view[v].rows)]
  BY <1>5 DEF AnswerThread
<1>6. QED BY <1>1, <1>2, <1>3, <1>4, <1>5 DEF Next, Moderate, vars

\* No handler moves a comment, or takes its row away.
LEMMA ParentsStay ==
  ASSUME TypeOK, NEW u \in Users, NEW c \in Comments, DeleteComment(u, c)
  PROVE  Rows' = Rows /\ \A d \in Rows : comment'[d].parentCommentId = comment[d].parentCommentId
<1>1. comment[c] \in CommentRows /\ c \in Rows
  BY DEF TypeOK, DeleteComment, ReachesComment, getCommentOrThrow, Rows
<1>2. PICK row \in CommentRows : row = [comment[c] EXCEPT !.isDeleted = TRUE]
  BY <1>1 DEF CommentRows
<1>3. row.parentCommentId = comment[c].parentCommentId /\ row # None
  BY <1>1, <1>2, NoneAssumption DEF CommentRows
<1>4. comment' = [comment EXCEPT ![c] = row] /\ comment \in [Comments -> CommentRows \cup {None}]
  BY <1>2 DEF DeleteComment, TypeOK
<1>5. QED BY <1>1, <1>3, <1>4 DEF Rows

\* A new comment is the only new row, and answers a row or none.
LEMMA RowAdded ==
  ASSUME TypeOK, NEW v \in Views, NEW u \in Users, NEW p \in Posts, NEW c \in Comments,
         NEW parent \in Comments \cup {None}, CreateComment(v, u, p, c, parent)
  PROVE  /\ c \notin Rows /\ Rows' = Rows \cup {c}
         /\ \A d \in Rows : comment'[d] = comment[d]
         /\ comment'[c].parentCommentId = parent /\ parent \in Rows \cup {None}
<1>1. PICK row \in CommentRows : row = NewComment(u, p, parent)
  BY DEF CommentRows, NewComment
<1>2. row.parentCommentId = parent /\ row # None
  BY <1>1, NoneAssumption DEF NewComment
<1>3. comment' = [comment EXCEPT ![c] = row] /\ comment[c] = None
      /\ comment \in [Comments -> CommentRows \cup {None}]
  BY <1>1 DEF CreateComment, TypeOK
<1>4. parent \in Rows \cup {None}
  BY DEF CreateComment, ParentFits, getCommentOrThrow, Rows
<1>5. QED BY <1>2, <1>3, <1>4 DEF Rows

LEMMA RowsKept ==
  ASSUME TypeOK, [Next]_vars
  PROVE  \A c \in Rows : c \in Rows' /\ comment'[c].parentCommentId = comment[c].parentCommentId
<1>1. ASSUME UNCHANGED comment
      PROVE  \A c \in Rows : c \in Rows' /\ comment'[c].parentCommentId = comment[c].parentCommentId
  BY <1>1 DEF Rows
<1>2. ASSUME NEW u \in Users, NEW p \in Posts, PostNext(u, p)
      PROVE  UNCHANGED comment
  BY <1>2 DEF PostNext, CreatePost, GetPost, UpdatePost, DeletePost, LikePost, UnlikePost
<1>3. ASSUME NEW u \in Users, NEW c \in Comments, CommentNext(u, c)
      PROVE  \A d \in Rows : d \in Rows' /\ comment'[d].parentCommentId = comment[d].parentCommentId
  BY <1>1, <1>3, ParentsStay, RowAdded DEF CommentNext, LikeComment, UnlikeComment
<1>4. QED
  BY <1>1, <1>2, <1>3 DEF Next, ListComments, AnswerPost, AnswerComment, AnswerThread, Moderate, vars

LEMMA RankedStep ==
  ASSUME TypeOK, RankedInv, [Next]_vars
  PROVE  RankedInv'
<1>1. PICK rank \in [Comments -> 0..Cardinality(Comments)] : Ranks(rank)
  BY DEF RankedInv
<1>2. IsFiniteSet(Rows) /\ Cardinality(Rows) \in 0..Cardinality(Comments) /\ Cardinality(Comments) \in Nat
  BY UsersAssumption, FS_Subset, FS_CardinalityType DEF Rows
<1>3. ASSUME Rows' = Rows, \A c \in Rows : comment'[c].parentCommentId = comment[c].parentCommentId
      PROVE  RankedInv'
  <2>1. Ranks(rank)'
    BY <1>1, <1>3 DEF Ranks
  <2>2. QED BY <2>1 DEF RankedInv
<1>4. ASSUME NEW v \in Views, NEW u \in Users, NEW p \in Posts, NEW c \in Comments,
             NEW parent \in Comments \cup {None}, CreateComment(v, u, p, c, parent)
      PROVE  RankedInv'
  <2>1. PICK next : next = [rank EXCEPT ![c] = Cardinality(Rows)]
    OBVIOUS
  <2>2. next \in [Comments -> 0..Cardinality(Comments)]
    BY <1>2, <2>1
  <2>3. /\ c \notin Rows /\ Rows' = Rows \cup {c}
        /\ \A d \in Rows : comment'[d] = comment[d]
        /\ comment'[c].parentCommentId = parent /\ parent \in Rows \cup {None}
    BY <1>4, RowAdded
  <2>4. Cardinality(Rows') = Cardinality(Rows) + 1
    BY <1>2, <2>3, FS_AddElement
  <2>5. next[c] = Cardinality(Rows) /\ \A d \in Rows : next[d] = rank[d] /\ rank[d] \in Nat
    BY <2>1, <2>3 DEF Rows
  <2>6. \A d \in Rows : comment[d].parentCommentId # None => comment[d].parentCommentId \in Rows
    BY DEF TypeOK, CommentRows, Rows
  <2>7. Ranks(next)'
    <3> SUFFICES ASSUME NEW d \in Rows'
                 PROVE  /\ next[d] < Cardinality(Rows')
                        /\ comment'[d].parentCommentId # None => next[comment'[d].parentCommentId] < next[d]
      BY DEF Ranks
    <3>1. CASE d = c
      BY <1>1, <1>2, <2>3, <2>4, <2>5, <3>1 DEF Ranks
    <3>2. CASE d \in Rows
      BY <1>1, <1>2, <2>3, <2>4, <2>5, <2>6, <3>2 DEF Ranks
    <3>3. QED BY <2>3, <3>1, <3>2
  <2>8. QED BY <2>2, <2>7 DEF RankedInv
<1>5. ASSUME UNCHANGED comment
      PROVE  RankedInv'
  BY <1>3, <1>5 DEF Rows
<1>6. ASSUME NEW u \in Users, NEW p \in Posts, PostNext(u, p)
      PROVE  UNCHANGED comment
  BY <1>6 DEF PostNext, CreatePost, GetPost, UpdatePost, DeletePost, LikePost, UnlikePost
<1>7. ASSUME NEW u \in Users, NEW c \in Comments, CommentNext(u, c)
      PROVE  RankedInv'
  BY <1>3, <1>4, <1>5, <1>7, ParentsStay DEF CommentNext, LikeComment, UnlikeComment
<1>8. QED
  BY <1>5, <1>6, <1>7 DEF Next, ListComments, AnswerPost, AnswerComment, AnswerThread, Moderate, vars

LEMMA TreesStep ==
  ASSUME TypeOK, TreesInv, [Next]_vars
  PROVE  TreesInv'
<1> SUFFICES ASSUME NEW v \in Views, NEW tree, tree = view'[v]
             PROVE  TreeFits(tree)'
  BY DEF TreesInv
<1>1. ASSUME NEW rows, rows \subseteq Rows
      PROVE  rows \subseteq Rows' /\ Roots(rows)' = Roots(rows)
  BY <1>1, RowsKept DEF Roots
<1>2. CASE tree = view[v]
  <2>1. TreeFits(tree)
    BY <1>2 DEF TreesInv
  <2>2. QED BY <1>1, <2>1 DEF TreeFits
<1>3. ASSUME NEW p \in Posts, tree = [op |-> "thread", rows |-> CommentsOf(p)]
      PROVE  TreeFits(tree)'
  <2>1. CommentsOf(p) \subseteq Rows
    BY DEF CommentsOf, getCommentOrThrow, Rows
  <2>2. tree.op = "thread" /\ tree.rows \subseteq Rows'
    BY <1>1, <1>3, <2>1
  <2>3. QED BY <2>2 DEF TreeFits
<1>4. ASSUME NEW read, read = view[v], read.op = "thread",
             tree = [op |-> "tree", rows |-> read.rows, roots |-> Roots(read.rows)]
      PROVE  TreeFits(tree)'
  <2>1. read.rows \subseteq Rows
    BY <1>4 DEF TreesInv, TreeFits
  <2>2. read.rows \subseteq Rows' /\ Roots(read.rows)' = Roots(read.rows)
    BY <1>1, <2>1
  <2>3. tree.op = "tree" /\ tree.rows = read.rows /\ tree.roots = Roots(read.rows)
    BY <1>4
  <2>4. QED BY <2>2, <2>3 DEF TreeFits
<1>5. CASE tree.op \notin {"thread", "tree"}
  BY <1>5 DEF TreeFits
<1>6. QED BY <1>2, <1>3, <1>4, <1>5, ThreadViews

\* From the roots, the level n shows what is not ranked above n.
LEMMA RankedIsShown ==
  ASSUME RankedInv, NEW tree, tree.rows \subseteq Rows, tree.roots = Roots(tree.rows)
  PROVE  Shown(tree) = tree.rows
<1> DEFINE N == Cardinality(Comments)
<1>1. PICK levels : Levels(tree, N, levels) /\ Shown(tree) = levels[N]
  BY ShownIsLevel
<1>2. PICK rank \in [Comments -> 0..N] : Ranks(rank)
  BY DEF RankedInv
<1>3. N \in Nat
  BY UsersAssumption, FS_CardinalityType
<1> HIDE DEF N
<1> DEFINE below == {n \in 0..N : /\ tree.roots \subseteq levels[n] /\ levels[n] \subseteq tree.rows
                                  /\ \A c \in tree.rows : rank[c] <= n => c \in levels[n]}
<1>4. tree.rows \subseteq Comments /\ tree.roots = {c \in tree.rows : comment[c].parentCommentId \notin tree.rows}
      /\ None \notin Comments
  BY NoneAssumption DEF Roots, Rows
<1>5. \A c \in tree.rows : /\ rank[c] \in 0..N
                           /\ comment[c].parentCommentId \in tree.rows => rank[comment[c].parentCommentId] < rank[c]
  BY <1>2, <1>4 DEF Ranks
<1>6. 0 \in below
  <2>1. levels[0] = tree.roots
    BY <1>1, <1>3 DEF Levels
  <2>2. \A c \in tree.rows : rank[c] <= 0 => c \in tree.roots
    BY <1>3, <1>4, <1>5
  <2>3. QED BY <1>3, <1>4, <2>1, <2>2
<1>7. ASSUME NEW n \in 1..N, n - 1 \in below
      PROVE  n \in below
  <2>1. levels[n] = levels[n - 1] \cup {c \in tree.rows : comment[c].parentCommentId \in levels[n - 1]}
    BY <1>1, <1>3 DEF Levels
  <2>2. ASSUME NEW c \in tree.rows, rank[c] <= n
        PROVE  c \in levels[n]
    <3>1. CASE comment[c].parentCommentId \notin tree.rows
      BY <1>4, <1>7, <2>1, <3>1
    <3>2. CASE comment[c].parentCommentId \in tree.rows
      <4>1. rank[comment[c].parentCommentId] <= n - 1
        BY <1>3, <1>5, <2>2, <3>2
      <4>2. QED BY <1>7, <2>1, <3>2, <4>1
    <3>3. QED BY <3>1, <3>2
  <2>3. QED BY <1>7, <2>1, <2>2
<1> HIDE DEF below
<1>8. N \in below
  BY <1>3, <1>6, <1>7, Climb
<1>9. /\ levels[N] \subseteq tree.rows
      /\ \A c \in tree.rows : rank[c] <= N => c \in levels[N]
  BY <1>8 DEF below
<1>10. \A c \in tree.rows : rank[c] <= N
  BY <1>3, <1>5
<1>11. levels[N] = tree.rows
  BY <1>9, <1>10
<1>12. QED BY <1>1, <1>11 DEF N

\* listComments reads a thread, waits for the identities of its authors and builds the tree:
\* it shows every comment it has read, whatever is deleted or answered meanwhile.
THEOREM ThreadsWhole == Spec => []ThreadIsWhole
<1>1. Init => RankedInv /\ TreesInv
  <2> SUFFICES ASSUME Init PROVE RankedInv /\ TreesInv
    OBVIOUS
  <2>1. Rows = {} /\ TreesInv
    BY DEF Init, Rows, TreesInv, TreeFits
  <2>2. [c \in Comments |-> 0] \in [Comments -> 0..Cardinality(Comments)]
    BY UsersAssumption, FS_CardinalityType
  <2>3. Ranks([c \in Comments |-> 0])
    BY <2>1 DEF Ranks
  <2>4. QED BY <2>1, <2>2, <2>3 DEF RankedInv
<1>2. TypeOK /\ RankedInv /\ TreesInv /\ [Next]_vars => RankedInv' /\ TreesInv'
  BY RankedStep, TreesStep
<1>3. RankedInv /\ TreesInv => ThreadIsWhole
  BY RankedIsShown DEF TreesInv, TreeFits, ThreadIsWhole
<1>4. QED
  BY <1>1, <1>2, <1>3, TypeCorrect, PTL DEF Spec
=============================================================================
