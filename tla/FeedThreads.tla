---------------------------- MODULE FeedThreads ----------------------------
(* Posts, comments and likes of one Cirvia (feed.service.ts) in one API process.    *)
(* The database is synchronous, so a handler is interrupted only where it awaits    *)
(* the identity resolver: the handlers that answer with a post, a comment or a      *)
(* thread read the row, wait, and read likes and counts afterwards.  A view is such *)
(* an answer under way, or the last one given.  Texts, media and times are          *)
(* abstracted away; pages of the feed (listFeed) are not modelled.                  *)
EXTENDS Integers, FiniteSets

CONSTANTS
  Users,
  Posts,     \* ids that createPost may give out
  Comments,  \* ids that createComment may give out
  Views,     \* calls that await the identity resolver at a time
  MaxLikes,  \* bound: likes of posts and comments at a time
  None       \* no row, no parent

ASSUME UsersAssumption == IsFiniteSet(Users) /\ IsFiniteSet(Comments)

VARIABLES
  role,          \* what requireMember answers: "none" unless the membership is ACTIVE
  post,          \* the Post rows
  comment,       \* the Comment rows
  likes,         \* the PostLike rows
  commentLikes,  \* the CommentLike rows
  view           \* answers under way and the last ones given

vars == <<role, post, comment, likes, commentLikes, view>>

\* Only ADMIN and OWNER differ from other roles here.
Roles == {"none", "member", "admin"}

PostRows == [authorId : Users, isDeleted : BOOLEAN]

CommentRows == [postId : Posts, authorId : Users, parentCommentId : Comments \cup {None}, isDeleted : BOOLEAN]

ASSUME NoneAssumption == None \notin Comments \cup PostRows \cup CommentRows

ViewStates ==
  [op : {"none"}]
    \cup [op : {"post"}, postId : Posts, user : Users]
    \cup [op : {"postAnswer"}, liked : BOOLEAN, likeCount : Nat, commentCount : Nat]
    \cup [op : {"comment"}, commentId : Comments]
    \cup [op : {"commentAnswer"}, likeCount : Nat]
    \cup [op : {"thread"}, rows : SUBSET Comments]
    \cup [op : {"tree"}, rows : SUBSET Comments, roots : SUBSET Comments]

-----------------------------------------------------------------------------
(* What the handlers read *)

requireMember(u) == role[u] # "none"

IsAdmin(u) == role[u] = "admin"

getPostOrThrow(p) == post[p] # None /\ ~post[p].isDeleted

getCommentOrThrow(c) == comment[c] # None /\ ~comment[c].isDeleted

CommentsOf(p) == {c \in Comments : getCommentOrThrow(c) /\ comment[c].postId = p}

postLikeCount(p) == Cardinality({u \in Users : <<p, u>> \in likes})

commentLikeCount(c) == Cardinality({u \in Users : <<c, u>> \in commentLikes})

\* Whoever acts on a comment needs its post and a membership in the Cirvia of that.
ReachesComment(u, c) ==
  /\ getCommentOrThrow(c)
  /\ getPostOrThrow(comment[c].postId)
  /\ requireMember(u)

Free(v) == view[v].op \in {"none", "postAnswer", "commentAnswer", "tree"}

\* The first half of attachPostContext.
AwaitAuthor(v, u, p) == view' = [view EXCEPT ![v] = [op |-> "post", postId |-> p, user |-> u]]

LikesBelowBound == Cardinality(likes) + Cardinality(commentLikes) < MaxLikes

-----------------------------------------------------------------------------
(* Posts *)

CreatePost(v, u, p) ==
  /\ Free(v) /\ requireMember(u)
  /\ post[p] = None
  /\ post' = [post EXCEPT ![p] = [authorId |-> u, isDeleted |-> FALSE]]
  /\ AwaitAuthor(v, u, p)
  /\ UNCHANGED <<role, comment, likes, commentLikes>>

GetPost(v, u, p) ==
  /\ Free(v) /\ getPostOrThrow(p) /\ requireMember(u)
  /\ AwaitAuthor(v, u, p)
  /\ UNCHANGED <<role, post, comment, likes, commentLikes>>

\* Writes a text and a time, which are abstracted away.
UpdatePost(v, u, p) ==
  /\ Free(v) /\ getPostOrThrow(p) /\ requireMember(u)
  /\ post[p].authorId = u
  /\ AwaitAuthor(v, u, p)
  /\ UNCHANGED <<role, post, comment, likes, commentLikes>>

DeletePost(u, p) ==
  /\ getPostOrThrow(p) /\ requireMember(u)
  /\ post[p].authorId = u \/ IsAdmin(u)
  /\ post' = [post EXCEPT ![p].isDeleted = TRUE]
  /\ UNCHANGED <<role, comment, likes, commentLikes, view>>

\* INSERT OR IGNORE under the unique index: a second like changes nothing.
LikePost(u, p) ==
  /\ getPostOrThrow(p) /\ requireMember(u)
  /\ LikesBelowBound
  /\ likes' = likes \cup {<<p, u>>}
  /\ UNCHANGED <<role, post, comment, commentLikes, view>>

UnlikePost(u, p) ==
  /\ getPostOrThrow(p) /\ requireMember(u)
  /\ likes' = likes \ {<<p, u>>}
  /\ UNCHANGED <<role, post, comment, commentLikes, view>>

\* Mutant of AnswerPost: awaits between the caller's like and the counts.
AnswerPostAwaiting(v) ==
  /\ \/ /\ view[v].op = "post"
        /\ view' = [view EXCEPT ![v] =
             [op |-> "liked", postId |-> view[v].postId, liked |-> <<view[v].postId, view[v].user>> \in likes]]
     \/ /\ view[v].op = "liked"
        /\ view' = [view EXCEPT ![v] =
             [op |-> "postAnswer", liked |-> view[v].liked, likeCount |-> postLikeCount(view[v].postId),
              commentCount |-> Cardinality(CommentsOf(view[v].postId))]]
  /\ UNCHANGED <<role, post, comment, likes, commentLikes>>

\* The second half of attachPostContext; the post may have been deleted meanwhile.
AnswerPost(v) ==
  /\ view[v].op = "post"
  /\ LET p == view[v].postId
     IN view' = [view EXCEPT ![v] =
          [op |-> "postAnswer", liked |-> <<p, view[v].user>> \in likes, likeCount |-> postLikeCount(p),
           commentCount |-> Cardinality(CommentsOf(p))]]
  /\ UNCHANGED <<role, post, comment, likes, commentLikes>>

-----------------------------------------------------------------------------
(* Comments *)

NewComment(u, p, parent) ==
  [postId |-> p, authorId |-> u, parentCommentId |-> parent, isDeleted |-> FALSE]

ParentFits(p, parent) == parent # None => getCommentOrThrow(parent) /\ comment[parent].postId = p

CreateComment(v, u, p, c, parent) ==
  /\ Free(v) /\ getPostOrThrow(p) /\ requireMember(u)
  /\ ParentFits(p, parent)
  /\ comment[c] = None
  /\ comment' = [comment EXCEPT ![c] = NewComment(u, p, parent)]
  /\ view' = [view EXCEPT ![v] = [op |-> "comment", commentId |-> c]]
  /\ UNCHANGED <<role, post, likes, commentLikes>>

AnswerComment(v) ==
  /\ view[v].op = "comment"
  /\ view' = [view EXCEPT ![v] = [op |-> "commentAnswer", likeCount |-> commentLikeCount(view[v].commentId)]]
  /\ UNCHANGED <<role, post, comment, likes, commentLikes>>

ListComments(v, u, p) ==
  /\ Free(v) /\ getPostOrThrow(p) /\ requireMember(u)
  /\ view' = [view EXCEPT ![v] = [op |-> "thread", rows |-> CommentsOf(p)]]
  /\ UNCHANGED <<role, post, comment, likes, commentLikes>>

\* Mutant of Roots: a reply is never shown at the top.
RootsWithoutParent(rows) == {c \in rows : comment[c].parentCommentId = None}

\* A reply whose parent is not among the rows, having been deleted, moves to the top.
Roots(rows) == {c \in rows : comment[c].parentCommentId \notin rows}

AnswerThread(v) ==
  /\ view[v].op = "thread"
  /\ view' = [view EXCEPT ![v] = [op |-> "tree", rows |-> view[v].rows, roots |-> Roots(view[v].rows)]]
  /\ UNCHANGED <<role, post, comment, likes, commentLikes>>

DeleteComment(u, c) ==
  /\ ReachesComment(u, c)
  /\ comment[c].authorId = u \/ IsAdmin(u)
  /\ comment' = [comment EXCEPT ![c].isDeleted = TRUE]
  /\ UNCHANGED <<role, post, likes, commentLikes, view>>

\* Mutant of LikeComment: does not look at the post.
LikeCommentOfAnyPost(u, c) ==
  /\ getCommentOrThrow(c) /\ requireMember(u)
  /\ LikesBelowBound
  /\ commentLikes' = commentLikes \cup {<<c, u>>}
  /\ UNCHANGED <<role, post, comment, likes, view>>

LikeComment(u, c) ==
  /\ ReachesComment(u, c)
  /\ LikesBelowBound
  /\ commentLikes' = commentLikes \cup {<<c, u>>}
  /\ UNCHANGED <<role, post, comment, likes, view>>

UnlikeComment(u, c) ==
  /\ ReachesComment(u, c)
  /\ commentLikes' = commentLikes \ {<<c, u>>}
  /\ UNCHANGED <<role, post, comment, likes, view>>

-----------------------------------------------------------------------------
\* The Cirvia's handlers admit, promote, silence and remove members meanwhile.
Moderate(u) ==
  /\ \E r \in Roles \ {role[u]} : role' = [role EXCEPT ![u] = r]
  /\ UNCHANGED <<post, comment, likes, commentLikes, view>>

Init ==
  /\ role \in [Users -> Roles]
  /\ post = [p \in Posts |-> None]
  /\ comment = [c \in Comments |-> None]
  /\ likes = {} /\ commentLikes = {}
  /\ view = [v \in Views |-> [op |-> "none"]]

PostNext(u, p) ==
  \/ \E v \in Views : CreatePost(v, u, p) \/ GetPost(v, u, p) \/ UpdatePost(v, u, p)
  \/ DeletePost(u, p) \/ LikePost(u, p) \/ UnlikePost(u, p)

CommentNext(u, c) ==
  \/ \E v \in Views, p \in Posts, parent \in Comments \cup {None} : CreateComment(v, u, p, c, parent)
  \/ DeleteComment(u, c) \/ LikeComment(u, c) \/ UnlikeComment(u, c)

Next ==
  \/ \E u \in Users, p \in Posts : PostNext(u, p)
  \/ \E u \in Users, c \in Comments : CommentNext(u, c)
  \/ \E v \in Views, u \in Users, p \in Posts : ListComments(v, u, p)
  \/ \E v \in Views : AnswerPost(v) \/ AnswerComment(v) \/ AnswerThread(v)
  \/ \E u \in Users : Moderate(u)

Spec == Init /\ [][Next]_vars

-----------------------------------------------------------------------------
(* Properties *)

\* Rows and answers are well formed: a comment's post exists, and a reply answers a
\* comment on the same post (createComment :247).
TypeOK ==
  /\ role \in [Users -> Roles]
  /\ post \in [Posts -> PostRows \cup {None}]
  /\ comment \in [Comments -> CommentRows \cup {None}]
  /\ likes \subseteq Posts \X Users
  /\ commentLikes \subseteq Comments \X Users
  /\ view \in [Views -> ViewStates]
  /\ \A c \in Comments : comment[c] # None =>
       /\ post[comment[c].postId] # None
       /\ comment[c].parentCommentId # None =>
            /\ comment[comment[c].parentCommentId] # None
            /\ comment[comment[c].parentCommentId].postId = comment[c].postId

\* Everything on the post p: its row, its likes, its comments and theirs.
Content(p) ==
  LET on == {c \in Comments : comment[c] # None /\ comment[c].postId = p}
  IN <<post[p], {u \in Users : <<p, u>> \in likes}, [c \in on |-> comment[c]],
       {like \in commentLikes : like[1] \in on}>>

\* A deleted post is left as it was, comments and all: deletePost marks the row of
\* the post alone, and every handler of what hangs below it has to look there.
DeletedIsFrozen ==
  [][\A p \in Posts : post[p] # None /\ post[p].isDeleted => Content(p)' = Content(p)]_vars

\* The comments below the roots of a thread, level by level.
Shown(tree) ==
  LET below[n \in 0 .. Cardinality(Comments)] ==
        IF n = 0 THEN tree.roots
        ELSE below[n - 1] \cup {c \in tree.rows : comment[c].parentCommentId \in below[n - 1]}
  IN below[Cardinality(Comments)]

\* listComments shows every comment it has read, whatever of the conversation around
\* it has been deleted: the tree of replies reaches them all.
ThreadIsWhole == \A v \in Views : view[v].op = "tree" => Shown(view[v]) = view[v].rows

\* likedByCurrentUser and likeCount agree: a caller whose like is shown is counted,
\* whoever likes and unlikes while the author's identity is awaited.
LikedIsCounted == \A v \in Views : view[v].op = "postAnswer" /\ view[v].liked => view[v].likeCount > 0
=============================================================================
