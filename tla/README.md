# MyCirvia in TLA+

MyCirvia is a community application: people meet in *Cirvias* (communities),
write to a feed and to chats, and decide how much of their identity they show.
The repository holds a NestJS API on SQLite and Redis, a media worker, and a
Next.js web client. This directory models the parts of it that keep state and
whose correctness depends on the order of things: modules that TLC checks on
small instances, and proofs, checked by TLAPS, that hold for every instance.

- [The system](#the-system): components, their state, and what is hard about them
- [Modules](#modules): what models what, action by action
- [Runs](#runs): what is checked, the bounds, the fairness
- [What the checks found](#what-the-checks-found)
- [Proofs](#proofs)
- [Not modelled](#not-modelled)
- [Plan](#plan)

To check a module: `tlc -config ChatRooms.cfg MCChatRooms.tla`; to check
proofs: `tlapm CirviaProofs.tla`. `PROJECT.json` lists every run, the
source lines behind every definition, the hazards and the theorems. Each
module also holds mutants: operators that change a definition the way a bug in
the code would, used to show that each property depends on the code.

## The system

| component | state | operations | interacts with |
|---|---|---|---|
| Cirvia service (`cirvia/cirvia.service.ts`) | `CirviaMember`, `CirviaInvite`, `IdentityScope` rows | create, createInvite, join, approve, kick, ban, mute, unmute, updateRole | the database, shared by all API processes; chat access and mutes are read from its rows |
| Identity resolver (`identity-scope/services/IdentityResolverService.ts`) | `IdentityScope` rows it creates | resolveIdentity, resolveIdentityBulk | called by Cirvia, chat and feed services |
| Identity reveal (`identity-reveal.ts`) | reveal records, stored scopes, listeners (in memory) | reveal, requestMutualReveal, acceptMutualReveal, revokeReveal, subscribe | calls the listeners subscribed in the same process; nothing connects them to the pages |
| Scope endpoints (`identity-scope/app.js`) | scopes per user and place (in memory) | three PUTs, DELETE | a PUT for a chat emits ids, to which nothing listens |
| Chat gateway and service (`chat/`) | sockets, rooms, `ws:user:*` and `ws:rate:*` in Redis, messages | connect, disconnect, join-chat, leave-chat, send-message, message-read, typing | membership rows, Redis, Socket.IO's Redis adapter |
| Media (`media/`, `queue/`, `workers/`) | `Media` rows, stored objects, BullMQ jobs | requestUpload, confirmUpload, strip job, scan job | object store, Redis, workers in processes of their own |
| Feed (`feed/feed.service.ts`) | posts, comments, likes | create, edit, delete, like, list by cursor | membership rows, resolver |
| Web session (`apps/web/lib/api/client.ts`, `lib/store/auth-store.ts`) | tokens per tab and in the local storage, the refresh in progress | load, login, logout, request, refresh | other tabs; an authorization server that is not in the repository |
| Feed pages (`apps/web/app/(protected)/cirvias/[id]/feed`, `.../posts/[postId]`) | query cache, fetches and mutations under way | walk the feed, post, like, comment | the feed API |
| Conversation page (`components/chat-conversation.tsx`) | query cache, the room it has joined | open, send, delete | the API, whose identities come from the resolver; the socket |

What makes it hard:

- **One process is serial, several are not.** `PrismaService` calls SQLite
  synchronously, so what a handler does between two awaits is not interrupted
  in its process. `README.md` of the repository shows several API processes,
  and the handlers check in one statement and write in another.
- **Awaits.** The resolver, the chat and the media handlers await Redis, the
  object store or each other in the middle of what they do; other calls, of the
  same user too, run in between.
- **Sequences of legal calls.** Members are kicked, return, are muted, promoted;
  reveals are requested, accepted, revoked. Every handler overwrites rows that
  others rely on.
- **Pages run ahead of the server.** They show posts and likes before the server
  knows of them, take them back to snapshots, and fetch on intervals meanwhile;
  answers, rollbacks and events overtake each other, posts are deleted and
  memberships end.
- **Failure.** Redis commands fail one by one, workers crash in the middle of a
  job, sockets close or reconnect while a handler runs for them, answers are lost.

The properties that make each component correct are listed with its module
below. The hazards in `PROJECT.json` give the line at which each difficulty bites
and the property that covers it.

## Modules

| module | models | extends |
|---|---|---|
| `CirviaMembership` | the Cirvia handlers in one process | |
| `CirviaInstances` | the same handlers, statement by statement, in several processes | `CirviaMembership` |
| `IdentityReveal` | reveal service, its resolver, and its gateway with listeners | |
| `IdentityResolver` | single and bulk identity resolution with joins in between | |
| `IdentityScopes` | the scope endpoints | |
| `FeedThreads` | posts, comments and likes of the feed | |
| `FeedPage` | `listFeed` and the page that walks its cursors and posts ahead of the server | |
| `PostPage` | the page of one post: likes and comments, overtaking each other | |
| `WebPages` | a browser tab with either page | `FeedPage`, instance of `PostPage` |
| `ChatRooms` | sockets, room, registry and rate limiter of one group chat | |
| `ChatMessages` | one-to-one chats, messages, deletions and receipts in several processes | |
| `MediaPipeline` | upload, confirm, queue and worker of one file | |
| `WebSession` | tokens and refreshes of browser tabs over one local storage | |
| `MC...` | symmetry and constants for TLC | the module of that name |
| `MCIdentity` | resolver, reveals and scope endpoints side by side, for one run | these three |
| `CirviaProofs` | theorems about both Cirvia modules, and the refinement between them | `CirviaInstances` |
| `IdentityProofs` | theorems about resolver, reveals and scope endpoints | these three |
| `WebPagesProofs` | theorems about the feed pages | `WebPages` |
| other `...Proofs` | theorems and their proofs | the module of that name |

`IdentityReveal` and `IdentityScopes` prefix the names of their specification
(`RevealInit`, `ScopesNext`), so that one module of proofs, and `MCIdentity`, extend them together.

### CirviaMembership

One Cirvia; the rows of another are never touched by the same call.
`member[u]` is the `CirviaMember` row of `u` (role, status, and whether
`mutedUntil` is null, past or future) or `NoRow`; `invite[i]` the
`CirviaInvite` row; `cirviaScope` and `globalScope` the users that have the
`IdentityScope` rows. Each action is one handler: `Create`, `CreateInvite`,
`Join`, `ApproveMember`, `KickMember`, `BanMember`, `MuteMember`,
`UnmuteMember`, `UpdateRole`. `ExpireMute`, `ExpireInvite` and
`DeactivateInvite` are time and a column that is changed outside this code.
Durations are not validated by the DTOs, so a mute may end in the past.

*Invariants:* `InviteWithinLimit`; `RowInv`, which is `MutedHasDeadline`,
`NoRemovedOwner` and `ScopesFollowMembership`. *What no step may do:*
`JoinRespectsCapacity`, `LastOwnerKept`, `OwnershipIsNotRegained`,
`AdmissionNeedsStaff`.

### CirviaInstances

Each process in `Instances` runs one handler at a time, kept in `request[p]`
with its stage. `Begin...` actions do the first SELECT, `Check...` the ones
after it, `Write...` the transaction at the end; `Fail` ends a handler at any
stage (a refused check, a busy database, a crash) and leaves nothing behind,
as what it would write is one transaction. The processes share the rows
of `CirviaMembership`.

`ImplementsAtomicHandlers` states that with one process every behaviour is one
of `CirviaMembership` (the write is the atomic handler, every other step
stutters); with two it is not. `OvershootBounded` says what remains of the invite
limit then: with n processes, n - 1 more uses.

### IdentityReveal

One one-to-one chat with participants A and B. `reveal[u]` is the status of the
record from `u` to the other, `scope[v]` what `setScope` stored for viewer `v`.
The actions are the four calls of `ChatRevealService`, with the identity each
resolves on its way (`resolveIdentityFor`) and the event it emits, and the
listeners of `ChatIdentityGateway` that come and go (`Subscribe`, `Unsubscribe`).
`heard[v][l]` is the identity of the other participant that a listener was told
last. `consent[u]` is a history variable: the last thing `u` said was not to revoke.

There is no page here. The gateway's listeners are functions in the process of
the service; nothing in the repository connects them to the Socket.IO rooms of
`chat.gateway.ts`, which the conversation page joins, and the identities the page shows
come from `chat.service.ts` (lines 41 and 55), that is from the resolver of the next
section, which does not read reveals.

*Properties:* an identity is resolved in full only while its owner consents
(`VisibleOnlyWithConsent`); whoever is visible can revoke (`VisibleCanRevoke`);
the stored scope covers what the resolver answers
(`StoredScopeCoversResolver`); no listener is left with an identity that was
withdrawn (`WithdrawalIsHeard`). That every change of an identity's visibility
is emitted, as the repository's README says, is not so (see below).

### IdentityResolver

`exact[u]` is the level of `u`'s scope row for the Cirvia, `chatScopes[u]` the
levels of its `CHAT_1TO1` rows, `defaults[u]` the
sequence of its `GLOBAL_DEFAULT` rows: the unique index of the schema contains
`cirviaId`, which is NULL for them, and so it does not forbid a second one.
A resolution is a task with a stage per awaited statement: `ReadExact`,
`ReadDefaults`, then one `Answer` or `CreateDefault` per subject. `Join` is what
`CirviaService` ensures of scopes, in between. A single resolution
takes the oldest default (LIMIT 1), a bulk one the newest (the last row wins in
its Map). `ExactScopes` is the first lookup: of a Cirvia the one row; of a chat,
in the bulk resolutions of `chat.service.ts`, any of the subject's `CHAT_1TO1` rows,
since the query names no chat and no order. No code writes such rows; they
are there from the start or not. A context of `GLOBAL_DEFAULT` reads the default twice.
`applied` is a history: the levels that were right at some
moment since the resolution began.

*Properties:* nobody is shown at a level that did not apply during the
resolution (`AnswersWereCurrent`); a default that somebody has chosen is never
joined by another (`ChosenDefaultIsAlone`), so the two ways to pick a row agree.
That a user has one default (`OneDefault`), as a test of the repository says, is not
so; what remains is that duplicates are bounded by the resolutions in progress
(`DuplicatesBounded`).

### IdentityScopes

The Express app of `identity-scope/app.js`, a prototype beside the Nest API with
its own store. The scopes of one user, by place: the default, Cirvias, chats.
`PutScope` stands for the three PUTs: validation of the request
(`Valid`: the names of the profile, `NamesFit`, and the toggles the level
allows, `Allowed`) and `upsertScope` (`Merged`).
`DeleteScope` is the DELETE. There is one toggle of each kind that validation
distinguishes. The event of a PUT for a chat is left out: it carries ids, nothing
in the repository listens to it, and unless a sender is passed in it is not sent.

*Properties:* that a stored scope has no toggle on which its level does not allow
(`TogglesFitLevel`) is what the validation says, and is not so, because only the request
is validated; what remains is that such a toggle was on in the same scope before
its level was lowered (`ExcessIsKept`).

### FeedThreads

The feed of one Cirvia. `role[u]` is what `requireMember` answers for `u`,
`post` and `comment` are rows or `None`, `likes` and `commentLikes` the sets of
like rows. Handlers that answer with counts await the author's identity in the
middle: they leave a `view` behind, which `AnswerPost`, `AnswerComment` or
`AnswerThread` completes after anything else has happened. `Roots` is the
nesting of `listComments`: a reply to a deleted comment moves to the top.
`Moderate` is `CirviaMembership` seen from here.

*Properties:* what hangs below a deleted post does not change any more
(`DeletedIsFrozen`), though only the row of the post is marked; a thread shows
every comment that was read (`ThreadIsWhole`); whoever is told that it likes a
post is counted (`LikedIsCounted`). `TypeOK`, proved, includes that a reply answers
a comment on the same post.

### FeedPage, PostPage, WebPages

`FeedPage`: posts are numbered as they are created and have the second of their
creation in `born`; those of one second come in any order, as `ORDER BY createdAt`
leaves it open. `Before`, `Newest` and `NextCursor` are `listFeed`. `data` is what
the page shows: the pages read so far and the entries it has put there itself;
`fetch` is the fetch under way, which reads page after page (`ReadPage`): all
there are for a refetch (`Refetch`: the interval, a retry, an invalidation), one
more at the end of the list (`FetchNextPage`). `Submit`, `Create`,
`CreateSucceeds` and `CreateFails` are the composer's mutation; `Like`,
`LikeSucceeds`, `LikeFails` a like, reduced to what it does to the list: the
snapshot it restores is of the whole list. `OtherCreates`, `Delete` and `Tick` are
other members and time.

`reached` says that the network works and the user is an active member; it changes at any
time (`Move`). While it does not hold fetches fail (`FetchFails`), after the one retry that
`providers.tsx` sets, and the page keeps what it has. A mutation may fail at any time. Likes
may overlap, as their button is not disabled; each keeps its own snapshot.

`PostPage`: `cache` and `fetches` are the two queries, the post and its comments; a
fetch is asked for, served and arrives. A mutation is a record of what was sent
and how far it is: sent, applied, or lost on the way back while the server may
still serve it (`ServeLost`). `ClickLike` is `onMutate` of both likes, for a button that
may lag behind the data, `TakeBack` their `onError` with the `onSettled` after it,
`Succeeds` and `Fails` the end of each. `Answer` is what the API answers and
`normalizeComment` makes of it. The post may be deleted (`DeletePost`), after which
its fetches fail for good (`Failing`). `invalidateQueries` replaces the fetch under way
of a query that has data, and lets a first fetch go on (`Kept`), whose answer may then
be older than the change. `behind` is a history: what the page cannot know yet.

A tab shows one of the two (`WebPages`); their queries have different keys, so
that neither acts on the other.

*Properties:* `ShownOnce` (no post on two pages, nor beside the entry that announced
it), `NothingSkipped` (walking the cursors misses no post, except those of the second
in which a page ends), `SettledIsShown` (when the user's last click is settled and
the fetch after it has arrived, the page shows what the server has, however
clicks, rollbacks and fetches overtook each other; what a first fetch was answered
too early for is exempted), `PagesCatchUp` (under fairness the page in view ends up with
what the server has, whatever becomes of its mutations, unless its fetches fail again and
again: the post is deleted, the user no member); `TabTypeOK` includes that the list has a page to put an entry on.

### ChatRooms

One group chat. A socket connects (`Connect`), is registered in Redis
(`Register`), closes (`Disconnect`), is unregistered (`Unregister`), or is lost
with its process (`ConnectionLost`). `join-chat` is `JoinChat` (the access check)
and, after the await, `EnterRoom`. `send-message` is `SendMessage` (INCR and the
answer to it) or `RefuseMessage`, `SetExpiry` when the answer was 1,
`CheckAccess`, `StoreUnlessMuted` and `EmitNewMessage`. `CallFails` ends a handler at
any of these. `Moderate` is `CirviaMembership` seen from here: users gain and
lose access, and are muted. `WindowEnds` is Redis expiring the counter. `REDIS_URL` always
has a value (`env.ts`), so the in-memory fallbacks of `ChatRedisService` are not
reachable and are left out.

*Properties:* no window lets more than `Limit` messages pass
(`PassedWithinLimit`); a running counter has an end or lost it
(`CounterHasEnd`); an entry in the registry names a socket of that user and only
connected sockets are in the room (`SocketsAreCurrent`).

### ChatMessages

The chat of two users, served by several processes. `handler[p]` is what process
`p` has between two of its steps: `FindChat` and `InsertChat` are
`createOneToOneChat`; `SendMessage` and `DeleteMessage` write the row and leave the
event to `Emit`; `FindReceipt` and `InsertReceipt` are `markMessageRead`, `Report`
what the gateway does with its answer. Statements of SQLite are synchronous and
what is awaited between them is not I/O, so that a process finishes a handler
before it begins another, except for `Report`, which asks Redis. An event reaches the
sockets of the same process at once and those of others by way of Redis (`wire`,
`Deliver`, `EventLost`). `HandlerFails` is a statement that fails or a process that
dies, after which the row is there and the event is not sent.

*Properties:* two users have at most one chat per process (`ChatsPerPair`); a user
that was sent a message which is deleted is about to be told, unless the
announcement was lost or another process served the deletion
(`DeletedIsTakenAway`); a reading is written once, and reported unless the author
is not found (`ReadingIsReported`).

### MediaPipeline

One key. `object` is what the store holds (which upload, and whether it is
stripped), `row` the status in `Media`. `ObjectExists`, `MarkProcessing`, `QueueExifStrip`,
`QueueMalwareScan` are the awaits of `confirmUpload`, with `ConfirmFails` in between. A worker takes
a job and for the strip job downloads, stores the cleaned copy, and marks the row;
`ExifFails` is the catch block. A job of a worker that crashed is run again until
BullMQ gives up (`MaxStalls`); a job that failed is not retried, as jobs are
added without attempts.

*Properties:* `ReadyIsStripped` and `ConfirmedIsStripped` (a picture that is
reported ready has lost its metadata), `VerdictStands` (the verdict on a file
confirmed once is not overwritten), `ProcessingEnds` (whoever polls is answered,
unless a job was lost for good).

### WebSession

Sessions are numbered in the order the server issues them; the store of each tab
(`session[t]`) and the local storage (`stored`) hold the numbers of two tokens, or
0. A tab reads the storage when it is loaded (`Load`) and writes it with every
change of its store (`setSession`, `clearSession`); it does not hear of changes by
other tabs, since the store has no listener for them. A 401 makes a request begin
a refresh (`BeginRefresh`), join the one in progress (`JoinRefresh`) or give up
(`NothingToRefresh`); the answer (`Refreshed`, `RefreshFailed`) releases all that
waited in that tab, in one step, as the promise and what awaits it are settled
before the browser handles the next event. The server may or may not issue a
refresh token at a login, and may or may not replace it at a refresh.

*Properties:* a tab presents no refresh token again that was replaced
(`PresentedOnce`); a logout outlives everything but the tab's own login, its own
refresh in flight, and a session that another tab has stored when it is
loaded (`LogoutHolds`); every request ends (`RequestsSettle`). Proved besides:
`WaiterHasRefresh`.

## Runs

| run | instance | what it shows |
|---|---|---|
| `cirvia` | 3 users, 1 invite, limits 1, 2 or none | all sequences of calls in one process keep the properties of `CirviaMembership` |
| `one_instance` | 2 users, 1 process | statement by statement, one process implements the atomic handlers |
| `two_instances` | 2 users, 2 processes, kick and mute | a single-use invite overshoots by one use at most |
| `identity` | 2 subjects, 2 concurrent resolutions, 2 levels; 2 listeners of each participant; one Cirvia, one chat, one toggle of each kind | consent is respected and withdrawals are heard; answers are current, duplicates bounded and anonymous; toggles in excess of a level were on before |
| `duplicates` | 1 subject, 2 concurrent resolutions | *violation:* a user gets two defaults |
| `lowered` | the default scope alone | *violation:* a lowered scope keeps toggles its level does not allow |
| `chat` | 2 users, 2 sockets, 2 handlers, 1 message per window | registry, room and limiter under closing and crashing |
| `feed` | 2 users, 2 posts, 2 comments, 1 like at a time | deletion, threads and counts while answers are awaited |
| `pages` | 1 post of others and 1 own, 1 per page, 1 deletion, 1 like; 2 clicks, 1 change by others | cursors, optimistic entries and rollbacks of both pages, with liveness |
| `messages` | 2 users, 2 processes, 1 message, 2 events on the wire | chats, deletions and receipts between processes |
| `media` | 2 uploads, 2 confirms, 1 worker, 1 stall | the pipeline with crashes, with liveness |
| `session` | 2 tabs, 2 requests each, 3 sessions | tabs on one storage and refreshes shared by requests, with liveness |

**Bounds and why they are enough.** Three users are an owner, another member of
staff and a target; a fourth can only repeat one of them. One invite: handlers
read the invite that is redeemed and no other. `UseBound` stops counting uses of
an invite without a limit, above every limit. Two processes exhibit every race between one
check and one write; the proofs cover n of them. Two comments are a comment and its
reply, two posts let a reply point to another thread, and one like that comes and
goes is enough for a count to change under an answer (`MaxLikes`). The chat needs a second socket
for a user to reconnect and a second handler for a message to overtake another;
`CountBound` is one above the limit, so that a message is refused. Two uploads
let one overwrite another that is being processed, two confirms let a file be
confirmed again; the model has one worker, as the repository runs, and its two
jobs interleave with calls and crashes. `MaxTokens` lets a login, a refresh and
another refresh follow each other; two requests of a tab are one that begins a
refresh and one that joins it or comes too late. A page of one post and two posts
make a post move from page to page when another comes or goes (`PageSize`,
`MaxOthersPosts`, `MaxDeleted`); two seconds (`MaxTime`) put posts into the same
second and into different ones; a like (`MaxLikes`) overlaps a creation, and the proofs cover
any number that overlap; two clicks of the page of a post overtake each other; fetches,
clicks and creations fail as often as they like. Two listeners are one
that has heard and one that comes later. `Levels` has ANONYMOUS and one level above it,
as PARTIAL and FULL are treated alike; the proofs are for any. One
message has an author, a reader, and a deletion that two processes may serve; two
events on the wire (`MaxWire`) are the message and its deletion. Somebody else
likes the post once (`MaxOthers`), which is enough for the page to be behind.

**Deadlock** is checked where a system never stops. It is not for a Cirvia that has
lost its staff and its invites, a chat whose (bounded) sockets are used up, a
file that is processed, and a user of the scope endpoints whose name is refused: these do
stop.

**Fairness** is weak and on what the runtime must do, never on clients:
- `WebPages`: the interval of the page in view ends again and again; a fetch reads its next page, is answered, or fails. Nothing is asked of mutations.
- `MediaPipeline`: a confirm call goes on or fails; a worker is restarted and works.
- `WebSession`: a call over the network ends in an answer or an error.

## What the checks found

Two runs expect a violation: the code does what a line of the repository excludes.

- `duplicates`: 'cannot create multiple GLOBAL_DEFAULT scopes for the same user'
  (`test/identity-scope.test.js:28`). Two resolutions that have both found no default
  create one each; the chats that `getMyChats` resolves at once are enough. Single
  and bulk resolution would pick different rows if they differed, which
  `ChosenDefaultIsAlone` excludes.
- `lowered`: 'ANONYMOUS only allows showAgeRange and showGender' (`services.js:76`),
  'ANONYMOUS scopes cannot enable showProfilePhoto or showRealName.'
  (`identityScopeValidation.js:12`). `upsertScope` merges the toggles of a request into
  those stored, so a scope lowered from FULL to ANONYMOUS keeps `showRealName`.

The rest are behaviours of the models that no property forbids, or that a property exempts
by name. But for the first, no line of the repository that we know of excludes them. They
deserve a look by whoever maintains the code.

Identities:
- `requestMutualReveal` replaces a one-sided reveal, hides the identity, and calls
  `notifyUser` but not `emitToChat`: after `Subscribe`, `Reveal`, `RequestMutualReveal` the
  listener keeps the full identity. "When chat identity visibility changes, the API emits
  websocket room events for authorized chat participants", says `README.md:108`, but of
  rooms, to which nothing connects the gateway at all. Who asked has not withdrawn its
  consent, so that `WithdrawalIsHeard` holds.

Cirvia:
- The only owner that redeems an invite of its own Cirvia becomes a plain member
  (`Join` resets role and status of an existing row), and nobody can be made owner
  again (`OwnershipIsNotRegained`); `LastOwnerKept` exempts joins for this.
- A kicked member is a member again once it is muted or unmuted (`MuteMember`,
  `UnmuteMember` ask for the role of the target only).
- With two processes a single-use invite can be used twice, a member promoted to
  owner between the check and the write of its kick is removed, and two owners who
  step down at once leave none.

Chat:
- When EXPIRE is not executed after INCR, the counter has no end and the user is
  limited for good (`unlimited`, which `CounterHasEnd` exempts).
- A kicked member's socket stays in the room of a chat it had joined, and the
  disconnect of an old socket unregisters the new one of the same user.
- A deletion that another process serves may be announced before the message is,
  which then stays on the page; `getChatMessages` answers deleted messages with
  their text.
- The gateway emits `{message, sender}`, while the page drops whatever has no
  `chatId` of its own at the top level; the page sends `{text, clientId}`, while the
  API takes `contentText`.

Feed pages:
- A post that was created in the second in which a page ends is skipped by the
  cursor, which compares with `<` (`NothingSkipped` exempts it).
- `normalizeComment` answers every comment as not liked, so that after a fetch a
  liked comment can only be liked again.
- A creation that fails before the list was ever fetched leaves its entry until the
  interval fetches the list.
- A comment posted while the first fetch of the comments has been answered but has not
  arrived is missing until the interval fetches again.
- The page of a post that was deleted, and the pages of somebody who is no member any
  more, go on showing what they have.

Session and media:
- A refresh answered after a logout stores its tokens: the user is logged in again.
  A logout in one tab leaves other tabs logged in, and two tabs, or one before and
  after it is loaded again, may present the same refresh token.
- A refresh answered without a user drops the stored one.
- A second confirm of a file queues a second strip job, which may overwrite the
  verdict of the first scan.

## Proofs

Proved for every value of the constants that satisfies the ASSUMEs of the module
(finite sets of users, comments, creations, processes and tasks; positive limits; bounds
that are numbers; ANONYMOUS among the levels; `NoLimit`, `None`, `NoScope` and `Asked` outside the values they stand
beside). No module with a theorem uses a RECURSIVE operator.

Three theorems have a single process as a hypothesis, as the runs of the same properties
do; the others have no hypothesis but these ASSUMEs. `OneProcessIsAtomic` is false with
two processes (`Overshoot` says what remains). `ConfirmedStripped` and `VerdictKept` ask
for one media worker, as the repository runs it: with two, TLC finds a behaviour
against each, since a strip job may then run beside the scan of its file or beside another
strip job.

**CirviaProofs**, the atomic handlers. `TypeCorrect`; then `InviteLimit` (inductive as
it stands with the types: only `Join` increments, under `WithinLimit`).
`RowsConsistent` proves the three parts of `RowInv` together. The action properties
(`LastOwner`, `NoOwnerAgain`, `Admission`, `Capacity`) follow from the types, action
by action; `LastOwner` needs that `updateRole` has counted two active owners, from which
`AnotherElement` picks the one that remains.

**CirviaProofs**, several processes. `InstTypeCorrect` needs `TargetsExist`: a handler
that is about to write has found the row of its target, and rows do not vanish
(`RowsStay`). `Overshoot` (invites exceed their limit by at most n - 1 uses) is
not inductive. `DueInv` is: the uses plus the joins that have passed the check
and not yet written are at most maxUses + n - 1. A new join passes only while
uses < maxUses and at most n - 1 others are due; a write moves one from due to used.

**CirviaProofs**, the refinement. `OneProcessIsAtomic`: with one process every step of
the split handlers is a step of the atomic ones, or stutters. The invariant is
`Checked`: at each stage, all that the handler has checked so far is still true when it
writes. It is kept because nothing else writes meanwhile but the environment: the end
of a silence changes no role or status, on which the checks depend (`StandingKept`), and an
invite that is closed while a join is under way counts as open until it ends, in the
mapping (`seenInvite`).

**IdentityProofs**, reveals. `RevealTypeCorrect`; `Consent` from `ConsentInv`, which
speaks of both records, since either may make an identity visible: without consent the
own record is absent or revoked and the other's is not confirmed. `WithdrawalsHeard` is
inductive with the types: the records after a revoke hide who revokes (`RevokedIsHidden`),
which is what its event is resolved from, and every other event about somebody is its own reveal.
`VisibleRevocable` from `StandingInv`, which excludes that one record is confirmed and
the other absent or revoked; `ScopeCovers` is inductive with the types.

**IdentityProofs**, the resolver. `TypeCorrect`; `ChosenDefault` and `CurrentAnswers`
from `IInv`: at each stage what a resolution has found so far, completed by the
rows as they are, is a level that has applied; and at the last stage whoever
has found nothing leaves behind only anonymous rows, so that one more changes
nothing (`AppendAnonymous`). `DuplicatesLimit` from `BoundInv`: a subject's
rows and the tasks about to create one for it (`Creators`) are at most n + 1,
and nobody becomes a creator once there is a row (`NoNewCreator`).

**IdentityProofs**, the endpoints. `ExcessKept`, action by action: what a PUT stores in excess
of its level is not in the request, which was valid, and so was stored before.

**MediaPipelineProofs.** `TypeCorrect` with `Uploaded`. `ReadyStripped`, for any
number of workers, from `OnceStripped`: a strip job that has stored its copy has
stripped the only upload there is. `ConfirmedStripped` from `StripInv`: a picture that is
ready, or that a job is about to mark so, is clean or has a strip job to come.
`VerdictKept` from `VerdictInv`: of a file confirmed by one call the scan is queued
last, no strip job waits behind it (`StripFirst`), and with one worker none is left when
the verdict comes (`ScanLast`); a crash puts a job back in front.

**FeedThreadsProofs.** `TypeCorrect`, in the parts `VarsTyped` and `RepliesFit`,
since only the handlers that write comments or posts touch the second.
`DeletedStays` shows of each action that it acts on another post, because
`getPostOrThrow` refuses the deleted one, and that it leaves the four parts of
`Content` (`ContentStays`). `LikesCounted`: the like and the count of an answer are
read in one step, and answers are not changed afterwards. `ThreadsWhole` needs that
replies have no cycle. `RankedInv` says so: rows can be numbered such that a
reply has a higher number than what it answers, and none reaches the number of rows; a new
comment takes the next number, since nothing answers it yet. `TreesInv` adds that rows
which were read stay and answer what they answered. `RankedIsShown` then climbs the
levels of the tree.

**WebPagesProofs**, the feed. `PostsShownOnce` and `PostsNotSkipped` from `FeedInv`,
which keeps the same of whatever may be shown later: the data, the pages a fetch has
collected, and the snapshots that a failed creation or like restores. Of each (`Snapshot`)
the pages lie one below the other by their cursors (`Descending`), what was created for
an entry is newer than every cursor (`Announced`), and what was there when the
first page was read is on a page, below the last cursor or of the second of a
cursor (`Complete`). `PageRead` is the step that matters: a page is read of posts that
were created and deleted since the page above it. `ServerBound` bounds the posts.

**WebPagesProofs**, a post. `SettledShown` from `PostInv`: unless the server has done
something of which the page will hear (`Applied`) or may not (`behind`), the answer on its
way is what the server has, and so is what is shown when there is no fetch and no like
shown early (`Current`). A click gives up the fetch, the end of a mutation asks for another,
and an answer from before that is not shown, unless it is that of a first fetch, which
`invalidateQueries` keeps and then counts as behind (`Invalidated`). A query whose fetch fails is behind until it is
served. `TypeCorrect` covers both pages, which share whether the API is reached.

**ChatRoomsProofs.** `TypeCorrect` with `OwnersKnown`: a socket whose registration
or removal is under way has a user. `LimitHolds` and `CountersEnd` from
`LimiterInv`, which bounds the messages that passed by the counter: the counter is
incremented before it is compared, so a message passes only while it is within the
limit. `SocketsCurrent` is inductive with the types.

**ChatMessagesProofs.** `ReadingReported` is inductive with the types. `ChatsLimited`
from `CreationInv`: once there is a chat, no process begins another creation, so
chats and creations in progress are at most the processes. `DeletionsArrive` from
`DeletionInv`: as long as message and deletion were served by one process, that
process emits the message before it can begin the deletion (`EmitsFirst`), and so the
deletion follows the message on every wire (`WireInOrder`) and to every page
(`ShownInOrder`), or was lost (`Pending`).

**WebSessionProofs.** `TypeCorrect`; `WaitersHaveRefresh` from `WaitInv`: what a tab
awaits is the request that began its refresh, which has posted.
`TokensPresentedOnce` from `SessionInv`: the storage is the store of the tab that last
wrote it, no token is known before it is issued, and a tab that still holds a token
it has posted is awaiting the answer. `LogoutsHold` follows action by action.

**Data.** The induction theorems of the library take an operator, which the
provers cannot instantiate. Where a proof goes through numbers (`MinNat`, `Least`,
`Climb`), it takes the least number of the set of those that fail; this is also how
`LevelsExist` shows that the recursive function in `Shown` is defined.

**Only model-checked:** liveness (`ProcessingEnds`,
`RequestsSettle`, `PagesCatchUp`), as the prover has no rules for fairness and
ENABLED. Every invariant and every other temporal property that a passing run
checks is stated by a theorem.

## Not modelled

- **Optimistic chat messages.** Page and server disagree on the fields of a message
  (see above), so that no message of one reaches the other in a form it handles:
  a model would show one of them as the code is not.
- **Reads that keep nothing:** `getChatMessages`, unread counts, `listPublic` (which
  pages by OFFSET and filters after LIMIT), `listMy`, `listMembers`. **Typing**: an
  event without state.
- **Forms and the other pages**: rendering and validation. **Seeds**: scripts run by hand.
- **Guards, strategies, filters, logging, redaction, field stripping**: stateless.
- **Notifications, audit, permissions**: placeholders. **Mobile app and the
  worker package**: stubs.
- **The wiring of `ChatRevealService`**: it is served by `http.ts`, not by the Nest
  application, and its store is lost on a restart; the model is of one run of it.
- **How a reveal would reach a page**: the page listens for `identity-revealed` and
  `identity-revoked` (`chat-conversation.tsx:92`), and nothing sends them to it.
- **A page that is in no room** after its socket has reconnected by itself.
- **The database engine.** `PrismaService` opens SQLite, as `schema.prisma` says:
  one file, writers serialised, `SQLITE_BUSY` as a failure.
- **Media:** a status update that fails itself, and a job that BullMQ takes for
  stalled while its worker lives.
- **Web session:** the `user` beside the tokens.

## Plan

What could follow, in this order:

1. What remains of `ConfirmedIsStripped` and `VerdictStands` with n workers, as
   `OvershootBounded` says it of n processes.
2. `ChatPage`, once page and gateway agree on a message: optimistic messages
   composed with the events of `ChatMessages`.
