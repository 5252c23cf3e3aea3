----------------------------- MODULE ChatMessages -----------------------------
(***************************************************************************)
(* The one-to-one chat of two users: its creation, its messages, their     *)
(* deletion and the receipts for them, in ChatService and ChatController,  *)
(* and the events ChatGateway sends to the room and to the author.         *)
(*                                                                         *)
(* Several API processes share SQLite and Redis.  Statements of SQLite are *)
(* synchronous and what is awaited between two of them is not I/O, so a    *)
(* process does nothing else until its handler has ended or asks Redis;    *)
(* other processes do.  RedisIoAdapter carries an event to the sockets of  *)
(* other processes; sockets of the same process have it at once.           *)
(* Access (both users always have it), the rate limit and the registry of  *)
(* sockets are in ChatRooms.  Socket.IO and Redis are external.            *)
(***************************************************************************)
EXTENDS Naturals, Sequences, FiniteSets

CONSTANTS
  Processes, \* API processes
  Users,     \* the two participants
  Messages,  \* ids of messages
  MaxWire,   \* bound: events on their way to a user
  None

ASSUME ProcessesAssumption == IsFiniteSet(Processes)

ASSUME NoneAssumption == None \notin Processes \cup [author : Users, isDeleted : BOOLEAN]

VARIABLES
  chats,       \* number of chats the two have
  message,     \* the row of each message: its author and whether it is deleted, or None
  receipts,    \* rows of MessageReadReceipt: message and reader
  handler,     \* per process: the handler between two of its steps, or Idle
  reporting,   \* receipts whose handlers are asking Redis for the author's socket
  at,          \* the process that has the user's socket in the room, or None
  wire,        \* events on their way to a user from other processes
  shows,       \* messages of which the last event a user was sent is new-message
  told,        \* receipts the author was told of
  servedBy,    \* history: the process that stored a message, those that deleted it
  unannounced, \* history: deletions that a user was never sent
  unreported   \* history: receipts whose handler did not get to tell the author

rows    == <<chats, message, receipts>>
sockets == <<at, wire, shows>>
history == <<servedBy, unannounced, unreported>>
vars == <<rows, handler, reporting, sockets, told, history>>

Idle == [op |-> "idle"]

Events == [kind : {"new-message", "message-deleted"}, id : Messages]

Receipts == Messages \X Users

Handlers == {Idle} \cup [op : {"create"}] \cup [op : {"emit"}, event : Events] \cup [op : {"read"}, receipt : Receipts]

Stored(m) == message[m] # None

Begin(p, work) == handler[p] = Idle /\ handler' = [handler EXCEPT ![p] = work]

Ends(p) == handler' = [handler EXCEPT ![p] = Idle]

-----------------------------------------------------------------------------
(* createOneToOneChat *)

\* Mutant of FindChat: looks for no chat.
FindNothing(p) ==
  /\ Begin(p, [op |-> "create"])
  /\ UNCHANGED <<rows, reporting, sockets, told, history>>

\* There is none, so one will be created.
FindChat(p) ==
  /\ chats = 0
  /\ Begin(p, [op |-> "create"])
  /\ UNCHANGED <<rows, reporting, sockets, told, history>>

InsertChat(p) ==
  /\ handler[p].op = "create"
  /\ chats' = chats + 1
  /\ Ends(p)
  /\ UNCHANGED <<message, receipts, reporting, sockets, told, history>>

-----------------------------------------------------------------------------
(* send-message, and DELETE /messages/:messageId *)

\* The row is written; the author's identity is awaited before the event is sent.
SendMessage(p, m, u) ==
  /\ chats > 0 /\ ~Stored(m)
  /\ Begin(p, [op |-> "emit", event |-> [kind |-> "new-message", id |-> m]])
  /\ message' = [message EXCEPT ![m] = [author |-> u, isDeleted |-> FALSE]]
  /\ servedBy' = [servedBy EXCEPT ![m].stored = {p}]
  /\ UNCHANGED <<chats, receipts, reporting, sockets, told, unannounced, unreported>>

\* Mutant of DeleteMessage: the row is marked, and nobody is told.
DeleteSilently(p, m) ==
  /\ Stored(m)
  /\ handler[p] = Idle
  /\ message' = [message EXCEPT ![m].isDeleted = TRUE]
  /\ servedBy' = [servedBy EXCEPT ![m].deleted = @ \cup {p}]
  /\ UNCHANGED <<chats, receipts, handler, reporting, sockets, told, unannounced, unreported>>

\* By its author, which has the id from the answer or from getChatMessages, and may
\* delete again what is deleted.
DeleteMessage(p, m) ==
  /\ Stored(m)
  /\ Begin(p, [op |-> "emit", event |-> [kind |-> "message-deleted", id |-> m]])
  /\ message' = [message EXCEPT ![m].isDeleted = TRUE]
  /\ servedBy' = [servedBy EXCEPT ![m].deleted = @ \cup {p}]
  /\ UNCHANGED <<chats, receipts, reporting, sockets, told, unannounced, unreported>>

\* What a user shows after an event.
After(event, shown) == IF event.kind = "new-message" THEN shown \cup {event.id} ELSE shown \ {event.id}

\* To the room of the chat.
Emit(p) ==
  /\ handler[p].op = "emit"
  /\ \A u \in Users : Len(wire[u]) < MaxWire
  /\ LET event == handler[p].event
     IN /\ shows' = [u \in Users |-> IF at[u] = p THEN After(event, shows[u]) ELSE shows[u]]
        /\ wire' = [u \in Users |-> IF at[u] \in Processes \ {p} THEN Append(wire[u], event) ELSE wire[u]]
  /\ Ends(p)
  /\ UNCHANGED <<rows, reporting, at, told, history>>

Deliver(u) ==
  /\ wire[u] # <<>>
  /\ shows' = [shows EXCEPT ![u] = After(Head(wire[u]), @)]
  /\ wire' = [wire EXCEPT ![u] = Tail(@)]
  /\ UNCHANGED <<rows, handler, reporting, at, told, history>>

\* Deletions among the events that concern somebody.
Deletions(events) == {e.id : e \in {f \in events : f.kind = "message-deleted"}}

\* The subscription to Redis breaks, and nothing is sent twice.
EventLost(u) ==
  /\ wire[u] # <<>>
  /\ wire' = [wire EXCEPT ![u] = Tail(@)]
  /\ unannounced' = unannounced \cup (Deletions({Head(wire[u])}) \X {u})
  /\ UNCHANGED <<rows, handler, reporting, at, shows, told, servedBy, unreported>>

-----------------------------------------------------------------------------
(* message-read *)

\* Mutant of FindReceipt: the author is told before the receipt is written.
FindReceiptAndTell(p, r) ==
  /\ Stored(r[1])
  /\ IF r \in receipts
     THEN handler[p] = Idle /\ reporting' = reporting \cup {r} /\ UNCHANGED <<handler, told>>
     ELSE Begin(p, [op |-> "read", receipt |-> r]) /\ told' = told \cup {r} /\ UNCHANGED reporting
  /\ UNCHANGED <<rows, sockets, history>>

\* What has been read before is not written again, but reported again.
FindReceipt(p, r) ==
  /\ Stored(r[1])
  /\ IF r \in receipts
     THEN handler[p] = Idle /\ reporting' = reporting \cup {r} /\ UNCHANGED handler
     ELSE Begin(p, [op |-> "read", receipt |-> r]) /\ UNCHANGED reporting
  /\ UNCHANGED <<rows, sockets, told, history>>

\* The unique index refuses a receipt that another process has written meanwhile, and
\* the handler throws.
InsertReceipt(p) ==
  /\ handler[p].op = "read"
  /\ receipts' = receipts \cup {handler[p].receipt}
  /\ reporting' = reporting \cup ({handler[p].receipt} \ receipts)
  /\ Ends(p)
  /\ UNCHANGED <<chats, message, sockets, told, history>>

\* The socket that is registered for the author is sent the event, if there is one.
Report(r) ==
  /\ r \in reporting
  /\ reporting' = reporting \ {r}
  /\ \/ told' = told \cup {r} /\ UNCHANGED unreported
     \/ unreported' = unreported \cup {r} /\ UNCHANGED told
  /\ UNCHANGED <<rows, handler, sockets, servedBy, unannounced>>

-----------------------------------------------------------------------------
(* Failures, and sockets *)

\* A statement fails or the process dies: what was written stays.
HandlerFails(p) ==
  /\ handler[p] # Idle
  /\ Ends(p)
  /\ unannounced' = unannounced \cup
       (IF handler[p].op = "emit" THEN Deletions({handler[p].event}) \X Users ELSE {})
  /\ UNCHANGED <<rows, reporting, sockets, told, servedBy, unreported>>

JoinChat(u, p) ==
  /\ at[u] = None
  /\ at' = [at EXCEPT ![u] = p]
  /\ UNCHANGED <<rows, handler, reporting, wire, shows, told, history>>

\* What it shows next it fetches.
LeaveChat(u) ==
  /\ at[u] # None
  /\ at' = [at EXCEPT ![u] = None]
  /\ wire' = [wire EXCEPT ![u] = <<>>]
  /\ shows' = [shows EXCEPT ![u] = {}]
  /\ UNCHANGED <<rows, handler, reporting, told, history>>

-----------------------------------------------------------------------------
Init ==
  /\ chats = 0
  /\ message = [m \in Messages |-> None]
  /\ receipts = {}
  /\ handler = [p \in Processes |-> Idle]
  /\ reporting = {}
  /\ at = [u \in Users |-> None]
  /\ wire = [u \in Users |-> <<>>]
  /\ shows = [u \in Users |-> {}]
  /\ told = {}
  /\ servedBy = [m \in Messages |-> [stored |-> {}, deleted |-> {}]]
  /\ unannounced = {}
  /\ unreported = {}

Next ==
  \/ \E p \in Processes :
       \/ FindChat(p) \/ InsertChat(p) \/ Emit(p) \/ InsertReceipt(p) \/ HandlerFails(p)
       \/ \E m \in Messages : DeleteMessage(p, m) \/ \E u \in Users : SendMessage(p, m, u)
       \/ \E r \in Receipts : FindReceipt(p, r)
       \/ \E u \in Users : JoinChat(u, p)
  \/ \E u \in Users : Deliver(u) \/ EventLost(u) \/ LeaveChat(u)
  \/ \E r \in Receipts : Report(r)

Spec == Init /\ [][Next]_vars

-----------------------------------------------------------------------------
(* Properties *)

\* Rows, handlers and events hold values of their types.
TypeOK ==
  /\ chats \in Nat
  /\ message \in [Messages -> {None} \cup [author : Users, isDeleted : BOOLEAN]]
  /\ receipts \subseteq Receipts
  /\ handler \in [Processes -> Handlers]
  /\ reporting \subseteq Receipts
  /\ at \in [Users -> Processes \cup {None}]
  /\ wire \in [Users -> Seq(Events)]
  /\ shows \in [Users -> SUBSET Messages]
  /\ told \subseteq Receipts
  /\ servedBy \in [Messages -> [stored : SUBSET Processes, deleted : SUBSET Processes]]
  /\ unannounced \subseteq Receipts
  /\ unreported \subseteq Receipts

\* However often the two ask for a chat, and whichever processes answer, they never have
\* more of them than there are processes: one, if there is one process.
ChatsPerPair == chats <= Cardinality(Processes)

ToBeTakenAway(u, m) ==
  LET deletion == [kind |-> "message-deleted", id |-> m]
  IN \/ \E p \in Processes : handler[p].op = "emit" /\ handler[p].event = deletion
     \/ \E i \in DOMAIN wire[u] : wire[u][i] = deletion

\* Whoever has been sent a message that is deleted is about to be told, or the
\* announcement was lost on its way; a deletion overtakes the message itself only if
\* another process serves it.
DeletedIsTakenAway ==
  \A u \in Users : \A m \in shows[u] :
    message[m].isDeleted =>
      \/ ToBeTakenAway(u, m)
      \/ <<m, u>> \in unannounced
      \/ servedBy[m].deleted # servedBy[m].stored

\* Two processes that are told of the same reading leave one receipt, of which the
\* author is told unless its socket is not found; it is told of nothing that is not
\* written.
ReadingIsReported ==
  /\ told \cup reporting \subseteq receipts
  /\ receipts \subseteq told \cup reporting \cup unreported
=============================================================================
