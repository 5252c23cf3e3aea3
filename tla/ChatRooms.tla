------------------------------- MODULE ChatRooms -------------------------------
(***************************************************************************)
(* The realtime side of one group chat: socket connections, the room of    *)
(* the chat, the registry of user sockets and the rate limiter in Redis,   *)
(* and the handlers of ChatGateway with the ChatService calls they make.   *)
(*                                                                         *)
(* Several API processes serve the sockets and share SQLite and Redis, so  *)
(* every SQL statement and every Redis command of a handler is a step, and *)
(* the moderators of the Cirvia (module CirviaMembership) act in between.  *)
(* Redis and Socket.IO are external.                                       *)
(***************************************************************************)
EXTENDS Naturals, FiniteSets

CONSTANTS
  Users,
  Sockets,      \* socket ids, each used for one connection
  Calls,        \* handlers that may be in progress at a time
  Limit,        \* messages per window: 10 in the code
  CountBound,   \* bound of the model on the counter of a user
  None

ASSUME LimitAssumption == Limit \in Nat \ {0} /\ CountBound \in Nat

ASSUME NoneAssumption == None \notin Users \cup Sockets

VARIABLES
  effective,    \* members whose status is ACTIVE or MUTED
  silenced,     \* members whose mutedUntil lies in the future
  owner,        \* per socket: client.data.userId from connection to removal, else None
  unused,       \* socket ids that have not been used yet
  opening,      \* sockets whose registration in Redis is under way
  closing,      \* sockets that have closed and are still registered
  stale,        \* history: sockets that were never unregistered
  room,         \* sockets that are in the room of the chat
  userSocket,   \* Redis ws:user:<id>: the socket registered for a user, or None
  count,        \* Redis ws:rate:<id>, 0 when the key does not exist
  expires,      \* users whose ws:rate key has a time to live
  call,         \* handlers in progress
  passed,       \* history: messages the limiter let pass in the user's window
  unlimited     \* history: users whose EXPIRE was never executed

access     == <<effective, silenced>>
connection == <<owner, unused, opening, closing, stale, room, userSocket>>
limiter    == <<count, expires, passed, unlimited>>
vars == <<access, connection, limiter, call>>

Idle == [op |-> "idle"]

\* A handler keeps the user and socket it was called for.
JoinCalls == [op : {"join"}, socket : Sockets, user : Users]
SendCalls == [op : {"send"}, socket : Sockets, user : Users, stage : {"expire", "access", "muted", "emit"}]

Connected == {s \in Sockets \ closing : owner[s] # None}

Sending(c, stage) == call[c].op = "send" /\ call[c].stage = stage

GoTo(c, stage) == call' = [call EXCEPT ![c].stage = stage]

Ends(c) == call' = [call EXCEPT ![c] = Idle]

-----------------------------------------------------------------------------
(* Connections *)

Connect(s, u) ==
  /\ s \in unused
  /\ unused' = unused \ {s}
  /\ owner' = [owner EXCEPT ![s] = u]
  /\ opening' = opening \cup {s}
  /\ UNCHANGED <<access, closing, stale, room, userSocket, limiter, call>>

\* setUserSocket.  The socket may have closed by now.
Register(s) ==
  /\ s \in opening
  /\ opening' = opening \ {s}
  /\ userSocket' = [userSocket EXCEPT ![owner[s]] = s]
  /\ UNCHANGED <<access, owner, unused, closing, stale, room, limiter, call>>

Disconnect(s) ==
  /\ s \in Connected
  /\ closing' = closing \cup {s}
  /\ room' = room \ {s}
  /\ UNCHANGED <<access, owner, unused, opening, stale, userSocket, limiter, call>>

\* Mutant of Unregister: the entry in Redis is left to expire.
LeaveEntry(s) ==
  /\ s \in closing \ opening
  /\ closing' = closing \ {s}
  /\ owner' = [owner EXCEPT ![s] = None]
  /\ UNCHANGED <<access, unused, opening, stale, room, userSocket, limiter, call>>

\* removeUserSocket deletes the user's entry, whichever socket it names.
Unregister(s) ==
  /\ s \in closing \ opening
  /\ closing' = closing \ {s}
  /\ userSocket' = [userSocket EXCEPT ![owner[s]] = None]
  /\ owner' = [owner EXCEPT ![s] = None]
  /\ UNCHANGED <<access, unused, opening, stale, room, limiter, call>>

\* The process that serves the socket dies, or Redis fails it.
ConnectionLost(s) ==
  /\ owner[s] # None
  /\ owner' = [owner EXCEPT ![s] = None]
  /\ opening' = opening \ {s}
  /\ closing' = closing \ {s}
  /\ stale' = stale \cup {s}
  /\ room' = room \ {s}
  /\ UNCHANGED <<access, unused, userSocket, limiter, call>>

\* The entry lives for an hour and is not renewed.
RegistrationExpires(u) ==
  /\ userSocket[u] # None
  /\ userSocket' = [userSocket EXCEPT ![u] = None]
  /\ UNCHANGED <<access, owner, unused, opening, closing, stale, room, limiter, call>>

-----------------------------------------------------------------------------
(* join-chat and leave-chat *)

JoinChat(c, s) ==
  /\ call[c] = Idle
  /\ s \in Connected
  /\ owner[s] \in effective
  /\ call' = [call EXCEPT ![c] = [op |-> "join", socket |-> s, user |-> owner[s]]]
  /\ UNCHANGED <<access, connection, limiter>>

\* Mutant of EnterRoom: enters the room of a connection that is closed.
EnterRoomAnyway(c) ==
  /\ call[c].op = "join"
  /\ room' = room \cup {call[c].socket}
  /\ Ends(c)
  /\ UNCHANGED <<access, owner, unused, opening, closing, stale, userSocket, limiter>>

\* client.join on a socket that has closed meanwhile has no effect.
EnterRoom(c) ==
  /\ call[c].op = "join"
  /\ room' = room \cup ({call[c].socket} \cap Connected)
  /\ Ends(c)
  /\ UNCHANGED <<access, owner, unused, opening, closing, stale, userSocket, limiter>>

LeaveChat(s) ==
  /\ s \in room
  /\ room' = room \ {s}
  /\ UNCHANGED <<access, owner, unused, opening, closing, stale, userSocket, limiter, call>>

-----------------------------------------------------------------------------
(* send-message *)

\* INCR and the answer to it: the first message of a window has to start it.
Increment(u) ==
  /\ count[u] < CountBound
  /\ count' = [count EXCEPT ![u] = @ + 1]

\* Mutant of LimitHit: off by one.
LimitHitLate(n) == n > Limit + 1

LimitHit(n) == n > Limit

SendMessage(c, s) ==
  LET u == owner[s]
  IN /\ call[c] = Idle
     /\ s \in Connected
     /\ Increment(u)
     /\ ~LimitHit(count'[u])
     /\ passed' = [passed EXCEPT ![u] = @ + 1]
     /\ call' = [call EXCEPT ![c] =
          [op |-> "send", socket |-> s, user |-> u, stage |-> IF count'[u] = 1 THEN "expire" ELSE "access"]]
     /\ UNCHANGED <<access, connection, expires, unlimited>>

\* "Rate limit exceeded": the refused message is counted too.
RefuseMessage(s) ==
  /\ s \in Connected
  /\ Increment(owner[s])
  /\ LimitHit(count'[owner[s]])
  /\ UNCHANGED <<access, connection, expires, passed, unlimited, call>>

\* Mutant of SetExpiry: the window is started by the access check instead.
SkipExpiry(c) ==
  /\ Sending(c, "expire")
  /\ GoTo(c, "access")
  /\ UNCHANGED <<access, connection, limiter>>

SetExpiry(c) ==
  /\ Sending(c, "expire")
  /\ expires' = expires \cup {call[c].user}
  /\ GoTo(c, "access")
  /\ UNCHANGED <<access, connection, count, passed, unlimited>>

CheckAccess(c) ==
  /\ Sending(c, "access")
  /\ call[c].user \in effective
  /\ GoTo(c, "muted")
  /\ UNCHANGED <<access, connection, limiter>>

\* The message is stored by the statement after this check; nothing depends on
\* which messages there are.
StoreUnlessMuted(c) ==
  /\ Sending(c, "muted")
  /\ call[c].user \notin silenced
  /\ GoTo(c, "emit")
  /\ UNCHANGED <<access, connection, limiter>>

EmitNewMessage(c) ==
  /\ Sending(c, "emit")
  /\ Ends(c)
  /\ UNCHANGED <<access, connection, limiter>>

\* A check refuses, a statement or a Redis command fails, or the process dies.  A key
\* that was incremented and not given a time to live keeps none.
CallFails(c) ==
  /\ call[c] # Idle
  /\ unlimited' = IF Sending(c, "expire") THEN unlimited \cup {call[c].user} ELSE unlimited
  /\ Ends(c)
  /\ UNCHANGED <<access, connection, count, expires, passed>>

WindowEnds(u) ==
  /\ u \in expires
  /\ count' = [count EXCEPT ![u] = 0]
  /\ passed' = [passed EXCEPT ![u] = 0]
  /\ expires' = expires \ {u}
  /\ UNCHANGED <<access, connection, unlimited, call>>

-----------------------------------------------------------------------------
(* Moderation, seen from the chat: a member is admitted or loses its access, *)
(* and is muted, unmuted, or the mute ends.                                  *)

Moderate(u) ==
  /\ \/ effective' \in {effective \cup {u}, effective \ {u}} /\ UNCHANGED silenced
     \/ silenced' \in {silenced \cup {u}, silenced \ {u}} /\ UNCHANGED effective
  /\ UNCHANGED <<connection, limiter, call>>

-----------------------------------------------------------------------------
Init ==
  /\ effective = Users
  /\ silenced = {}
  /\ owner = [s \in Sockets |-> None]
  /\ unused = Sockets
  /\ opening = {}
  /\ closing = {}
  /\ stale = {}
  /\ room = {}
  /\ userSocket = [u \in Users |-> None]
  /\ count = [u \in Users |-> 0]
  /\ expires = {}
  /\ call = [c \in Calls |-> Idle]
  /\ passed = [u \in Users |-> 0]
  /\ unlimited = {}

\* What a handler in progress does next.
Proceed(c) ==
  \/ EnterRoom(c) \/ SetExpiry(c) \/ CheckAccess(c)
  \/ StoreUnlessMuted(c) \/ EmitNewMessage(c) \/ CallFails(c)

Next ==
  \/ \E s \in Sockets :
       \/ \E u \in Users : Connect(s, u)
       \/ Register(s) \/ Disconnect(s) \/ Unregister(s) \/ ConnectionLost(s)
       \/ LeaveChat(s) \/ RefuseMessage(s)
       \/ \E c \in Calls : JoinChat(c, s) \/ SendMessage(c, s)
  \/ \E c \in Calls : Proceed(c)
  \/ \E u \in Users : RegistrationExpires(u) \/ WindowEnds(u) \/ Moderate(u)

Spec == Init /\ [][Next]_vars

-----------------------------------------------------------------------------
(* Properties *)

\* Connections, Redis keys and handlers hold values of their types.
TypeOK ==
  /\ effective \subseteq Users
  /\ silenced \subseteq Users
  /\ owner \in [Sockets -> Users \cup {None}]
  /\ unused \subseteq Sockets
  /\ opening \subseteq Sockets
  /\ closing \subseteq Sockets
  /\ stale \subseteq Sockets
  /\ room \subseteq Sockets
  /\ userSocket \in [Users -> Sockets \cup {None}]
  /\ count \in [Users -> Nat]
  /\ expires \subseteq Users
  /\ call \in [Calls -> {Idle} \cup JoinCalls \cup SendCalls]
  /\ passed \in [Users -> Nat]
  /\ unlimited \subseteq Users

\* WEBSOCKET_CONTRACT.md: a window lets at most Limit messages of a user pass, however
\* many of them are handled at a time and by however many processes.
PassedWithinLimit == \A u \in Users : passed[u] <= Limit

\* A counter that runs has an end: its key has a time to live, or the handler that
\* created it is about to set one, or failed to.
CounterHasEnd ==
  \A u \in Users : count[u] > 0 =>
    u \in expires \cup unlimited \/ \E c \in Calls : Sending(c, "expire") /\ call[c].user = u

\* The registered socket belongs to that user and is connected or about to be removed,
\* so a read receipt is never addressed to a stranger, nor for long to a connection
\* that is gone; only a crash or a Redis failure leaves an entry behind.  And only
\* connected sockets are in the room, even if they close while join-chat runs.
SocketsAreCurrent ==
  /\ \A u \in Users : userSocket[u] # None => owner[userSocket[u]] = u \/ userSocket[u] \in stale
  /\ room \subseteq Connected
=============================================================================
