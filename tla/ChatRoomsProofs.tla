---------------------------- MODULE ChatRoomsProofs ----------------------------
(***************************************************************************)
(* Proofs about ChatRooms, for every number of users, sockets and handlers *)
(* in progress, and every limit of the rate limiter.                       *)
(***************************************************************************)
EXTENDS ChatRooms, TLAPS

-----------------------------------------------------------------------------
(* Typing.  A socket has a user from its connection to its removal, which is   *)
(* what Register and Unregister look the user up by.                           *)

OwnersKnown ==
  /\ \A s \in unused : owner[s] = None
  /\ \A s \in opening \cup closing : owner[s] # None

RoomsTypeInv == TypeOK /\ OwnersKnown

LEMMA OwnerIsUser ==
  ASSUME TypeOK, NEW s \in Sockets, owner[s] # None
  PROVE  owner[s] \in Users
BY DEF TypeOK

\* A handler ends, or goes on with what it keeps.
LEMMA CallTypes ==
  ASSUME TypeOK, NEW c \in Calls,
         \/ Ends(c)
         \/ \E stage \in {"expire", "access", "muted", "emit"} : call[c].op = "send" /\ GoTo(c, stage)
  PROVE  call' \in [Calls -> {Idle} \cup JoinCalls \cup SendCalls]
<1>1. CASE Ends(c)
  BY <1>1 DEF Ends, TypeOK
<1>2. ASSUME NEW stage \in {"expire", "access", "muted", "emit"}, call[c].op = "send", GoTo(c, stage)
      PROVE  call' \in [Calls -> {Idle} \cup JoinCalls \cup SendCalls]
  <2>1. call[c] \in SendCalls
    BY <1>2 DEF TypeOK, Idle, JoinCalls
  <2>2. [call[c] EXCEPT !.stage = stage] \in SendCalls
    BY <2>1 DEF SendCalls
  <2>3. QED BY <1>2, <2>2 DEF GoTo, TypeOK
<1>3. QED BY <1>1, <1>2

LEMMA InitTypes == Init => RoomsTypeInv
BY DEF Init, RoomsTypeInv, TypeOK, OwnersKnown, Idle

LEMMA ConnectionTypes ==
  ASSUME RoomsTypeInv, NEW s \in Sockets,
         \/ \E u \in Users : Connect(s, u)
         \/ Register(s) \/ Disconnect(s) \/ Unregister(s) \/ ConnectionLost(s)
  PROVE  RoomsTypeInv'
<1> USE DEF RoomsTypeInv, access, limiter
<1>1. ASSUME NEW u \in Users, Connect(s, u)
      PROVE  RoomsTypeInv'
  BY <1>1, NoneAssumption DEF Connect, TypeOK, OwnersKnown
<1>2. CASE Register(s)
  <2>1. owner[s] \in Users
    BY <1>2, OwnerIsUser DEF Register, OwnersKnown
  <2>2. QED BY <1>2, <2>1 DEF Register, TypeOK, OwnersKnown
<1>3. CASE Disconnect(s)
  BY <1>3 DEF Disconnect, Connected, TypeOK, OwnersKnown
<1>4. CASE Unregister(s)
  BY <1>4 DEF Unregister, TypeOK, OwnersKnown
<1>5. CASE ConnectionLost(s)
  BY <1>5 DEF ConnectionLost, TypeOK, OwnersKnown
<1>6. QED BY <1>1, <1>2, <1>3, <1>4, <1>5

LEMMA MessageTypes ==
  ASSUME RoomsTypeInv, NEW s \in Sockets,
         \/ LeaveChat(s) \/ RefuseMessage(s)
         \/ \E c \in Calls : JoinChat(c, s) \/ SendMessage(c, s)
  PROVE  RoomsTypeInv'
<1> USE DEF RoomsTypeInv, access, limiter, connection
<1>1. CASE LeaveChat(s)
  BY <1>1 DEF LeaveChat, TypeOK, OwnersKnown
<1>2. CASE RefuseMessage(s)
  <2>1. owner[s] \in Users
    BY <1>2, OwnerIsUser DEF RefuseMessage, Connected
  <2>2. count' \in [Users -> Nat]
    BY <1>2, <2>1 DEF RefuseMessage, Increment, TypeOK
  <2>3. QED BY <1>2, <2>2 DEF RefuseMessage, TypeOK, OwnersKnown
<1>3. ASSUME NEW c \in Calls, JoinChat(c, s)
      PROVE  RoomsTypeInv'
  <2>1. owner[s] \in Users
    BY <1>3, OwnerIsUser DEF JoinChat, Connected
  <2>2. QED BY <1>3, <2>1 DEF JoinChat, TypeOK, OwnersKnown, JoinCalls
<1>4. ASSUME NEW c \in Calls, SendMessage(c, s)
      PROVE  RoomsTypeInv'
  <2>1. owner[s] \in Users
    BY <1>4, OwnerIsUser DEF SendMessage, Connected
  <2>2. count' \in [Users -> Nat] /\ passed' \in [Users -> Nat]
    BY <1>4, <2>1 DEF SendMessage, Increment, TypeOK
  <2>3. call' \in [Calls -> {Idle} \cup JoinCalls \cup SendCalls]
    BY <1>4, <2>1 DEF SendMessage, TypeOK, SendCalls
  <2>4. QED BY <1>4, <2>2, <2>3 DEF SendMessage, TypeOK, OwnersKnown
<1>5. QED BY <1>1, <1>2, <1>3, <1>4

LEMMA ProceedTypes ==
  ASSUME RoomsTypeInv, NEW c \in Calls, Proceed(c)
  PROVE  RoomsTypeInv'
<1> USE DEF RoomsTypeInv, access, limiter, connection
<1>1. CASE EnterRoom(c)
  BY <1>1, CallTypes DEF EnterRoom, Connected, TypeOK, OwnersKnown
<1>2. CASE SetExpiry(c)
  <2>1. call[c] \in SendCalls
    BY <1>2 DEF SetExpiry, Sending, TypeOK, Idle, JoinCalls
  <2>2. QED BY <1>2, <2>1, CallTypes DEF SetExpiry, Sending, TypeOK, OwnersKnown, SendCalls
<1>3. CASE CheckAccess(c) \/ StoreUnlessMuted(c) \/ EmitNewMessage(c)
  BY <1>3, CallTypes DEF CheckAccess, StoreUnlessMuted, EmitNewMessage, Sending, TypeOK, OwnersKnown
<1>4. CASE CallFails(c)
  <2>1. Sending(c, "expire") => call[c].user \in Users
    BY DEF Sending, TypeOK, Idle, JoinCalls, SendCalls
  <2>2. QED BY <1>4, <2>1, CallTypes DEF CallFails, TypeOK, OwnersKnown
<1>5. QED BY <1>1, <1>2, <1>3, <1>4 DEF Proceed

LEMMA NextTypes == RoomsTypeInv /\ [Next]_vars => RoomsTypeInv'
<1> SUFFICES ASSUME RoomsTypeInv, [Next]_vars
             PROVE  RoomsTypeInv'
  OBVIOUS
<1> USE DEF RoomsTypeInv, access, limiter, connection
<1>1. ASSUME NEW u \in Users, RegistrationExpires(u) \/ WindowEnds(u) \/ Moderate(u)
      PROVE  RoomsTypeInv'
  BY <1>1 DEF RegistrationExpires, WindowEnds, Moderate, TypeOK, OwnersKnown
<1>2. CASE UNCHANGED vars
  BY <1>2 DEF vars, TypeOK, OwnersKnown
<1>3. QED BY <1>1, <1>2, ConnectionTypes, MessageTypes, ProceedTypes DEF Next

LEMMA TypesAndOwners == Spec => []RoomsTypeInv
BY InitTypes, NextTypes, PTL DEF Spec

\* Connections, Redis keys and handlers keep their types: a socket that is to be
\* registered or removed still has its user.
THEOREM TypeCorrect == Spec => []TypeOK
<1>1. RoomsTypeInv => TypeOK
  BY DEF RoomsTypeInv
<1>2. QED BY <1>1, TypesAndOwners, PTL

-----------------------------------------------------------------------------
(* The rate limiter.  The counter counts refused messages too, so it is never  *)
(* less than what passed.                                                      *)

LimiterInv == PassedWithinLimit /\ CounterHasEnd /\ \A u \in Users : passed[u] <= count[u]

LEMMA InitLimits == Init => LimiterInv
BY LimitAssumption DEF Init, LimiterInv, PassedWithinLimit, CounterHasEnd

LEMMA NextLimits == RoomsTypeInv /\ LimiterInv /\ [Next]_vars => LimiterInv'
<1> SUFFICES ASSUME RoomsTypeInv, LimiterInv, [Next]_vars
             PROVE  LimiterInv'
  OBVIOUS
<1> USE DEF RoomsTypeInv
<1> DEFINE Starts(c, u) == Sending(c, "expire") /\ call[c].user = u
\* A step that leaves the counters alone must keep the handlers that start windows.
<1>0. ASSUME UNCHANGED <<count, passed>>, expires \subseteq expires', unlimited \subseteq unlimited',
             \A c \in Calls : \A u \in Users : Starts(c, u) => Starts(c, u)' \/ u \in expires' \cup unlimited'
      PROVE  LimiterInv'
  BY <1>0 DEF LimiterInv, PassedWithinLimit, CounterHasEnd
<1>1. ASSUME NEW s \in Sockets, RefuseMessage(s)
      PROVE  LimiterInv'
  <2>1. owner[s] \in Users
    BY <1>1, OwnerIsUser DEF RefuseMessage, Connected
  <2>2. count[owner[s]] > 0
    BY <1>1, <2>1, LimitAssumption DEF RefuseMessage, Increment, LimitHit, TypeOK
  <2>3. UNCHANGED <<passed, expires, unlimited, call>> /\ count' = [count EXCEPT ![owner[s]] = @ + 1]
    BY <1>1 DEF RefuseMessage, Increment
  <2>4. QED
    BY <2>1, <2>2, <2>3 DEF TypeOK, LimiterInv, PassedWithinLimit, CounterHasEnd, Sending
<1>2. ASSUME NEW s \in Sockets, NEW c \in Calls, SendMessage(c, s)
      PROVE  LimiterInv'
  <2>1. PICK w \in Users : w = owner[s]
    BY <1>2, OwnerIsUser DEF SendMessage, Connected
  <2>2. /\ count' = [count EXCEPT ![w] = @ + 1] /\ passed' = [passed EXCEPT ![w] = @ + 1]
        /\ ~LimitHit(count'[w]) /\ UNCHANGED <<expires, unlimited>>
        /\ call[c] = Idle
        /\ call' = [call EXCEPT ![c] =
             [op |-> "send", socket |-> s, user |-> w, stage |-> IF count'[w] = 1 THEN "expire" ELSE "access"]]
    BY <1>2, <2>1 DEF SendMessage, Increment
  <2>3. /\ count'[w] = count[w] + 1 /\ passed'[w] = passed[w] + 1 /\ count[w] \in Nat /\ passed[w] \in Nat
        /\ \A u \in Users : u # w => count'[u] = count[u] /\ passed'[u] = passed[u]
    BY <2>1, <2>2 DEF TypeOK
  <2>4. \A d \in Calls : \A u \in Users : Starts(d, u) => Starts(d, u)'
    BY <2>2 DEF Sending, Idle, TypeOK
  <2>5. count'[w] = 1 => Starts(c, w)'
    BY <2>1, <2>2 DEF Sending, TypeOK
  <2>6. CounterHasEnd'
    <3> SUFFICES ASSUME NEW u \in Users, count'[u] > 0
                 PROVE  u \in (expires \cup unlimited)' \/ \E d \in Calls : Starts(d, u)'
      BY DEF CounterHasEnd
    <3>1. CASE u = w /\ count'[w] = 1
      BY <2>5, <3>1
    <3>2. CASE ~(u = w /\ count'[w] = 1)
      <4>1. count[u] > 0
        BY <2>3, <3>2 DEF TypeOK
      <4>2. QED BY <2>2, <2>4, <4>1 DEF LimiterInv, CounterHasEnd
    <3>3. QED BY <3>1, <3>2
  <2>7. PassedWithinLimit' /\ \A u \in Users : passed'[u] <= count'[u]
    BY <2>1, <2>2, <2>3, LimitAssumption DEF LimiterInv, PassedWithinLimit, LimitHit, TypeOK
  <2>8. QED BY <2>6, <2>7 DEF LimiterInv
<1>3. ASSUME NEW c \in Calls, Proceed(c)
      PROVE  LimiterInv'
  <2>1. UNCHANGED <<count, passed>> /\ \A d \in Calls \ {c} : call'[d] = call[d]
    BY <1>3 DEF Proceed, EnterRoom, SetExpiry, CheckAccess, StoreUnlessMuted, EmitNewMessage, CallFails,
                limiter, GoTo, Ends, TypeOK
  <2>2. expires \subseteq expires' /\ unlimited \subseteq unlimited'
    BY <1>3 DEF Proceed, EnterRoom, SetExpiry, CheckAccess, StoreUnlessMuted, EmitNewMessage, CallFails, limiter
  <2>3. \A u \in Users : Starts(c, u) => u \in expires' \cup unlimited'
    BY <1>3 DEF Proceed, EnterRoom, SetExpiry, CheckAccess, StoreUnlessMuted, EmitNewMessage, CallFails, Sending
  <2>4. QED BY <1>0, <2>1, <2>2, <2>3 DEF Sending
<1>4. ASSUME NEW u \in Users, WindowEnds(u)
      PROVE  LimiterInv'
  BY <1>4, LimitAssumption DEF WindowEnds, TypeOK, LimiterInv, PassedWithinLimit, CounterHasEnd, Sending
<1>5. ASSUME NEW s \in Sockets, NEW c \in Calls, JoinChat(c, s)
      PROVE  LimiterInv'
  <2>1. \A d \in Calls : \A u \in Users : Starts(d, u) => Starts(d, u)'
    BY <1>5 DEF JoinChat, Sending, Idle, TypeOK
  <2>2. QED BY <1>0, <1>5, <2>1 DEF JoinChat, limiter
<1>6. ASSUME UNCHANGED <<count, passed, expires, unlimited, call>>
      PROVE  LimiterInv'
  BY <1>0, <1>6 DEF Sending
<1>7. QED
  BY <1>1, <1>2, <1>3, <1>4, <1>5, <1>6
     DEF Next, Connect, Register, Disconnect, Unregister, ConnectionLost, LeaveChat, RegistrationExpires,
         Moderate, vars, limiter

\* PassedWithinLimit, for every limit and however many handlers are in progress.
THEOREM LimitHolds == Spec => []PassedWithinLimit
<1>1. LimiterInv => PassedWithinLimit
  BY DEF LimiterInv
<1>2. QED BY <1>1, InitLimits, NextLimits, TypesAndOwners, PTL DEF Spec

\* CounterHasEnd: only a handler that fails between INCR and EXPIRE leaves a counter
\* that nobody ends.
THEOREM CountersEnd == Spec => []CounterHasEnd
<1>1. LimiterInv => CounterHasEnd
  BY DEF LimiterInv
<1>2. QED BY <1>1, InitLimits, NextLimits, TypesAndOwners, PTL DEF Spec

-----------------------------------------------------------------------------
(* Sockets in Redis and in the room *)

LEMMA InitSockets == Init => SocketsAreCurrent
BY DEF Init, SocketsAreCurrent

LEMMA NextSockets == RoomsTypeInv /\ SocketsAreCurrent /\ [Next]_vars => SocketsAreCurrent'
<1> SUFFICES ASSUME RoomsTypeInv, SocketsAreCurrent, [Next]_vars
             PROVE  SocketsAreCurrent'
  OBVIOUS
<1> USE DEF RoomsTypeInv, SocketsAreCurrent, Connected
<1>1. ASSUME NEW s \in Sockets, NEW u \in Users, Connect(s, u)
      PROVE  SocketsAreCurrent'
  BY <1>1, NoneAssumption DEF Connect, TypeOK, OwnersKnown
<1>2. ASSUME NEW s \in Sockets, Register(s)
      PROVE  SocketsAreCurrent'
  BY <1>2, OwnerIsUser DEF Register, TypeOK, OwnersKnown
<1>3. ASSUME NEW s \in Sockets, Disconnect(s)
      PROVE  SocketsAreCurrent'
  BY <1>3 DEF Disconnect, TypeOK
<1>4. ASSUME NEW s \in Sockets, Unregister(s)
      PROVE  SocketsAreCurrent'
  BY <1>4, OwnerIsUser DEF Unregister, TypeOK, OwnersKnown
<1>5. ASSUME NEW s \in Sockets, ConnectionLost(s)
      PROVE  SocketsAreCurrent'
  BY <1>5 DEF ConnectionLost, TypeOK
<1>6. ASSUME NEW s \in Sockets, LeaveChat(s)
      PROVE  SocketsAreCurrent'
  BY <1>6 DEF LeaveChat, TypeOK
<1>7. ASSUME NEW c \in Calls, EnterRoom(c)
      PROVE  SocketsAreCurrent'
  BY <1>7 DEF EnterRoom, TypeOK
<1>8. ASSUME NEW u \in Users, RegistrationExpires(u)
      PROVE  SocketsAreCurrent'
  BY <1>8 DEF RegistrationExpires, TypeOK
<1>9. ASSUME UNCHANGED connection
      PROVE  SocketsAreCurrent'
  BY <1>9 DEF connection
<1>10. QED
  BY <1>1, <1>2, <1>3, <1>4, <1>5, <1>6, <1>7, <1>8, <1>9
     DEF Next, RefuseMessage, JoinChat, SendMessage, Proceed, SetExpiry, CheckAccess, StoreUnlessMuted,
         EmitNewMessage, CallFails, WindowEnds, Moderate, vars, connection

\* SocketsAreCurrent, however connections, registrations and removals of a user's
\* sockets and join-chat interleave.
THEOREM SocketsCurrent == Spec => []SocketsAreCurrent
BY InitSockets, NextSockets, TypesAndOwners, PTL DEF Spec
=============================================================================
