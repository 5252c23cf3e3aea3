-------------------------- MODULE ChatMessagesProofs --------------------------
(***************************************************************************)
(* Proofs about ChatMessages, for every number of processes, users and     *)
(* messages and however many events are on their way.                      *)
(***************************************************************************)
EXTENDS ChatMessages, FiniteSetTheorems, TLAPS

-----------------------------------------------------------------------------
(* Typing *)

\* What a handler keeps follows from what it is doing.
LEMMA HandlerKinds ==
  ASSUME TypeOK, NEW p \in Processes
  PROVE  /\ handler[p].op = "emit" => handler[p].event \in Events
         /\ handler[p].op = "read" => handler[p].receipt \in Receipts
<1>1. handler[p] \in Handlers
  BY DEF TypeOK
<1>2. QED BY <1>1 DEF Handlers, Idle

LEMMA AfterTypes ==
  ASSUME NEW event \in Events, NEW shown \in SUBSET Messages
  PROVE  After(event, shown) \in SUBSET Messages
BY DEF After, Events

LEMMA DeletionTypes ==
  ASSUME NEW event \in Events, NEW S \in SUBSET Users
  PROVE  Deletions({event}) \X S \in SUBSET Receipts
BY DEF Deletions, Events, Receipts

LEMMA InitTypes == Init => TypeOK
BY DEF Init, TypeOK, Handlers, Idle

LEMMA NextTypes == TypeOK /\ [Next]_vars => TypeOK'
<1> SUFFICES ASSUME TypeOK, [Next]_vars
             PROVE  TypeOK'
  OBVIOUS
<1> USE DEF rows, sockets, history
<1>1. ASSUME NEW p \in Processes, FindChat(p) \/ InsertChat(p)
      PROVE  TypeOK'
  <2>1. [op |-> "create"] \in Handlers /\ Idle \in Handlers
    BY DEF Handlers
  <2>2. handler' \in [Processes -> Handlers] /\ chats' \in Nat
    BY <1>1, <2>1 DEF FindChat, InsertChat, Begin, Ends, TypeOK
  <2>3. QED BY <1>1, <2>2 DEF FindChat, InsertChat, TypeOK
<1>2. ASSUME NEW p \in Processes, NEW m \in Messages, NEW u \in Users, SendMessage(p, m, u)
      PROVE  TypeOK'
  <2>1. [op |-> "emit", event |-> [kind |-> "new-message", id |-> m]] \in Handlers
    BY DEF Handlers, Events
  <2>2. handler' \in [Processes -> Handlers]
    BY <1>2, <2>1 DEF SendMessage, Begin, TypeOK
  <2>3. message' \in [Messages -> {None} \cup [author : Users, isDeleted : BOOLEAN]]
    BY <1>2 DEF SendMessage, TypeOK
  <2>4. servedBy' \in [Messages -> [stored : SUBSET Processes, deleted : SUBSET Processes]]
    BY <1>2 DEF SendMessage, TypeOK
  <2>5. QED BY <1>2, <2>2, <2>3, <2>4 DEF SendMessage, TypeOK
<1>3. ASSUME NEW p \in Processes, NEW m \in Messages, DeleteMessage(p, m)
      PROVE  TypeOK'
  <2>1. [op |-> "emit", event |-> [kind |-> "message-deleted", id |-> m]] \in Handlers
    BY DEF Handlers, Events
  <2>2. handler' \in [Processes -> Handlers]
    BY <1>3, <2>1 DEF DeleteMessage, Begin, TypeOK
  <2>3. message[m] \in [author : Users, isDeleted : BOOLEAN]
    BY <1>3 DEF DeleteMessage, Stored, TypeOK
  <2>4. message' \in [Messages -> {None} \cup [author : Users, isDeleted : BOOLEAN]]
    BY <1>3, <2>3 DEF DeleteMessage, TypeOK
  <2>5. servedBy' \in [Messages -> [stored : SUBSET Processes, deleted : SUBSET Processes]]
    BY <1>3 DEF DeleteMessage, TypeOK
  <2>6. QED BY <1>3, <2>2, <2>4, <2>5 DEF DeleteMessage, TypeOK
<1>4. ASSUME NEW p \in Processes, Emit(p)
      PROVE  TypeOK'
  <2>1. handler[p].event \in Events
    BY <1>4, HandlerKinds DEF Emit
  <2>2. wire' \in [Users -> Seq(Events)]
    BY <1>4, <2>1 DEF Emit, TypeOK
  <2>3. shows' \in [Users -> SUBSET Messages]
    BY <1>4, <2>1, AfterTypes DEF Emit, TypeOK
  <2>4. handler' \in [Processes -> Handlers]
    BY <1>4 DEF Emit, Ends, TypeOK, Handlers
  <2>5. QED BY <1>4, <2>2, <2>3, <2>4 DEF Emit, TypeOK
<1>5. ASSUME NEW u \in Users, Deliver(u) \/ EventLost(u)
      PROVE  TypeOK'
  <2>1. wire[u] \in Seq(Events) /\ wire[u] # <<>>
    BY <1>5 DEF Deliver, EventLost, TypeOK
  <2>2. Head(wire[u]) \in Events /\ Tail(wire[u]) \in Seq(Events)
    BY <2>1
  <2>3. wire' \in [Users -> Seq(Events)]
    BY <1>5, <2>2 DEF Deliver, EventLost, TypeOK
  <2>4. shows' \in [Users -> SUBSET Messages]
    <3>1. After(Head(wire[u]), shows[u]) \in SUBSET Messages
      BY <2>2, AfterTypes DEF TypeOK
    <3>2. QED BY <1>5, <3>1 DEF Deliver, EventLost, TypeOK
  <2>5. unannounced' \in SUBSET Receipts
    <3>1. Deletions({Head(wire[u])}) \X {u} \in SUBSET Receipts
      BY <2>2, DeletionTypes
    <3>2. QED BY <1>5, <3>1 DEF Deliver, EventLost, TypeOK
  <2>6. QED BY <1>5, <2>3, <2>4, <2>5 DEF Deliver, EventLost, TypeOK
<1>6. ASSUME NEW p \in Processes, NEW r \in Receipts, FindReceipt(p, r)
      PROVE  TypeOK'
  BY <1>6 DEF FindReceipt, Begin, TypeOK, Handlers
<1>7. ASSUME NEW p \in Processes, InsertReceipt(p)
      PROVE  TypeOK'
  BY <1>7, HandlerKinds DEF InsertReceipt, Ends, TypeOK, Handlers
<1>8. ASSUME NEW r \in Receipts, Report(r)
      PROVE  TypeOK'
  BY <1>8 DEF Report, TypeOK
<1>9. ASSUME NEW p \in Processes, HandlerFails(p)
      PROVE  TypeOK'
  <2>1. unannounced' \in SUBSET Receipts
    BY <1>9, HandlerKinds, DeletionTypes DEF HandlerFails, TypeOK
  <2>2. handler' \in [Processes -> Handlers]
    BY <1>9 DEF HandlerFails, Ends, TypeOK, Handlers
  <2>3. QED BY <1>9, <2>1, <2>2 DEF HandlerFails, TypeOK
<1>10. ASSUME NEW u \in Users, LeaveChat(u) \/ \E p \in Processes : JoinChat(u, p)
       PROVE  TypeOK'
  <2>1. CASE \E p \in Processes : JoinChat(u, p)
    BY <2>1 DEF JoinChat, TypeOK
  <2>2. CASE LeaveChat(u)
    <3>1. <<>> \in Seq(Events) /\ {} \in SUBSET Messages
      OBVIOUS
    <3>2. wire' \in [Users -> Seq(Events)] /\ shows' \in [Users -> SUBSET Messages]
      BY <2>2, <3>1 DEF LeaveChat, TypeOK
    <3>3. at' \in [Users -> Processes \cup {None}]
      BY <2>2 DEF LeaveChat, TypeOK
    <3>4. QED BY <2>2, <3>2, <3>3 DEF LeaveChat, TypeOK
  <2>3. QED BY <1>10, <2>1, <2>2
<1>11. CASE UNCHANGED vars
  BY <1>11 DEF vars, TypeOK
<1>12. QED
  BY <1>1, <1>2, <1>3, <1>4, <1>5, <1>6, <1>7, <1>8, <1>9, <1>10, <1>11 DEF Next

\* Rows, handlers, sockets and events keep their types, which is what the other
\* theorems about the handlers of ChatService and ChatGateway rest on.
THEOREM TypeCorrect == Spec => []TypeOK
BY InitTypes, NextTypes, PTL DEF Spec

-----------------------------------------------------------------------------
(* Receipts *)

LEMMA NextReports == TypeOK /\ ReadingIsReported /\ [Next]_vars => ReadingIsReported'
<1> SUFFICES ASSUME TypeOK, ReadingIsReported, [Next]_vars
             PROVE  ReadingIsReported'
  OBVIOUS
<1> USE DEF rows, sockets, history
<1>1. ASSUME NEW p \in Processes, NEW r \in Receipts, FindReceipt(p, r)
      PROVE  ReadingIsReported'
  BY <1>1 DEF FindReceipt, ReadingIsReported
<1>2. ASSUME NEW p \in Processes, InsertReceipt(p)
      PROVE  ReadingIsReported'
  BY <1>2 DEF InsertReceipt, ReadingIsReported
<1>3. ASSUME NEW r \in Receipts, Report(r)
      PROVE  ReadingIsReported'
  BY <1>3 DEF Report, ReadingIsReported
<1>4. ASSUME UNCHANGED <<receipts, reporting, told, unreported>>
      PROVE  ReadingIsReported'
  BY <1>4 DEF ReadingIsReported
<1>5. QED
  BY <1>1, <1>2, <1>3, <1>4
     DEF Next, vars, FindChat, InsertChat, SendMessage, DeleteMessage, Emit, Deliver, EventLost,
         HandlerFails, JoinChat, LeaveChat

\* ReadingIsReported, for every number of processes that markMessageRead runs in.
THEOREM ReadingReported == Spec => []ReadingIsReported
<1>1. Init => ReadingIsReported
  BY DEF Init, ReadingIsReported
<1>2. QED BY <1>1, NextReports, TypeCorrect, PTL DEF Spec

-----------------------------------------------------------------------------
(* Creation.  Who inserts a chat found none, so before the first chat was      *)
(* inserted: it was then one of at most as many as there are processes.        *)

Creating == {p \in Processes : handler[p].op = "create"}

CreationInv == chats # 0 => chats + Cardinality(Creating) <= Cardinality(Processes)

LEMMA CreatingIsFinite ==
  ASSUME NEW S \in SUBSET Processes
  PROVE  IsFiniteSet(S) /\ Cardinality(S) \in Nat /\ Cardinality(S) <= Cardinality(Processes)
BY ProcessesAssumption, FS_Subset, FS_CardinalityType

LEMMA NextCreates == TypeOK /\ CreationInv /\ [Next]_vars => CreationInv'
<1> SUFFICES ASSUME TypeOK, CreationInv, [Next]_vars
             PROVE  CreationInv'
  OBVIOUS
<1> USE DEF rows, sockets, history
<1> DEFINE C == Creating
<1>0. /\ IsFiniteSet(C) /\ Cardinality(C) \in Nat /\ Cardinality(C) <= Cardinality(Processes)
      /\ Cardinality(Processes) \in Nat /\ chats \in Nat
  BY CreatingIsFinite DEF Creating, TypeOK
<1>1. ASSUME NEW p \in Processes, FindChat(p)
      PROVE  CreationInv'
  BY <1>1 DEF FindChat, CreationInv
<1>2. ASSUME NEW p \in Processes, InsertChat(p)
      PROVE  CreationInv'
  <2>1. p \in C /\ Creating' = C \ {p}
    BY <1>2 DEF InsertChat, Ends, Idle, Creating, TypeOK
  <2>2. Cardinality(C \ {p}) = Cardinality(C) - 1
    BY <1>0, <2>1, FS_RemoveElement
  <2>3. chats' = chats + 1
    BY <1>2 DEF InsertChat
  <2>4. QED BY <1>0, <2>1, <2>2, <2>3 DEF CreationInv
<1>3. ASSUME chats' = chats, Creating' \subseteq C
      PROVE  CreationInv'
  <2>1. Cardinality(Creating') \in Nat /\ Cardinality(Creating') <= Cardinality(C)
    BY <1>0, <1>3, FS_Subset, FS_CardinalityType
  <2>2. QED BY <1>0, <1>3, <2>1 DEF CreationInv
<1>4. ASSUME NEW p \in Processes, NEW work,
             chats' = chats, handler' = [handler EXCEPT ![p] = work], work.op # "create"
      PROVE  CreationInv'
  <2>1. Creating' \subseteq C
    BY <1>4 DEF Creating, TypeOK
  <2>2. QED BY <1>3, <1>4, <2>1
<1>5. ASSUME NEW p \in Processes, NEW m \in Messages,
             DeleteMessage(p, m) \/ \E u \in Users : SendMessage(p, m, u)
      PROVE  CreationInv'
  <2>1. PICK kind \in {"new-message", "message-deleted"} : Begin(p, [op |-> "emit", event |-> [kind |-> kind, id |-> m]])
    BY <1>5 DEF SendMessage, DeleteMessage
  <2>2. [op |-> "emit", event |-> [kind |-> kind, id |-> m]].op # "create"
    OBVIOUS
  <2>3. chats' = chats
    BY <1>5 DEF SendMessage, DeleteMessage
  <2>4. QED BY <1>4, <2>1, <2>2, <2>3 DEF Begin
<1>6. ASSUME NEW p \in Processes, Emit(p) \/ InsertReceipt(p) \/ HandlerFails(p)
      PROVE  CreationInv'
  BY <1>4, <1>6 DEF Emit, InsertReceipt, HandlerFails, Ends, Idle
<1>7. ASSUME NEW p \in Processes, NEW r \in Receipts, FindReceipt(p, r)
      PROVE  CreationInv'
  <2>1. CASE UNCHANGED handler
    BY <1>3, <1>7, <2>1 DEF FindReceipt, Creating
  <2>2. CASE Begin(p, [op |-> "read", receipt |-> r])
    <3>1. [op |-> "read", receipt |-> r].op # "create"
      OBVIOUS
    <3>2. chats' = chats
      BY <1>7 DEF FindReceipt
    <3>3. QED BY <1>4, <2>2, <3>1, <3>2 DEF Begin
  <2>3. QED BY <1>7, <2>1, <2>2 DEF FindReceipt
<1>8. ASSUME UNCHANGED <<chats, handler>>
      PROVE  CreationInv'
  BY <1>3, <1>8 DEF Creating
<1>9. QED
  BY <1>1, <1>2, <1>5, <1>6, <1>7, <1>8
     DEF Next, vars, Deliver, EventLost, JoinChat, LeaveChat, Report

\* ChatsPerPair, for every number of processes that createOneToOneChat runs in.
THEOREM ChatsLimited == Spec => []ChatsPerPair
<1>1. Init => CreationInv
  BY DEF Init, CreationInv
<1>2. TypeOK /\ CreationInv => ChatsPerPair
  BY CreatingIsFinite DEF TypeOK, CreationInv, ChatsPerPair, Creating
<1>3. QED BY <1>1, <1>2, NextCreates, TypeCorrect, PTL DEF Spec

-----------------------------------------------------------------------------
(* Deletion.  While one process serves a message, its deletion is emitted      *)
(* after the message itself, so it stays behind it on the way to a user.       *)

New(m) == [kind |-> "new-message", id |-> m]

Del(m) == [kind |-> "message-deleted", id |-> m]

Emitting(p, event) == handler[p].op = "emit" /\ handler[p].event = event

\* The deletion is where the message is, or another process serves one of them.
DeletedAt(m) == message[m].isDeleted /\ servedBy[m].deleted = servedBy[m].stored

\* Somebody is about to emit the deletion, or the user will not hear of it.
Pending(u, m) == (\E p \in Processes : Emitting(p, Del(m))) \/ <<m, u>> \in unannounced

\* A process that stores a message emits it before it deletes it.
EmitsFirst ==
  \A m \in Messages :
    /\ ~Stored(m) => servedBy[m].deleted = {}
    /\ \A p \in Processes :
         /\ Emitting(p, New(m)) => Stored(m) /\ servedBy[m].stored = {p} /\ p \notin servedBy[m].deleted
         /\ Emitting(p, Del(m)) => Stored(m) /\ p \in servedBy[m].deleted

\* Who is not in the room is sent nothing and shows nothing.
AbsentHasNothing == \A u \in Users : at[u] = None => wire[u] = <<>> /\ shows[u] = {}

\* What is on its way comes from another process, with the deletion behind the message.
WireInOrder ==
  \A u \in Users : \A m \in Messages : \A i \in 1..Len(wire[u]) :
    wire[u][i] = New(m) =>
      /\ Stored(m) /\ at[u] \notin servedBy[m].stored
      /\ DeletedAt(m) => Pending(u, m) \/ \E j \in 1..Len(wire[u]) : j > i /\ wire[u][j] = Del(m)

\* DeletedIsTakenAway in the same terms.
ShownInOrder ==
  \A u \in Users : \A m \in shows[u] :
    /\ Stored(m)
    /\ DeletedAt(m) => Pending(u, m) \/ \E j \in 1..Len(wire[u]) : wire[u][j] = Del(m)

DeletionInv == EmitsFirst /\ AbsentHasNothing /\ WireInOrder /\ ShownInOrder

LEMMA InitDeletes == Init => DeletionInv
BY DEF Init, DeletionInv, EmitsFirst, AbsentHasNothing, WireInOrder, ShownInOrder, Emitting, Idle

LEMMA EventsDiffer == \A m \in Messages, n \in Messages : New(m) # Del(n) /\ (New(m) = New(n) => m = n) /\ (Del(m) = Del(n) => m = n)
BY DEF New, Del

\* Steps that touch neither rows, events nor what is shown.
LEMMA OtherStepsDelete ==
  ASSUME TypeOK, DeletionInv, UNCHANGED <<message, at, wire, shows, servedBy, unannounced>>,
         \A p \in Processes : \A m \in Messages :
           Emitting(p, New(m))' = Emitting(p, New(m)) /\ Emitting(p, Del(m))' = Emitting(p, Del(m))
  PROVE  DeletionInv'
<1>1. \A u \in Users : \A m \in Messages : Pending(u, m) => Pending(u, m)'
  BY DEF Pending
<1>2. \A m : Stored(m)' = Stored(m) /\ DeletedAt(m)' = DeletedAt(m)
  BY DEF Stored, DeletedAt
<1>3. EmitsFirst' /\ AbsentHasNothing'
  BY <1>2 DEF DeletionInv, EmitsFirst, AbsentHasNothing
<1>4. WireInOrder'
  BY <1>1, <1>2 DEF DeletionInv, WireInOrder
<1>5. ShownInOrder'
  BY <1>1, <1>2 DEF DeletionInv, ShownInOrder, TypeOK
<1>6. QED BY <1>3, <1>4, <1>5 DEF DeletionInv

LEMMA SendDeletes ==
  ASSUME TypeOK, DeletionInv, NEW p \in Processes, NEW n \in Messages, NEW v \in Users, SendMessage(p, n, v)
  PROVE  DeletionInv'
<1> USE DEF DeletionInv
<1>1. /\ handler[p] = Idle /\ handler' = [handler EXCEPT ![p] = [op |-> "emit", event |-> New(n)]]
      /\ ~Stored(n) /\ UNCHANGED <<at, wire, shows, unannounced>>
      /\ message' = [message EXCEPT ![n] = [author |-> v, isDeleted |-> FALSE]]
      /\ servedBy' = [servedBy EXCEPT ![n].stored = {p}]
  BY DEF SendMessage, Begin, New, sockets
<1>2. \A m \in Messages : m # n => Stored(m)' = Stored(m) /\ DeletedAt(m)' = DeletedAt(m) /\ servedBy'[m] = servedBy[m]
  BY <1>1 DEF TypeOK, Stored, DeletedAt
<1>3. Stored(n)' /\ ~DeletedAt(n)' /\ servedBy'[n].stored = {p} /\ servedBy'[n].deleted = servedBy[n].deleted
  <2>1. message'[n] = [author |-> v, isDeleted |-> FALSE]
    BY <1>1 DEF TypeOK
  <2>2. message'[n] # None
    <3>1. [author |-> v, isDeleted |-> FALSE] \in [author : Users, isDeleted : BOOLEAN]
      OBVIOUS
    <3>2. QED BY <2>1, <3>1, NoneAssumption
  <2>3. QED BY <1>1, <2>1, <2>2 DEF TypeOK, Stored, DeletedAt
<1>4. \A q \in Processes : \A m \in Messages :
        /\ Emitting(q, Del(m))' = Emitting(q, Del(m))
        /\ Emitting(q, New(m))' => Emitting(q, New(m)) \/ (q = p /\ m = n)
  BY <1>1, EventsDiffer DEF Emitting, Idle, TypeOK
<1>5. \A u \in Users : \A m \in Messages : Pending(u, m)' = Pending(u, m)
  BY <1>1, <1>4 DEF Pending
<1>6. EmitsFirst'
  <2> SUFFICES ASSUME NEW m \in Messages
               PROVE  /\ ~Stored(m)' => servedBy'[m].deleted = {}
                      /\ \A q \in Processes :
                           /\ Emitting(q, New(m))' => Stored(m)' /\ servedBy'[m].stored = {q} /\ q \notin servedBy'[m].deleted
                           /\ Emitting(q, Del(m))' => Stored(m)' /\ q \in servedBy'[m].deleted
    BY DEF EmitsFirst
  <2>1. CASE m = n
    BY <1>1, <1>3, <1>4, <2>1 DEF EmitsFirst
  <2>2. CASE m # n
    BY <1>2, <1>4, <2>2 DEF EmitsFirst
  <2>3. QED BY <2>1, <2>2
<1>7. AbsentHasNothing'
  BY <1>1 DEF AbsentHasNothing
<1>8. WireInOrder'
  BY <1>1, <1>2, <1>3, <1>5 DEF WireInOrder
<1>9. ShownInOrder'
  BY <1>1, <1>2, <1>3, <1>5 DEF ShownInOrder, TypeOK
<1>10. QED BY <1>6, <1>7, <1>8, <1>9

LEMMA DeleteDeletes ==
  ASSUME TypeOK, DeletionInv, NEW p \in Processes, NEW n \in Messages, DeleteMessage(p, n)
  PROVE  DeletionInv'
<1> USE DEF DeletionInv
<1>1. /\ handler[p] = Idle /\ handler' = [handler EXCEPT ![p] = [op |-> "emit", event |-> Del(n)]]
      /\ Stored(n) /\ UNCHANGED <<at, wire, shows, unannounced>>
      /\ message' = [message EXCEPT ![n].isDeleted = TRUE]
      /\ servedBy' = [servedBy EXCEPT ![n].deleted = servedBy[n].deleted \cup {p}]
  BY DEF DeleteMessage, Begin, Del, sockets
<1>2. \A m \in Messages : m # n => Stored(m)' = Stored(m) /\ DeletedAt(m)' = DeletedAt(m) /\ servedBy'[m] = servedBy[m]
  BY <1>1 DEF TypeOK, Stored, DeletedAt
<1>3. Stored(n)' /\ servedBy'[n].stored = servedBy[n].stored /\ servedBy'[n].deleted = servedBy[n].deleted \cup {p}
  <2>1. message'[n] \in [author : Users, isDeleted : BOOLEAN]
    BY <1>1 DEF TypeOK, Stored
  <2>2. QED BY <1>1, <2>1, NoneAssumption DEF TypeOK, Stored
<1>4. \A q \in Processes : \A m \in Messages :
        /\ Emitting(q, New(m))' => Emitting(q, New(m)) /\ q # p
        /\ Emitting(q, Del(m)) => Emitting(q, Del(m))'
        /\ Emitting(q, Del(m))' => Emitting(q, Del(m)) \/ (q = p /\ m = n)
  BY <1>1, EventsDiffer DEF Emitting, Idle, TypeOK
<1>5. \A u \in Users : Pending(u, n)' /\ \A m \in Messages : Pending(u, m) => Pending(u, m)'
  <2>1. Emitting(p, Del(n))'
    BY <1>1 DEF Emitting, TypeOK
  <2>2. QED BY <1>1, <1>4, <2>1 DEF Pending
<1>6. EmitsFirst'
  <2> SUFFICES ASSUME NEW m \in Messages
               PROVE  /\ ~Stored(m)' => servedBy'[m].deleted = {}
                      /\ \A q \in Processes :
                           /\ Emitting(q, New(m))' => Stored(m)' /\ servedBy'[m].stored = {q} /\ q \notin servedBy'[m].deleted
                           /\ Emitting(q, Del(m))' => Stored(m)' /\ q \in servedBy'[m].deleted
    BY DEF EmitsFirst
  <2>1. CASE m = n
    BY <1>3, <1>4, <2>1 DEF EmitsFirst
  <2>2. CASE m # n
    BY <1>2, <1>4, <2>2 DEF EmitsFirst
  <2>3. QED BY <2>1, <2>2
<1>7. AbsentHasNothing'
  BY <1>1 DEF AbsentHasNothing
<1>8. WireInOrder'
  BY <1>1, <1>2, <1>3, <1>5 DEF WireInOrder
<1>9. ShownInOrder'
  BY <1>1, <1>2, <1>3, <1>5 DEF ShownInOrder, TypeOK
<1>10. QED BY <1>6, <1>7, <1>8, <1>9

LEMMA EmitDeletes ==
  ASSUME TypeOK, DeletionInv, NEW p \in Processes, Emit(p)
  PROVE  DeletionInv'
<1> USE DEF DeletionInv
<1> DEFINE e == handler[p].event
<1>1. /\ handler[p].op = "emit" /\ handler' = [handler EXCEPT ![p] = Idle]
      /\ UNCHANGED <<message, at, servedBy, unannounced>>
      /\ shows' = [u \in Users |-> IF at[u] = p THEN After(e, shows[u]) ELSE shows[u]]
      /\ wire' = [u \in Users |-> IF at[u] \in Processes \ {p} THEN Append(wire[u], e) ELSE wire[u]]
  BY DEF Emit, Ends, rows, history
<1>2. e \in Events /\ Emitting(p, e)
  BY <1>1, HandlerKinds DEF Emitting
<1>3. \A m : Stored(m)' = Stored(m) /\ DeletedAt(m)' = DeletedAt(m)
  BY <1>1 DEF Stored, DeletedAt
<1>4. \A q \in Processes : \A m \in Messages :
        /\ Emitting(q, New(m))' => Emitting(q, New(m))
        /\ Emitting(q, Del(m))' => Emitting(q, Del(m))
        /\ Emitting(q, Del(m)) => Emitting(q, Del(m))' \/ (q = p /\ e = Del(m))
  BY <1>1 DEF Emitting, Idle, TypeOK
<1>5. \A u \in Users : \A m \in Messages : Pending(u, m) => Pending(u, m)' \/ e = Del(m)
  BY <1>1, <1>4 DEF Pending
<1>6. \A m \in Messages : e = New(m) => Stored(m) /\ servedBy[m].stored = {p} /\ ~DeletedAt(m)
  BY <1>2 DEF EmitsFirst, DeletedAt
<1>7. EmitsFirst'
  BY <1>1, <1>3, <1>4 DEF EmitsFirst
<1>8. AbsentHasNothing'
  BY <1>1, NoneAssumption DEF AbsentHasNothing
<1>9. WireInOrder'
  <2> SUFFICES ASSUME NEW u \in Users, NEW m \in Messages, NEW i \in 1..Len(wire'[u]), wire'[u][i] = New(m)
               PROVE  /\ Stored(m) /\ at[u] \notin servedBy[m].stored
                      /\ DeletedAt(m) => Pending(u, m)' \/ \E j \in 1..Len(wire'[u]) : j > i /\ wire'[u][j] = Del(m)
    BY <1>1, <1>3 DEF WireInOrder
  <2>0. wire[u] \in Seq(Events)
    BY DEF TypeOK
  <2>1. CASE at[u] \in Processes \ {p}
    <3>1. wire'[u] = Append(wire[u], e)
      BY <1>1, <2>1
    <3>2. /\ Len(wire'[u]) = Len(wire[u]) + 1 /\ wire'[u][Len(wire[u]) + 1] = e /\ Len(wire[u]) \in Nat
          /\ \A j \in 1..Len(wire[u]) : wire'[u][j] = wire[u][j]
      BY <1>2, <2>0, <3>1
    <3>3. CASE i = Len(wire[u]) + 1
      BY <1>6, <2>1, <3>2, <3>3
    <3>4. CASE i # Len(wire[u]) + 1
      <4>1. i \in 1..Len(wire[u]) /\ wire[u][i] = New(m)
        BY <3>2, <3>4
      <4>2. Stored(m) /\ at[u] \notin servedBy[m].stored
        BY <4>1 DEF WireInOrder
      <4>3. ASSUME DeletedAt(m), Pending(u, m), ~Pending(u, m)'
            PROVE  \E j \in 1..Len(wire'[u]) : j > i /\ wire'[u][j] = Del(m)
        BY <1>5, <3>2, <4>1, <4>3
      <4>4. ASSUME NEW j \in 1..Len(wire[u]), j > i, wire[u][j] = Del(m)
            PROVE  \E k \in 1..Len(wire'[u]) : k > i /\ wire'[u][k] = Del(m)
        BY <3>2, <4>4
      <4>5. QED BY <4>1, <4>2, <4>3, <4>4 DEF WireInOrder
    <3>5. QED BY <3>3, <3>4
  <2>2. CASE at[u] = p
    <3>1. wire'[u] = wire[u]
      BY <1>1, <2>2
    <3>2. Stored(m) /\ p \notin servedBy[m].stored
      BY <2>2, <3>1 DEF WireInOrder
    <3>3. e = Del(m) => ~DeletedAt(m)
      BY <1>2, <3>2 DEF EmitsFirst, DeletedAt
    <3>4. QED BY <1>5, <2>2, <3>1, <3>2, <3>3 DEF WireInOrder
  <2>3. CASE at[u] = None
    BY <1>1, <2>3, NoneAssumption DEF AbsentHasNothing
  <2>4. QED BY <2>1, <2>2, <2>3 DEF TypeOK
<1>10. ShownInOrder'
  <2> SUFFICES ASSUME NEW u \in Users, NEW m \in shows'[u]
               PROVE  /\ Stored(m)
                      /\ DeletedAt(m) => Pending(u, m)' \/ \E j \in 1..Len(wire'[u]) : wire'[u][j] = Del(m)
    BY <1>3 DEF ShownInOrder
  <2>0. wire[u] \in Seq(Events) /\ shows[u] \subseteq Messages
    BY DEF TypeOK
  <2>1. CASE at[u] \in Processes \ {p}
    <3>1. wire'[u] = Append(wire[u], e) /\ m \in shows[u]
      BY <1>1, <2>1
    <3>2. /\ Len(wire'[u]) = Len(wire[u]) + 1 /\ wire'[u][Len(wire[u]) + 1] = e /\ Len(wire[u]) \in Nat
          /\ \A j \in 1..Len(wire[u]) : wire'[u][j] = wire[u][j]
      BY <1>2, <2>0, <3>1
    <3>3. QED BY <1>5, <2>0, <3>1, <3>2 DEF ShownInOrder
  <2>2. CASE at[u] = p
    <3>1. wire'[u] = wire[u] /\ m \in After(e, shows[u])
      BY <1>1, <2>2
    <3>2. CASE e = New(m)
      <4>1. m \in Messages
        BY <1>2, <2>0, <3>1 DEF After, Events
      <4>2. QED BY <1>6, <3>2, <4>1
    <3>3. CASE e # New(m)
      <4>1. m \in shows[u] /\ e # Del(m)
        BY <1>2, <3>1, <3>3 DEF After, New, Del, Events
      <4>2. QED BY <1>5, <2>0, <3>1, <4>1 DEF ShownInOrder
    <3>4. QED BY <3>2, <3>3
  <2>3. CASE at[u] = None
    BY <1>1, <2>3, NoneAssumption DEF AbsentHasNothing
  <2>4. QED BY <2>1, <2>2, <2>3 DEF TypeOK
<1>11. QED BY <1>7, <1>8, <1>9, <1>10

\* What is at the head of the wire moves on, and the rest moves up.
LEMMA WireMovesUp ==
  ASSUME TypeOK, NEW v \in Users, wire[v] # <<>>, wire' = [wire EXCEPT ![v] = Tail(wire[v])]
  PROVE  /\ Len(wire[v]) \in Nat \ {0} /\ Len(wire'[v]) = Len(wire[v]) - 1
         /\ \A i \in 1..Len(wire'[v]) : wire'[v][i] = wire[v][i + 1]
         /\ Head(wire[v]) = wire[v][1] /\ Head(wire[v]) \in Events
         /\ \A u \in Users : u # v => wire'[u] = wire[u]
<1>1. wire[v] \in Seq(Events) /\ wire'[v] = Tail(wire[v])
  BY DEF TypeOK
<1>2. QED BY <1>1 DEF TypeOK

LEMMA DeliverDeletes ==
  ASSUME TypeOK, DeletionInv, NEW v \in Users, Deliver(v)
  PROVE  DeletionInv'
<1> USE DEF DeletionInv
<1> DEFINE e == wire[v][1]
<1>1. /\ wire[v] # <<>> /\ wire' = [wire EXCEPT ![v] = Tail(wire[v])]
      /\ UNCHANGED <<message, handler, at, servedBy, unannounced>>
      /\ shows' = [shows EXCEPT ![v] = After(Head(wire[v]), shows[v])]
  BY DEF Deliver, rows, history
<1>2. /\ Len(wire[v]) \in Nat \ {0} /\ Len(wire'[v]) = Len(wire[v]) - 1
      /\ \A i \in 1..Len(wire'[v]) : wire'[v][i] = wire[v][i + 1]
      /\ e \in Events /\ shows'[v] = After(e, shows[v])
      /\ \A u \in Users : u # v => wire'[u] = wire[u] /\ shows'[u] = shows[u]
  BY <1>1, WireMovesUp DEF TypeOK
<1>3. \A m : Stored(m)' = Stored(m) /\ DeletedAt(m)' = DeletedAt(m)
  BY <1>1 DEF Stored, DeletedAt
<1>4. \A u : \A m : Pending(u, m)' = Pending(u, m)
  BY <1>1 DEF Pending, Emitting
<1>5. EmitsFirst'
  BY <1>1, <1>3 DEF EmitsFirst, Emitting
<1>6. AbsentHasNothing'
  BY <1>1, <1>2 DEF AbsentHasNothing
<1>7. WireInOrder'
  <2> SUFFICES ASSUME NEW u \in Users, NEW m \in Messages, NEW i \in 1..Len(wire'[u]), wire'[u][i] = New(m)
               PROVE  /\ Stored(m) /\ at[u] \notin servedBy[m].stored
                      /\ DeletedAt(m) => Pending(u, m) \/ \E j \in 1..Len(wire'[u]) : j > i /\ wire'[u][j] = Del(m)
    BY <1>1, <1>3, <1>4 DEF WireInOrder
  <2>1. CASE u # v
    BY <1>2, <2>1 DEF WireInOrder
  <2>2. CASE u = v
    <3>1. i + 1 \in 1..Len(wire[v]) /\ wire[v][i + 1] = New(m)
      BY <1>2, <2>2
    <3>2. ASSUME NEW j \in 1..Len(wire[v]), j > i + 1, wire[v][j] = Del(m)
          PROVE  \E k \in 1..Len(wire'[v]) : k > i /\ wire'[v][k] = Del(m)
      <4>1. j - 1 \in 1..Len(wire'[v]) /\ j - 1 > i /\ wire'[v][j - 1] = wire[v][(j - 1) + 1]
        BY <1>2, <2>2, <3>2
      <4>2. QED BY <3>2, <4>1
    <3>3. QED BY <2>2, <3>1, <3>2 DEF WireInOrder
  <2>3. QED BY <2>1, <2>2
<1>8. ShownInOrder'
  <2> SUFFICES ASSUME NEW u \in Users, NEW m \in shows'[u]
               PROVE  /\ Stored(m)
                      /\ DeletedAt(m) => Pending(u, m) \/ \E j \in 1..Len(wire'[u]) : wire'[u][j] = Del(m)
    BY <1>3, <1>4 DEF ShownInOrder
  <2>1. CASE u # v
    BY <1>2, <2>1 DEF ShownInOrder
  <2>2. CASE u = v
    <3>1. m \in Messages
      BY <1>2, <2>2 DEF After, Events, TypeOK
    <3>2. ASSUME NEW j \in 1..Len(wire[v]), j > 1, wire[v][j] = Del(m)
          PROVE  \E k \in 1..Len(wire'[v]) : wire'[v][k] = Del(m)
      <4>1. j - 1 \in 1..Len(wire'[v]) /\ wire'[v][j - 1] = wire[v][(j - 1) + 1]
        BY <1>2, <2>2, <3>2
      <4>2. QED BY <3>2, <4>1
    <3>3. CASE e = New(m)
      <4>1. 1 \in 1..Len(wire[v])
        BY <1>2
      <4>2. QED BY <2>2, <3>1, <3>2, <3>3, <4>1 DEF WireInOrder
    <3>4. CASE e # New(m)
      <4>1. m \in shows[v] /\ e # Del(m)
        BY <1>2, <2>2, <3>4 DEF After, New, Del, Events
      <4>2. \A j \in 1..Len(wire[v]) : wire[v][j] = Del(m) => j > 1
        BY <1>2, <4>1
      <4>3. QED BY <2>2, <3>2, <4>1, <4>2 DEF ShownInOrder
    <3>5. QED BY <3>3, <3>4
  <2>3. QED BY <2>1, <2>2
<1>9. QED BY <1>5, <1>6, <1>7, <1>8

LEMMA LostDeletes ==
  ASSUME TypeOK, DeletionInv, NEW v \in Users, EventLost(v)
  PROVE  DeletionInv'
<1> USE DEF DeletionInv
<1> DEFINE e == wire[v][1]
<1>1. /\ wire[v] # <<>> /\ wire' = [wire EXCEPT ![v] = Tail(wire[v])]
      /\ UNCHANGED <<message, handler, at, shows, servedBy>>
      /\ unannounced' = unannounced \cup (Deletions({Head(wire[v])}) \X {v})
  BY DEF EventLost, rows
<1>2. /\ Len(wire[v]) \in Nat \ {0} /\ Len(wire'[v]) = Len(wire[v]) - 1
      /\ \A i \in 1..Len(wire'[v]) : wire'[v][i] = wire[v][i + 1]
      /\ e = Head(wire[v])
      /\ \A u \in Users : u # v => wire'[u] = wire[u]
  BY <1>1, WireMovesUp
<1>3. \A m : Stored(m)' = Stored(m) /\ DeletedAt(m)' = DeletedAt(m)
  BY <1>1 DEF Stored, DeletedAt
<1>4. \A u : \A m : Pending(u, m) => Pending(u, m)'
  BY <1>1 DEF Pending, Emitting
<1>5. \A m \in Messages : e = Del(m) => Pending(v, m)'
  BY <1>1, <1>2 DEF Pending, Deletions, Del
<1>6. EmitsFirst'
  BY <1>1, <1>3 DEF EmitsFirst, Emitting
<1>7. AbsentHasNothing'
  BY <1>1, <1>2 DEF AbsentHasNothing
<1>8. \A m \in Messages : \A j \in 1..Len(wire[v]) :
        wire[v][j] = Del(m) => Pending(v, m)' \/ (j - 1 \in 1..Len(wire'[v]) /\ wire'[v][j - 1] = Del(m))
  <2> SUFFICES ASSUME NEW m \in Messages, NEW j \in 1..Len(wire[v]), wire[v][j] = Del(m), j # 1
               PROVE  j - 1 \in 1..Len(wire'[v]) /\ wire'[v][j - 1] = Del(m)
    BY <1>5
  <2>1. j - 1 \in 1..Len(wire'[v]) /\ wire'[v][j - 1] = wire[v][(j - 1) + 1]
    BY <1>2
  <2>2. QED BY <2>1
<1>9. WireInOrder'
  <2> SUFFICES ASSUME NEW u \in Users, NEW m \in Messages, NEW i \in 1..Len(wire'[u]), wire'[u][i] = New(m)
               PROVE  /\ Stored(m) /\ at[u] \notin servedBy[m].stored
                      /\ DeletedAt(m) => Pending(u, m)' \/ \E j \in 1..Len(wire'[u]) : j > i /\ wire'[u][j] = Del(m)
    BY <1>1, <1>3 DEF WireInOrder
  <2>1. CASE u # v
    BY <1>2, <1>4, <2>1 DEF WireInOrder
  <2>2. CASE u = v
    <3>1. i + 1 \in 1..Len(wire[v]) /\ wire[v][i + 1] = New(m)
      BY <1>2, <2>2
    <3>2. ASSUME NEW j \in 1..Len(wire[v]), j > i + 1, wire[v][j] = Del(m), ~Pending(v, m)'
          PROVE  \E k \in 1..Len(wire'[v]) : k > i /\ wire'[v][k] = Del(m)
      <4>1. j - 1 \in 1..Len(wire'[v]) /\ wire'[v][j - 1] = Del(m) /\ j - 1 > i
        BY <1>2, <1>8, <2>2, <3>2
      <4>2. QED BY <4>1
    <3>3. QED BY <1>4, <2>2, <3>1, <3>2 DEF WireInOrder
  <2>3. QED BY <2>1, <2>2
<1>10. ShownInOrder'
  <2> SUFFICES ASSUME NEW u \in Users, NEW m \in shows[u]
               PROVE  /\ Stored(m)
                      /\ DeletedAt(m) => Pending(u, m)' \/ \E j \in 1..Len(wire'[u]) : wire'[u][j] = Del(m)
    BY <1>1, <1>3 DEF ShownInOrder
  <2>1. CASE u # v
    BY <1>2, <1>4, <2>1 DEF ShownInOrder
  <2>2. CASE u = v
    <3>1. m \in Messages
      BY DEF TypeOK
    <3>2. QED BY <1>4, <1>8, <2>2, <3>1 DEF ShownInOrder
  <2>3. QED BY <2>1, <2>2
<1>11. QED BY <1>6, <1>7, <1>9, <1>10

LEMMA FailureDeletes ==
  ASSUME TypeOK, DeletionInv, NEW p \in Processes, HandlerFails(p)
  PROVE  DeletionInv'
<1> USE DEF DeletionInv
<1>1. /\ handler' = [handler EXCEPT ![p] = Idle]
      /\ UNCHANGED <<message, at, wire, shows, servedBy>>
      /\ unannounced' = unannounced \cup (IF handler[p].op = "emit" THEN Deletions({handler[p].event}) \X Users ELSE {})
  BY DEF HandlerFails, Ends, rows, sockets
<1>2. \A m : Stored(m)' = Stored(m) /\ DeletedAt(m)' = DeletedAt(m)
  BY <1>1 DEF Stored, DeletedAt
<1>3. \A q \in Processes : \A m \in Messages :
        /\ Emitting(q, New(m))' => Emitting(q, New(m))
        /\ Emitting(q, Del(m))' => Emitting(q, Del(m))
        /\ q # p /\ Emitting(q, Del(m)) => Emitting(q, Del(m))'
  BY <1>1 DEF Emitting, Idle, TypeOK
<1>4. \A u \in Users : \A m \in Messages : Pending(u, m) => Pending(u, m)'
  <2> SUFFICES ASSUME NEW u \in Users, NEW m \in Messages, Pending(u, m)
               PROVE  Pending(u, m)'
    OBVIOUS
  <2>1. CASE Emitting(p, Del(m))
    <3>1. m \in Deletions({handler[p].event})
      BY <2>1 DEF Emitting, Deletions, Del
    <3>2. <<m, u>> \in unannounced'
      BY <1>1, <2>1, <3>1 DEF Emitting
    <3>3. QED BY <3>2 DEF Pending
  <2>2. CASE ~Emitting(p, Del(m))
    BY <1>1, <1>3, <2>2 DEF Pending
  <2>3. QED BY <2>1, <2>2
<1>5. EmitsFirst'
  BY <1>1, <1>2, <1>3 DEF EmitsFirst
<1>6. AbsentHasNothing'
  BY <1>1 DEF AbsentHasNothing
<1>7. WireInOrder'
  BY <1>1, <1>2, <1>4 DEF WireInOrder
<1>8. ShownInOrder'
  BY <1>1, <1>2, <1>4 DEF ShownInOrder, TypeOK
<1>9. QED BY <1>5, <1>6, <1>7, <1>8

LEMMA RoomDeletes ==
  ASSUME TypeOK, DeletionInv, NEW v \in Users, LeaveChat(v) \/ \E p \in Processes : JoinChat(v, p)
  PROVE  DeletionInv'
<1> USE DEF DeletionInv
<1>1. UNCHANGED <<message, handler, servedBy, unannounced>>
  BY DEF LeaveChat, JoinChat, rows, history
<1>2. \A m : Stored(m)' = Stored(m) /\ DeletedAt(m)' = DeletedAt(m)
  BY <1>1 DEF Stored, DeletedAt
<1>3. \A u : \A m : Pending(u, m)' = Pending(u, m)
  BY <1>1 DEF Pending, Emitting
<1>4. /\ \A u \in Users : u # v => at'[u] = at[u] /\ wire'[u] = wire[u] /\ shows'[u] = shows[u]
      /\ wire'[v] = <<>> /\ shows'[v] = {}
  BY DEF LeaveChat, JoinChat, AbsentHasNothing, TypeOK
<1>5. EmitsFirst'
  BY <1>1, <1>2 DEF EmitsFirst, Emitting
<1>6. AbsentHasNothing'
  BY <1>4 DEF AbsentHasNothing
<1>7. WireInOrder'
  <2>1. 1..Len(wire'[v]) = {}
    BY <1>4
  <2> SUFFICES ASSUME NEW u \in Users, NEW m \in Messages, NEW i \in 1..Len(wire'[u]), wire'[u][i] = New(m)
               PROVE  /\ Stored(m)' /\ at'[u] \notin servedBy'[m].stored
                      /\ DeletedAt(m)' => Pending(u, m)' \/ \E j \in 1..Len(wire'[u]) : j > i /\ wire'[u][j] = Del(m)
    BY DEF WireInOrder
  <2>2. u # v
    BY <2>1
  <2>3. QED BY <1>1, <1>2, <1>3, <1>4, <2>2 DEF WireInOrder
<1>8. ShownInOrder'
  BY <1>2, <1>3, <1>4 DEF ShownInOrder
<1>9. QED BY <1>5, <1>6, <1>7, <1>8

LEMMA NextDeletes == TypeOK /\ DeletionInv /\ [Next]_vars => DeletionInv'
<1> SUFFICES ASSUME TypeOK, DeletionInv, [Next]_vars
             PROVE  DeletionInv'
  OBVIOUS
<1> DEFINE Quiet ==
      /\ UNCHANGED <<message, at, wire, shows, servedBy, unannounced>>
      /\ \A p \in Processes : \A m \in Messages :
           Emitting(p, New(m))' = Emitting(p, New(m)) /\ Emitting(p, Del(m))' = Emitting(p, Del(m))
<1>1. ASSUME NEW p \in Processes, NEW work, UNCHANGED <<message, at, wire, shows, servedBy, unannounced>>,
             handler' = [handler EXCEPT ![p] = work], handler[p].op # "emit", work.op # "emit"
      PROVE  Quiet
  BY <1>1 DEF Emitting, TypeOK
<1>2. ASSUME NEW p \in Processes, FindChat(p) \/ InsertChat(p) \/ InsertReceipt(p)
      PROVE  Quiet
  <2>1. PICK work \in {Idle, [op |-> "create"]} : handler' = [handler EXCEPT ![p] = work]
    BY <1>2 DEF FindChat, InsertChat, InsertReceipt, Begin, Ends
  <2>2. handler[p].op # "emit" /\ work.op # "emit"
    BY <1>2 DEF FindChat, InsertChat, InsertReceipt, Begin, Idle
  <2>3. UNCHANGED <<message, at, wire, shows, servedBy, unannounced>>
    BY <1>2 DEF FindChat, InsertChat, InsertReceipt, rows, sockets, history
  <2>4. QED BY <1>1, <2>1, <2>2, <2>3
<1>3. ASSUME NEW p \in Processes, NEW r \in Receipts, FindReceipt(p, r)
      PROVE  Quiet
  <2>1. UNCHANGED <<message, at, wire, shows, servedBy, unannounced>>
    BY <1>3 DEF FindReceipt, rows, sockets, history
  <2>2. CASE UNCHANGED handler
    BY <2>1, <2>2 DEF Emitting
  <2>3. CASE Begin(p, [op |-> "read", receipt |-> r])
    <3>1. handler[p].op # "emit" /\ [op |-> "read", receipt |-> r].op # "emit"
      BY <2>3 DEF Begin, Idle
    <3>2. QED BY <1>1, <2>1, <2>3, <3>1 DEF Begin
  <2>4. QED BY <1>3, <2>2, <2>3 DEF FindReceipt
<1>4. ASSUME UNCHANGED vars \/ \E r \in Receipts : Report(r)
      PROVE  Quiet
  BY <1>4 DEF vars, Report, rows, sockets, history, Emitting
<1>5. Quiet => DeletionInv'
  BY OtherStepsDelete
<1>6. QED
  BY <1>2, <1>3, <1>4, <1>5, SendDeletes, DeleteDeletes, EmitDeletes, DeliverDeletes, LostDeletes,
     FailureDeletes, RoomDeletes DEF Next

\* DeletedIsTakenAway, for every number of processes and of events on their way.
THEOREM DeletionsArrive == Spec => []DeletedIsTakenAway
<1>1. TypeOK /\ DeletionInv => DeletedIsTakenAway
  <2> SUFFICES ASSUME TypeOK, DeletionInv, NEW u \in Users, NEW m \in shows[u],
                      DeletedAt(m), <<m, u>> \notin unannounced
               PROVE  ToBeTakenAway(u, m)
    BY DEF DeletedIsTakenAway, DeletedAt
  <2>1. DOMAIN wire[u] = 1..Len(wire[u])
    BY DEF TypeOK
  <2>2. QED BY <2>1 DEF DeletionInv, ShownInOrder, Pending, Emitting, Del, ToBeTakenAway
<1>2. QED BY <1>1, InitDeletes, NextDeletes, TypeCorrect, PTL DEF Spec
=============================================================================
