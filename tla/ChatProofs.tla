----------------------------- MODULE ChatProofs -----------------------------
(***************************************************************************)
(* Theorems about Chat, for any users, requests, handlers and sockets.     *)
(***************************************************************************)
EXTENDS ChatProperties, SequenceTheorems, TLAPS

-----------------------------------------------------------------------------
(* Types.                                                                  *)

LEMMA WorkingIsBusy ==
  ASSUME NEW w \in Working
  PROVE  w # Idle
BY DEF Working, Idle

LEMMA BusyIsWorking ==
  ASSUME TypeOK, NEW h \in Handlers, handler[h] # Idle
  PROVE  handler[h] \in Working
BY DEF TypeOK

LEMMA OnlineIsOnline ==
  ASSUME TypeOK, NEW s \in Sockets
  PROVE  /\ socket[s].online => socket[s] \in Online
         /\ ~socket[s].online => socket[s] = Offline
<1>1. socket[s] \in Online => socket[s].online = TRUE
  BY DEF Online
<1>2. ~Offline.online
  BY DEF Offline
<1> QED BY <1>1, <1>2 DEF TypeOK

LEMMA MessageIds ==
  ASSUME TypeOK
  PROVE  /\ Len(message) \in Nat /\ DOMAIN message = 1..Len(message)
         /\ DOMAIN message \subseteq Ids
         /\ \A i \in DOMAIN message : message[i] \in Message
BY BoundAssumption, LenProperties, ElementOfSeq DEF TypeOK, Ids

(* A sequence of messages with every element replaced by another.          *)
LEMMA MappedType ==
  ASSUME TypeOK, NEW f, f = [i \in DOMAIN message |-> f[i]],
         \A i \in DOMAIN message : f[i] \in Message
  PROVE  f \in Seq(Message) /\ Len(f) <= MaxMessages /\ DOMAIN f = DOMAIN message
<1>1. /\ Len(message) \in Nat /\ DOMAIN message = 1..Len(message)
      /\ Len(message) <= MaxMessages
  BY MessageIds DEF TypeOK
<1>2. f \in [1..Len(message) -> Message]
  BY <1>1
<1>3. f \in Seq(Message)
  BY <1>1, <1>2, SeqDef
<1>4. Len(f) = Len(message)
  BY <1>1, <1>2, <1>3, LenProperties
<1> QED BY <1>1, <1>2, <1>3, <1>4

NewMessage(h) ==
  [room |-> handler[h].room, sender |-> handler[h].user,
   image |-> handler[h].image, isRead |-> FALSE, raced |-> ReceiptUnderWay(h)]

LEMMA InsertType ==
  ASSUME TypeOK, NEW h \in Handlers, InsertMessage(h)
  PROVE  /\ handler[h] \in Working
         /\ NewMessage(h) \in Message
         /\ message' = Append(message, NewMessage(h))
         /\ message' \in Seq(Message) /\ Len(message') = Len(message) + 1
         /\ Len(message') \in Ids
         /\ DOMAIN message' = DOMAIN message \cup {Len(message')}
         /\ Len(message') \notin DOMAIN message
         /\ \A i \in DOMAIN message : message'[i] = message[i]
         /\ message'[Len(message')] = NewMessage(h)
<1>1. handler[h] \in Working
  BY BusyIsWorking DEF InsertMessage, Doing
<1>2. ReceiptUnderWay(h) \in BOOLEAN
  BY DEF ReceiptUnderWay
<1>3. NewMessage(h) \in Message
  BY <1>1, <1>2 DEF NewMessage, Working, Message
<1>4. message' = Append(message, NewMessage(h)) /\ Len(message) < MaxMessages
  BY DEF InsertMessage, NewMessage
<1>5. /\ message' \in Seq(Message) /\ Len(message') = Len(message) + 1
      /\ \A i \in 1..Len(message) : message'[i] = message[i]
      /\ message'[Len(message) + 1] = NewMessage(h)
  BY <1>3, <1>4, AppendProperties DEF TypeOK
<1>6. DOMAIN message' = 1..Len(message')
  BY <1>5, LenProperties
<1> QED BY <1>1, <1>3, <1>4, <1>5, <1>6, MessageIds, BoundAssumption DEF Ids

(* What is broadcast has been stored.                                      *)
BroadcastsStored ==
  \A h \in Handlers : Doing(h, "broadcast") =>
    LET i == handler[h].id
    IN  /\ i \in DOMAIN message
        /\ message[i].room = handler[h].room /\ message[i].image = handler[h].image

LEMMA TypeStep ==
  ASSUME TypeOK, BroadcastsStored, [Next]_vars
  PROVE  TypeOK'
<1>a. CASE LifecycleStep
  <2>1. /\ message' = message /\ handler' = handler /\ socket' = socket
        /\ untold' \in SUBSET Ids /\ late' \in [Requests -> [Handlers -> Nat]]
    BY <1>a DEF LifecycleStep, TypeOK
  <2>2. ASSUME NEW r \in Requests, Life!OpenRequest(r)
        PROVE  TypeOK'
    BY <1>a, <2>1, <2>2 DEF LifecycleStep, Life!OpenRequest, TypeOK
  <2>3. ASSUME NEW r \in Requests, NEW m \in Movers, Life!Accept(r, m)
        PROVE  TypeOK'
    BY <1>a, <2>1, <2>3 DEF LifecycleStep, Life!Accept, TypeOK, Estimates
  <2>4. ASSUME NEW e \in accepted, Life!Withdraw(e)
        PROVE  TypeOK'
    BY <1>a, <2>1, <2>4 DEF LifecycleStep, Life!Withdraw, TypeOK
  <2>5. ASSUME NEW S \in SUBSET Requests, NEW T \in SUBSET Requests, Life!Close(S, T)
        PROVE  TypeOK'
    BY <1>a, <2>1, <2>5 DEF LifecycleStep, Life!Close, TypeOK
  <2> QED BY <1>a, <2>2, <2>3, <2>4, <2>5 DEF LifecycleStep
<1>b. ASSUME NEW h \in Handlers, NEW u \in Users, NEW e \in Estimates, NEW image \in BOOLEAN,
             StartSend(h, u, e, image) \/ (StartMarkRead(h, u, e) /\ image = FALSE)
      PROVE  TypeOK'
  <2>1. \A step \in {"insert", "mark"} :
          [step |-> step, user |-> u, room |-> e, image |-> image, id |-> 0] \in Working
    BY DEF Working
  <2> QED BY <1>b, <2>1 DEF StartSend, StartMarkRead, Begin, TypeOK, lifecycle, history
<1>c. ASSUME NEW h \in Handlers, InsertMessage(h)
      PROVE  TypeOK'
  <2>1. /\ handler[h] \in Working /\ message' \in Seq(Message)
        /\ Len(message') \in Ids
    BY <1>c, InsertType
  <2>2. Len(message') <= MaxMessages
    BY <2>1, BoundAssumption DEF Ids
  <2> DEFINE n == Len(message')
  <2> HIDE DEF n
  <2>3. [handler[h] EXCEPT !.step = "broadcast", !.id = n] \in Working
    BY <2>1 DEF Working, n
  <2>4. late' \in [Requests -> [Handlers -> Nat]]
    BY <1>c, <2>1 DEF InsertMessage, StoredLate, Working, Estimates, TypeOK
  <2> QED BY <1>c, <2>1, <2>2, <2>3, <2>4 DEF InsertMessage, TypeOK, lifecycle, history, n
<1>d. ASSUME NEW h \in Handlers, BroadcastMessage(h)
      PROVE  TypeOK'
  <2>1. handler[h] \in Working
    BY <1>d, BusyIsWorking DEF BroadcastMessage, Doing
  <2>2. handler[h].id \in Ids
    BY <1>d, MessageIds DEF BroadcastMessage, BroadcastsStored
  <2>3. \A s \in Sockets : socket[s].online =>
          [socket[s] EXCEPT !.known = @ \cup {handler[h].id}] \in Online
    <3> DEFINE i == handler[h].id
    <3> HIDE DEF i
    <3>1. \A s \in Sockets : socket[s].online =>
            [socket[s] EXCEPT !.known = @ \cup {i}] \in Online
      BY <2>2, OnlineIsOnline DEF Online, i
    <3> QED BY <3>1 DEF i
  <2> QED BY <1>d, <2>3 DEF BroadcastMessage, Finish, InRoom, TypeOK, lifecycle, history
<1>e. ASSUME NEW h \in Handlers, ImageFails(h)
      PROVE  TypeOK'
  <2>1. untold' \in SUBSET Ids
    BY <1>e, MessageIds DEF ImageFails, BroadcastsStored, TypeOK
  <2> QED BY <1>e, <2>1 DEF ImageFails, Finish, TypeOK, lifecycle, history
<1>f. ASSUME NEW h \in Handlers, MarkRead(h)
      PROVE  TypeOK'
  <2>1. handler[h] \in Working
    BY <1>f, BusyIsWorking DEF MarkRead, Doing
  <2>2. \A i \in DOMAIN message : ReadBy(handler[h].user, handler[h].room, message[i]) \in Message
    <3>1. \A m \in Message : \A u, e : ReadBy(u, e, m) \in Message
      BY DEF ReadBy, Message
    <3> QED BY <3>1, MessageIds
  <2>3. message' \in Seq(Message) /\ Len(message') <= MaxMessages
    BY <1>f, <2>2, MappedType DEF MarkRead
  <2>4. [handler[h] EXCEPT !.step = "receipt"] \in Working
    BY <2>1 DEF Working
  <2> QED BY <1>f, <2>3, <2>4 DEF MarkRead, TypeOK, lifecycle, history
<1>g. ASSUME NEW h \in Handlers, BroadcastReceipt(h)
      PROVE  TypeOK'
  <2>1. \A s \in Sockets : socket[s].online =>
          [socket[s] EXCEPT !.marked = @ \cup SentBy(s, handler[h].room)] \in Online
    <3>1. ASSUME NEW s \in Sockets, socket[s].online
          PROVE  [socket[s] EXCEPT !.marked = @ \cup SentBy(s, handler[h].room)] \in Online
      <4>1. socket[s] \in Online
        BY <3>1, OnlineIsOnline
      <4>2. SentBy(s, handler[h].room) \subseteq Ids
        BY <4>1 DEF SentBy, Online
      <4> QED BY <4>1, <4>2 DEF Online
    <3> QED BY <3>1
  <2> QED BY <1>g, <2>1 DEF BroadcastReceipt, Finish, InRoom, TypeOK, lifecycle, history
<1>h. ASSUME NEW s \in Sockets, NEW u \in Users, Connect(s, u)
      PROVE  TypeOK'
  BY <1>h DEF Connect, TypeOK, Online, lifecycle, history
<1>i. ASSUME NEW s \in Sockets, Disconnect(s)
      PROVE  TypeOK'
  BY <1>i DEF Disconnect, TypeOK, lifecycle, history
<1>j. ASSUME NEW s \in Sockets, NEW e \in Estimates,
             AskToJoin(s, e) \/ Join(s, e) \/ Leave(s, e)
      PROVE  TypeOK'
  <2>1. socket[s] \in Online
    BY <1>j, OnlineIsOnline DEF AskToJoin, Join, Leave
  <2>2. Stored(e) \subseteq Ids
    BY MessageIds DEF Stored
  <2>3. CASE AskToJoin(s, e)
    <3>1. [socket[s] EXCEPT !.joining = @ \cup {e}] \in Online
      BY <2>1 DEF Online
    <3> QED BY <2>3, <3>1 DEF AskToJoin, TypeOK, lifecycle, history
  <2>4. CASE Join(s, e)
    <3>1. [socket[s] EXCEPT !.joining = @ \ {e}, !.rooms = @ \cup {e},
                            !.known = @ \cup Stored(e)] \in Online
      BY <2>1, <2>2 DEF Online
    <3> QED BY <2>4, <3>1 DEF Join, TypeOK, lifecycle, history
  <2>5. CASE Leave(s, e)
    <3>1. [socket[s] EXCEPT !.rooms = @ \ {e}, !.known = @ \ Stored(e),
                            !.marked = @ \ Stored(e)] \in Online
      BY <2>1, <2>2 DEF Online
    <3> QED BY <2>5, <3>1 DEF Leave, TypeOK, lifecycle, history
  <2> QED BY <1>j, <2>3, <2>4, <2>5
<1>k. CASE Crash
  BY <1>k DEF Crash, TypeOK, lifecycle, history
<1>l. CASE UNCHANGED vars
  BY <1>l DEF vars, TypeOK
<1> QED
  BY <1>a, <1>b, <1>c, <1>d, <1>e, <1>f, <1>g, <1>h, <1>i, <1>j, <1>k, <1>l
  DEF Next, HandlerStep

-----------------------------------------------------------------------------
(* What no step takes back.                                                *)

(* A stored message keeps its room, its sender and its image, and stays    *)
(* read.                                                                   *)
Kept(i) ==
  /\ i \in DOMAIN message'
  /\ message'[i].room = message[i].room /\ message'[i].sender = message[i].sender
  /\ message'[i].image = message[i].image /\ message'[i].raced = message[i].raced
  /\ message[i].isRead => message'[i].isRead

LEMMA MarkedKept ==
  ASSUME TypeOK, NEW h \in Handlers, MarkRead(h)
  PROVE  /\ DOMAIN message' = DOMAIN message
         /\ \A i \in DOMAIN message :
              /\ Kept(i)
              /\ message[i].room = handler[h].room /\ message[i].sender # handler[h].user =>
                   message'[i].isRead
<1>1. /\ DOMAIN message' = DOMAIN message
      /\ \A i \in DOMAIN message :
           message'[i] = ReadBy(handler[h].user, handler[h].room, message[i])
  BY DEF MarkRead
<1>2. \A i \in DOMAIN message : message[i] \in Message
  BY MessageIds
<1>3. \A m \in Message : \A u, e :
        /\ ReadBy(u, e, m).room = m.room /\ ReadBy(u, e, m).sender = m.sender
        /\ ReadBy(u, e, m).image = m.image /\ ReadBy(u, e, m).raced = m.raced
        /\ m.isRead => ReadBy(u, e, m).isRead
        /\ m.room = e /\ m.sender # u => ReadBy(u, e, m).isRead
  BY DEF ReadBy, Message
<1> QED BY <1>1, <1>2, <1>3 DEF Kept

LEMMA MessagesKept ==
  ASSUME TypeOK, [Next]_vars
  PROVE  \A i \in DOMAIN message : Kept(i)
<1>1. CASE message' = message
  BY <1>1 DEF Kept
<1>2. ASSUME NEW h \in Handlers, InsertMessage(h)
      PROVE  \A i \in DOMAIN message : Kept(i)
  BY <1>2, InsertType DEF Kept
<1>3. ASSUME NEW h \in Handlers, MarkRead(h)
      PROVE  \A i \in DOMAIN message : Kept(i)
  BY <1>3, MarkedKept
<1> QED
  BY <1>1, <1>2, <1>3
  DEF Next, HandlerStep, LifecycleStep, StartSend, StartMarkRead, Begin, ImageFails,
      BroadcastMessage, BroadcastReceipt, Connect, Disconnect, AskToJoin, Join, Leave, Crash, vars

(* Who has access to a room is one of its two parties, and what was once   *)
(* accepted stays recorded even when the estimate or its request moves on. *)
Entitled(u, e) == u \in Parties(e) /\ e \in awarded
Recorded == accepted \subseteq awarded

LEMMA AwardsStay ==
  ASSUME Recorded, [Next]_vars
  PROVE  Recorded' /\ awarded \subseteq awarded'
<1>1. CASE UNCHANGED lifecycle
  BY <1>1 DEF Recorded, lifecycle
<1>2. CASE LifecycleStep
  BY <1>2 DEF LifecycleStep, Recorded
<1> QED
  BY <1>1, <1>2
  DEF Next, HandlerStep, StartSend, StartMarkRead, Begin, ImageFails, InsertMessage, MarkRead,
      BroadcastMessage, BroadcastReceipt, Connect, Disconnect, AskToJoin, Join, Leave, Crash,
      vars, lifecycle

LEMMA AccessEntitles ==
  ASSUME Recorded, NEW u, NEW e, Access(u, e)
  PROVE  Entitled(u, e)
BY DEF Recorded, Access, Entitled, Parties

-----------------------------------------------------------------------------
(* Whoever acts in a room, is in it or has written in it is entitled to it.*)
AccessHeld ==
  /\ Recorded
  /\ \A h \in Handlers : handler[h] # Idle => Entitled(handler[h].user, handler[h].room)
  /\ \A s \in Sockets : socket[s].online =>
       \A e \in socket[s].joining \cup socket[s].rooms : Entitled(socket[s].user, e)
  /\ \A i \in DOMAIN message : Entitled(message[i].sender, message[i].room)

(* A handler acts for one user in one room, whose access it has read.      *)
SameErrand(h) ==
  /\ handler[h] # Idle
  /\ handler'[h].user = handler[h].user /\ handler'[h].room = handler[h].room

LEMMA HandlersGo ==
  ASSUME TypeOK, [Next]_vars, NEW h \in Handlers, handler'[h] # Idle
  PROVE  SameErrand(h) \/ Access(handler'[h].user, handler'[h].room)
<1>1. handler'[h] = handler[h] => SameErrand(h)
  BY DEF SameErrand
<1>2. ASSUME NEW g \in Handlers, NEW u \in Users, NEW e \in Estimates, NEW image \in BOOLEAN,
             StartSend(g, u, e, image) \/ StartMarkRead(g, u, e)
      PROVE  SameErrand(h) \/ Access(handler'[h].user, handler'[h].room)
  <2>1. CASE g = h
    BY <1>2, <2>1 DEF StartSend, StartMarkRead, Begin, TypeOK
  <2>2. CASE g # h
    BY <1>1, <1>2, <2>2 DEF StartSend, StartMarkRead, Begin, TypeOK
  <2> QED BY <2>1, <2>2
<1>3. ASSUME NEW g \in Handlers, InsertMessage(g) \/ MarkRead(g)
      PROVE  SameErrand(h)
  <2>1. CASE g = h
    <3>1. handler[h] \in Working
      BY <1>3, <2>1, BusyIsWorking DEF InsertMessage, MarkRead, Doing
    <3>2. \A n : /\ [handler[h] EXCEPT !.step = "broadcast", !.id = n].user = handler[h].user
                 /\ [handler[h] EXCEPT !.step = "broadcast", !.id = n].room = handler[h].room
      BY <3>1 DEF Working
    <3>3. /\ [handler[h] EXCEPT !.step = "receipt"].user = handler[h].user
          /\ [handler[h] EXCEPT !.step = "receipt"].room = handler[h].room
      BY <3>1 DEF Working
    <3>4. \/ handler'[h] = [handler[h] EXCEPT !.step = "broadcast", !.id = Len(message')]
          \/ handler'[h] = [handler[h] EXCEPT !.step = "receipt"]
      BY <1>3, <2>1 DEF InsertMessage, MarkRead, TypeOK
    <3> QED BY <3>1, <3>2, <3>3, <3>4, WorkingIsBusy DEF SameErrand
  <2>2. CASE g # h
    BY <1>1, <1>3, <2>2 DEF InsertMessage, MarkRead, TypeOK
  <2> QED BY <2>1, <2>2
<1>4. ASSUME NEW g \in Handlers, Finish(g)
      PROVE  SameErrand(h)
  BY <1>1, <1>4 DEF Finish, TypeOK
<1>5. CASE Crash
  BY <1>5 DEF Crash
<1>6. ASSUME NEW s \in Sockets, NEW e,
             \/ \E u \in Users : Connect(s, u)
             \/ Disconnect(s) \/ AskToJoin(s, e) \/ Join(s, e) \/ Leave(s, e)
      PROVE  SameErrand(h)
  BY <1>1, <1>6 DEF Connect, Disconnect, AskToJoin, Join, Leave
<1>7. CASE LifecycleStep \/ UNCHANGED vars
  BY <1>1, <1>7 DEF LifecycleStep, vars
<1> QED
  BY <1>2, <1>3, <1>4, <1>5, <1>6, <1>7
  DEF Next, HandlerStep, ImageFails, BroadcastMessage, BroadcastReceipt

(* A socket is in, or on its way to, rooms its user has access to.         *)
SameSocket(s) == socket[s].online /\ socket'[s].user = socket[s].user

LEMMA SocketsGo ==
  ASSUME TypeOK, [Next]_vars, NEW s \in Sockets, socket'[s].online,
         NEW e \in socket'[s].joining \cup socket'[s].rooms
  PROVE  \/ SameSocket(s) /\ e \in socket[s].joining \cup socket[s].rooms
         \/ Access(socket'[s].user, e) /\ e \in Estimates
<1> DEFINE Goal == \/ SameSocket(s) /\ e \in socket[s].joining \cup socket[s].rooms
                   \/ Access(socket'[s].user, e) /\ e \in Estimates
<1>1. CASE socket'[s] = socket[s]
  BY <1>1 DEF SameSocket
<1>2. ASSUME NEW h \in Handlers, BroadcastMessage(h) \/ BroadcastReceipt(h)
      PROVE  Goal
  <2>1. CASE socket[s].online
    <3>1. socket[s] \in Online
      BY <2>1, OnlineIsOnline
    <3> DEFINE told == {handler[h].id}
               read == SentBy(s, handler[h].room)
    <3>2. socket'[s] \in {socket[s], [socket[s] EXCEPT !.known = @ \cup told],
                          [socket[s] EXCEPT !.marked = @ \cup read]}
      BY <1>2 DEF BroadcastMessage, BroadcastReceipt
    <3> HIDE DEF told, read
    <3>3. /\ socket'[s].joining = socket[s].joining /\ socket'[s].rooms = socket[s].rooms
          /\ socket'[s].user = socket[s].user
      BY <3>1, <3>2 DEF Online
    <3> QED BY <2>1, <3>3 DEF SameSocket
  <2>2. CASE ~socket[s].online
    BY <1>1, <1>2, <2>2 DEF BroadcastMessage, BroadcastReceipt, InRoom
  <2> QED BY <2>1, <2>2
<1>3. ASSUME NEW t \in Sockets, NEW u \in Users, Connect(t, u)
      PROVE  Goal
  BY <1>1, <1>3 DEF Connect, TypeOK
<1>4. ASSUME NEW t \in Sockets, Disconnect(t)
      PROVE  Goal
  BY <1>1, <1>4 DEF Disconnect, TypeOK, Offline
<1>5. ASSUME NEW t \in Sockets, NEW f \in Estimates,
             AskToJoin(t, f) \/ Join(t, f) \/ Leave(t, f)
      PROVE  Goal
  <2>1. CASE t = s
    <3>1. socket[s] \in Online
      BY <1>5, <2>1, OnlineIsOnline DEF AskToJoin, Join, Leave
    <3>2. CASE AskToJoin(s, f)
      <4>1. socket'[s] = [socket[s] EXCEPT !.joining = @ \cup {f}]
        BY <3>2 DEF AskToJoin, TypeOK
      <4>2. /\ socket'[s].joining = socket[s].joining \cup {f}
            /\ socket'[s].rooms = socket[s].rooms /\ socket'[s].user = socket[s].user
        BY <3>1, <4>1 DEF Online
      <4> QED BY <3>2, <4>2 DEF SameSocket, AskToJoin
    <3>3. CASE Join(s, f)
      <4>1. socket'[s] = [socket[s] EXCEPT !.joining = @ \ {f}, !.rooms = @ \cup {f},
                                           !.known = @ \cup Stored(f)]
        BY <3>3 DEF Join, TypeOK
      <4>2. /\ socket'[s].joining = socket[s].joining \ {f}
            /\ socket'[s].rooms = socket[s].rooms \cup {f}
            /\ socket'[s].user = socket[s].user
        BY <3>1, <4>1 DEF Online
      <4> QED BY <3>3, <4>2 DEF SameSocket, Join
    <3>4. CASE Leave(s, f)
      <4>1. socket'[s] = [socket[s] EXCEPT !.rooms = @ \ {f}, !.known = @ \ Stored(f),
                                           !.marked = @ \ Stored(f)]
        BY <3>4 DEF Leave, TypeOK
      <4>2. /\ socket'[s].joining = socket[s].joining
            /\ socket'[s].rooms = socket[s].rooms \ {f}
            /\ socket'[s].user = socket[s].user
        BY <3>1, <4>1 DEF Online
      <4> QED BY <3>4, <4>2 DEF SameSocket, Leave
    <3> QED BY <1>5, <2>1, <3>2, <3>3, <3>4
  <2>2. CASE t # s
    BY <1>1, <1>5, <2>2 DEF AskToJoin, Join, Leave, TypeOK
  <2> QED BY <2>1, <2>2
<1>6. CASE Crash
  BY <1>6 DEF Crash, Offline
<1> QED
  BY <1>1, <1>2, <1>3, <1>4, <1>5, <1>6
  DEF Next, HandlerStep, LifecycleStep, StartSend, StartMarkRead, Begin, InsertMessage,
      ImageFails, MarkRead, vars

LEMMA MessagesGo ==
  ASSUME TypeOK, [Next]_vars, NEW i \in DOMAIN message'
  PROVE  \/ i \in DOMAIN message
         \/ \E h \in Handlers : /\ InsertMessage(h) /\ i = Len(message')
                                /\ message'[i] = NewMessage(h)
<1>1. ASSUME NEW h \in Handlers, InsertMessage(h)
      PROVE  i \in DOMAIN message \/ (i = Len(message') /\ message'[i] = NewMessage(h))
  BY <1>1, InsertType
<1>2. CASE message' = message
  BY <1>2
<1>3. ASSUME NEW h \in Handlers, MarkRead(h)
      PROVE  i \in DOMAIN message
  BY <1>3, MarkedKept
<1> QED
  BY <1>1, <1>2, <1>3
  DEF Next, HandlerStep, LifecycleStep, StartSend, StartMarkRead, Begin, ImageFails,
      BroadcastMessage, BroadcastReceipt, Connect, Disconnect, AskToJoin, Join, Leave, Crash, vars

LEMMA AccessStep ==
  ASSUME TypeOK, AccessHeld, [Next]_vars
  PROVE  AccessHeld'
<1>0. /\ Recorded /\ Recorded' /\ awarded \subseteq awarded'
  BY AwardsStay DEF AccessHeld
<1>1. ASSUME NEW h \in Handlers, handler'[h] # Idle
      PROVE  Entitled(handler[h].user, handler[h].room)'
  <2>1. Entitled(handler'[h].user, handler'[h].room)
    BY <1>0, <1>1, HandlersGo, AccessEntitles DEF SameErrand, AccessHeld
  <2> QED BY <1>0, <2>1 DEF Entitled, Parties
<1>2. ASSUME NEW s \in Sockets, socket'[s].online,
             NEW e \in socket'[s].joining \cup socket'[s].rooms
      PROVE  Entitled(socket[s].user, e)'
  <2>1. Entitled(socket'[s].user, e)
    BY <1>0, <1>2, SocketsGo, AccessEntitles DEF SameSocket, AccessHeld
  <2> QED BY <1>0, <2>1 DEF Entitled, Parties
<1>3. ASSUME NEW i \in DOMAIN message'
      PROVE  Entitled(message[i].sender, message[i].room)'
  <2>1. CASE i \in DOMAIN message
    <3>1. Entitled(message'[i].sender, message'[i].room)
      BY <2>1, MessagesKept DEF AccessHeld, Kept
    <3> QED BY <1>0, <3>1 DEF Entitled, Parties
  <2>2. ASSUME NEW h \in Handlers, InsertMessage(h), message'[i] = NewMessage(h)
        PROVE  Entitled(message[i].sender, message[i].room)'
    <3>1. Entitled(handler[h].user, handler[h].room)
      BY <2>2 DEF InsertMessage, Doing, AccessHeld
    <3>2. message'[i].sender = handler[h].user /\ message'[i].room = handler[h].room
      BY <2>2 DEF NewMessage
    <3> QED BY <1>0, <3>1, <3>2 DEF Entitled, Parties
  <2> QED BY <2>1, <2>2, MessagesGo
<1> QED BY <1>0, <1>1, <1>2, <1>3 DEF AccessHeld

-----------------------------------------------------------------------------
(* The steps of a handler.                                                 *)
LEMMA StepsGo ==
  ASSUME TypeOK, [Next]_vars, NEW h \in Handlers, handler'[h] # Idle
  PROVE  \/ handler'[h] = handler[h]
         \/ InsertMessage(h) /\ handler'[h].step = "broadcast" /\ handler'[h].id = Len(message')
         \/ MarkRead(h) /\ handler'[h].step = "receipt"
         \/ handler'[h].step = "mark"
         \/ handler'[h].step = "insert" /\ Writable(handler'[h].room)
<1> DEFINE Goal ==
         \/ handler'[h] = handler[h]
         \/ InsertMessage(h) /\ handler'[h].step = "broadcast" /\ handler'[h].id = Len(message')
         \/ MarkRead(h) /\ handler'[h].step = "receipt"
         \/ handler'[h].step = "mark"
         \/ handler'[h].step = "insert" /\ Writable(handler'[h].room)
<1>1. ASSUME NEW g \in Handlers, NEW u \in Users, NEW e \in Estimates, NEW image \in BOOLEAN,
             StartSend(g, u, e, image) \/ StartMarkRead(g, u, e)
      PROVE  Goal
  BY <1>1 DEF StartSend, StartMarkRead, Begin, TypeOK
<1>2. ASSUME NEW g \in Handlers, InsertMessage(g)
      PROVE  Goal
  <2>1. handler[g] \in Working
    BY <1>2, InsertType
  <2> DEFINE n == Len(message')
  <2> HIDE DEF n
  <2>2. handler' = [handler EXCEPT ![g] = [handler[g] EXCEPT !.step = "broadcast", !.id = n]]
    BY <1>2 DEF InsertMessage, n
  <2>3. /\ [handler[g] EXCEPT !.step = "broadcast", !.id = n].step = "broadcast"
        /\ [handler[g] EXCEPT !.step = "broadcast", !.id = n].id = n
    BY <2>1 DEF Working
  <2>4. CASE g = h
    <3>1. handler'[h].step = "broadcast" /\ handler'[h].id = n
      BY <2>2, <2>3, <2>4 DEF TypeOK
    <3> QED BY <1>2, <2>4, <3>1 DEF n
  <2>5. CASE g # h
    BY <2>2, <2>5 DEF TypeOK
  <2> QED BY <2>4, <2>5
<1>3. ASSUME NEW g \in Handlers, MarkRead(g)
      PROVE  Goal
  <2>1. handler[g] \in Working
    BY <1>3, BusyIsWorking DEF MarkRead, Doing
  <2>2. handler' = [handler EXCEPT ![g] = [handler[g] EXCEPT !.step = "receipt"]]
    BY <1>3 DEF MarkRead
  <2>3. [handler[g] EXCEPT !.step = "receipt"].step = "receipt"
    BY <2>1 DEF Working
  <2> QED BY <1>3, <2>2, <2>3 DEF TypeOK
<1>4. ASSUME NEW g \in Handlers, Finish(g)
      PROVE  Goal
  BY <1>4 DEF Finish, TypeOK
<1>5. CASE Crash
  BY <1>5 DEF Crash
<1>6. CASE handler' = handler
  BY <1>6
<1> QED
  BY <1>1, <1>2, <1>3, <1>4, <1>5, <1>6
  DEF Next, HandlerStep, ImageFails, BroadcastMessage, BroadcastReceipt, LifecycleStep,
      Connect, Disconnect, AskToJoin, Join, Leave, vars

LEMMA BroadcasterStays ==
  ASSUME TypeOK, [Next]_vars, NEW h \in Handlers, Doing(h, "broadcast")
  PROVE  \/ handler'[h] = handler[h]
         \/ BroadcastMessage(h) \/ ImageFails(h) \/ Crash
<1>1. ASSUME NEW g \in Handlers, NEW u, NEW e, NEW image,
             StartSend(g, u, e, image) \/ StartMarkRead(g, u, e)
      PROVE  handler'[h] = handler[h]
  BY <1>1 DEF StartSend, StartMarkRead, Begin, Doing, TypeOK
<1>2. ASSUME NEW g \in Handlers, InsertMessage(g) \/ MarkRead(g) \/ BroadcastReceipt(g)
      PROVE  handler'[h] = handler[h]
  <2>1. g # h
    BY <1>2 DEF InsertMessage, MarkRead, BroadcastReceipt, Doing
  <2> QED BY <1>2, <2>1 DEF InsertMessage, MarkRead, BroadcastReceipt, Finish, TypeOK
<1>3. ASSUME NEW g \in Handlers, g # h, BroadcastMessage(g) \/ ImageFails(g)
      PROVE  handler'[h] = handler[h]
  BY <1>3 DEF BroadcastMessage, ImageFails, Finish, TypeOK
<1>4. CASE handler' = handler
  BY <1>4
<1> QED
  BY <1>1, <1>2, <1>3, <1>4
  DEF Next, HandlerStep, LifecycleStep, Connect, Disconnect, AskToJoin, Join, Leave, vars

LEMMA StoredStep ==
  ASSUME TypeOK, BroadcastsStored, [Next]_vars
  PROVE  BroadcastsStored'
<1> SUFFICES ASSUME NEW h \in Handlers, handler'[h] # Idle, handler'[h].step = "broadcast"
             PROVE  LET i == handler'[h].id
                    IN  /\ i \in DOMAIN message'
                        /\ message'[i].room = handler'[h].room
                        /\ message'[i].image = handler'[h].image
  BY DEF BroadcastsStored, Doing
<1>1. CASE handler'[h] = handler[h]
  <2>1. Doing(h, "broadcast")
    BY <1>1 DEF Doing
  <2> QED BY <1>1, <2>1, MessagesKept DEF BroadcastsStored, Kept
<1>2. CASE InsertMessage(h)
  <2>1. /\ handler[h] \in Working /\ message'[Len(message')] = NewMessage(h)
        /\ Len(message') \in DOMAIN message'
    BY <1>2, InsertType
  <2> DEFINE n == Len(message')
  <2> HIDE DEF n
  <2>2. handler'[h] = [handler[h] EXCEPT !.step = "broadcast", !.id = n]
    BY <1>2 DEF InsertMessage, TypeOK, n
  <2>3. /\ handler'[h].id = n /\ handler'[h].room = handler[h].room
        /\ handler'[h].image = handler[h].image
    BY <2>1, <2>2 DEF Working
  <2> QED BY <2>1, <2>3 DEF NewMessage, n
<1> QED BY <1>1, <1>2, StepsGo

-----------------------------------------------------------------------------
(* The feed.                                                               *)

(* A socket in a room that lacks a message lacked it before.               *)
LEMMA LackedBefore ==
  ASSUME TypeOK, [Next]_vars, NEW s \in Sockets, socket'[s].online, NEW e \in socket'[s].rooms,
         NEW i \in DOMAIN message, message[i].room = e, i \notin socket'[s].known
  PROVE  socket[s].online /\ e \in socket[s].rooms /\ i \notin socket[s].known
<1> DEFINE Goal == socket[s].online /\ e \in socket[s].rooms /\ i \notin socket[s].known
<1>1. CASE socket'[s] = socket[s]
  BY <1>1
<1>2. ASSUME NEW h \in Handlers, BroadcastMessage(h) \/ BroadcastReceipt(h)
      PROVE  Goal
  <2>1. CASE socket[s].online
    <3>1. socket[s] \in Online
      BY <2>1, OnlineIsOnline
    <3> DEFINE told == {handler[h].id}
               read == SentBy(s, handler[h].room)
    <3>2. socket'[s] \in {socket[s], [socket[s] EXCEPT !.known = @ \cup told],
                          [socket[s] EXCEPT !.marked = @ \cup read]}
      BY <1>2 DEF BroadcastMessage, BroadcastReceipt
    <3> HIDE DEF told, read
    <3>3. socket'[s].rooms = socket[s].rooms /\ socket[s].known \subseteq socket'[s].known
      BY <3>1, <3>2 DEF Online
    <3> QED BY <2>1, <3>3
  <2>2. CASE ~socket[s].online
    BY <1>1, <1>2, <2>2 DEF BroadcastMessage, BroadcastReceipt, InRoom
  <2> QED BY <2>1, <2>2
<1>3. ASSUME NEW t \in Sockets, NEW u \in Users, Connect(t, u)
      PROVE  Goal
  BY <1>1, <1>3 DEF Connect, TypeOK
<1>4. ASSUME NEW t \in Sockets, Disconnect(t)
      PROVE  Goal
  BY <1>1, <1>4 DEF Disconnect, TypeOK, Offline
<1>5. ASSUME NEW t \in Sockets, NEW f \in Estimates,
             AskToJoin(t, f) \/ Join(t, f) \/ Leave(t, f)
      PROVE  Goal
  <2>1. CASE t = s
    <3>1. socket[s] \in Online /\ socket[s].online
      BY <1>5, <2>1, OnlineIsOnline DEF AskToJoin, Join, Leave
    <3>2. CASE AskToJoin(s, f)
      <4>1. socket'[s] = [socket[s] EXCEPT !.joining = @ \cup {f}]
        BY <3>2 DEF AskToJoin, TypeOK
      <4> QED BY <3>1, <4>1 DEF Online
    <3>3. CASE Join(s, f)
      <4>1. socket'[s] = [socket[s] EXCEPT !.joining = @ \ {f}, !.rooms = @ \cup {f},
                                           !.known = @ \cup Stored(f)]
        BY <3>3 DEF Join, TypeOK
      <4>2. /\ socket'[s].rooms = socket[s].rooms \cup {f}
            /\ socket'[s].known = socket[s].known \cup Stored(f)
        BY <3>1, <4>1 DEF Online
      <4> QED BY <3>1, <4>2 DEF Stored
    <3>4. CASE Leave(s, f)
      <4>1. socket'[s] = [socket[s] EXCEPT !.rooms = @ \ {f}, !.known = @ \ Stored(f),
                                           !.marked = @ \ Stored(f)]
        BY <3>4 DEF Leave, TypeOK
      <4>2. /\ socket'[s].rooms = socket[s].rooms \ {f}
            /\ socket'[s].known = socket[s].known \ Stored(f)
        BY <3>1, <4>1 DEF Online
      <4> QED BY <3>1, <4>2 DEF Stored
    <3> QED BY <1>5, <2>1, <3>2, <3>3, <3>4
  <2>2. CASE t # s
    BY <1>1, <1>5, <2>2 DEF AskToJoin, Join, Leave, TypeOK
  <2> QED BY <2>1, <2>2
<1>6. CASE Crash
  BY <1>6 DEF Crash, Offline
<1> QED
  BY <1>1, <1>2, <1>3, <1>4, <1>5, <1>6
  DEF Next, HandlerStep, LifecycleStep, StartSend, StartMarkRead, Begin, InsertMessage,
      ImageFails, MarkRead, vars

LEMMA UntoldStay == [Next]_vars => untold \subseteq untold'
BY DEF Next, HandlerStep, LifecycleStep, StartSend, StartMarkRead, Begin, InsertMessage,
   ImageFails, MarkRead, BroadcastMessage, BroadcastReceipt, Connect, Disconnect,
   AskToJoin, Join, Leave, Crash, vars, history

LEMMA FeedStep ==
  ASSUME TypeOK, BroadcastsStored, FeedComplete, [Next]_vars
  PROVE  FeedComplete'
<1> SUFFICES ASSUME NEW s \in Sockets, socket'[s].online, NEW e \in socket'[s].rooms,
                    NEW i \in DOMAIN message', message'[i].room = e, i \notin socket'[s].known,
                    i \notin untold'
             PROVE  \E h \in Handlers : Doing(h, "broadcast")' /\ handler'[h].id = i
  BY DEF FeedComplete, Stored
<1>1. CASE i \in DOMAIN message
  <2>1. Kept(i) /\ message[i].room = e /\ i \notin untold
    BY <1>1, MessagesKept, UntoldStay DEF Kept
  <2>2. socket[s].online /\ e \in socket[s].rooms /\ i \notin socket[s].known
    BY <1>1, <2>1, LackedBefore
  <2>3. PICK h \in Handlers : Doing(h, "broadcast") /\ handler[h].id = i
    BY <1>1, <2>1, <2>2 DEF FeedComplete, Stored
  <2>4. message[i].room = handler[h].room
    BY <2>3 DEF BroadcastsStored
  <2>5. ~ImageFails(h)
    BY <2>3 DEF ImageFails, Doing
  <2>6. ~BroadcastMessage(h)
    <3>1. SUFFICES ASSUME BroadcastMessage(h)
                   PROVE  FALSE
      OBVIOUS
    <3>2. socket'[s] = [socket[s] EXCEPT !.known = @ \cup {i}]
      BY <2>1, <2>2, <2>3, <2>4, <3>1 DEF BroadcastMessage, InRoom
    <3>3. socket[s] \in Online
      BY <2>2, OnlineIsOnline
    <3> QED BY <3>2, <3>3 DEF Online
  <2>7. ~Crash
    BY DEF Crash, Offline
  <2>8. handler'[h] = handler[h]
    BY <2>3, <2>5, <2>6, <2>7, BroadcasterStays
  <2> QED BY <2>3, <2>8 DEF Doing
<1>2. ASSUME NEW h \in Handlers, InsertMessage(h), i = Len(message')
      PROVE  \E g \in Handlers : Doing(g, "broadcast")' /\ handler'[g].id = i
  <2>1. handler[h] \in Working
    BY <1>2, InsertType
  <2>2. handler'[h] = [handler[h] EXCEPT !.step = "broadcast", !.id = i]
    BY <1>2 DEF InsertMessage, TypeOK
  <2>3. handler'[h].step = "broadcast" /\ handler'[h].id = i
    BY <2>1, <2>2 DEF Working
  <2>4. handler'[h] # Idle
    BY <2>3 DEF Idle
  <2> QED BY <2>3, <2>4 DEF Doing
<1> QED BY <1>1, <1>2, MessagesGo

-----------------------------------------------------------------------------
(* Receipts.                                                               *)

(* Whoever is about to send a receipt has read all it is for.              *)
ReadOrRaced(i) == message[i].isRead \/ message[i].raced

ReadBeforeReceipt ==
  \A h \in Handlers : Doing(h, "receipt") =>
    \A i \in DOMAIN message :
      message[i].room = handler[h].room /\ message[i].sender # handler[h].user => ReadOrRaced(i)

MarksStored ==
  \A s \in Sockets : socket[s].online =>
    socket[s].known \subseteq DOMAIN message /\ socket[s].marked \subseteq DOMAIN message

LEMMA ReceiptStep ==
  ASSUME TypeOK, ReadBeforeReceipt, [Next]_vars
  PROVE  ReadBeforeReceipt'
<1> SUFFICES ASSUME NEW h \in Handlers, handler'[h] # Idle, handler'[h].step = "receipt",
                    NEW i \in DOMAIN message', message'[i].room = handler'[h].room,
                    message'[i].sender # handler'[h].user
             PROVE  message'[i].isRead \/ message'[i].raced
  BY DEF ReadBeforeReceipt, Doing, ReadOrRaced
<1>1. CASE handler'[h] = handler[h]
  <2>1. Doing(h, "receipt")
    BY <1>1 DEF Doing
  <2>2. CASE i \in DOMAIN message
    BY <1>1, <2>1, <2>2, MessagesKept DEF Kept, ReadBeforeReceipt, ReadOrRaced
  <2>3. ASSUME NEW g \in Handlers, message'[i] = NewMessage(g)
        PROVE  message'[i].raced
    BY <1>1, <2>1, <2>3 DEF NewMessage, ReceiptUnderWay
  <2> QED BY <2>2, <2>3, MessagesGo
<1>2. CASE MarkRead(h)
  <2>1. handler[h] \in Working
    BY <1>2, BusyIsWorking DEF MarkRead, Doing
  <2>2. handler'[h] = [handler[h] EXCEPT !.step = "receipt"]
    BY <1>2 DEF MarkRead, TypeOK
  <2>3. handler'[h].room = handler[h].room /\ handler'[h].user = handler[h].user
    BY <2>1, <2>2 DEF Working
  <2> QED BY <1>2, <2>3, MarkedKept DEF Kept
<1> QED BY <1>1, <1>2, StepsGo

(* What a socket knows and what it was told is read.                       *)
LEMMA MarksGo ==
  ASSUME TypeOK, BroadcastsStored, MarksStored, [Next]_vars,
         NEW s \in Sockets, socket'[s].online
  PROVE  /\ socket'[s].known \subseteq DOMAIN message
         /\ \A i \in socket'[s].marked :
              \/ socket[s].online /\ i \in socket[s].marked
              \/ \E h \in Handlers : /\ Doing(h, "receipt") /\ socket[s].online
                                     /\ socket[s].user # handler[h].user
                                     /\ i \in SentBy(s, handler[h].room)
<1> DEFINE Goal ==
         /\ socket'[s].known \subseteq DOMAIN message
         /\ \A i \in socket'[s].marked :
              \/ socket[s].online /\ i \in socket[s].marked
              \/ \E h \in Handlers : /\ Doing(h, "receipt") /\ socket[s].online
                                     /\ socket[s].user # handler[h].user
                                     /\ i \in SentBy(s, handler[h].room)
<1>1. socket'[s] = socket[s] => Goal
  BY DEF MarksStored
<1>2. ASSUME NEW h \in Handlers, BroadcastMessage(h)
      PROVE  Goal
  <2>1. CASE InRoom(s, handler[h].room)
    <3>1. socket[s] \in Online /\ socket[s].online
      BY <2>1, OnlineIsOnline DEF InRoom
    <3> DEFINE told == {handler[h].id}
    <3>2. told \subseteq DOMAIN message
      BY <1>2 DEF BroadcastMessage, BroadcastsStored
    <3>3. socket'[s] = [socket[s] EXCEPT !.known = @ \cup told]
      BY <1>2, <2>1 DEF BroadcastMessage
    <3> HIDE DEF told
    <3>4. socket'[s].known = socket[s].known \cup told /\ socket'[s].marked = socket[s].marked
      BY <3>1, <3>3 DEF Online
    <3> QED BY <3>1, <3>2, <3>4 DEF MarksStored
  <2>2. CASE ~InRoom(s, handler[h].room)
    BY <1>1, <1>2, <2>2 DEF BroadcastMessage
  <2> QED BY <2>1, <2>2
<1>3. ASSUME NEW h \in Handlers, BroadcastReceipt(h)
      PROVE  Goal
  <2>1. CASE InRoom(s, handler[h].room) /\ socket[s].user # handler[h].user
    <3>1. socket[s] \in Online /\ socket[s].online
      BY <2>1, OnlineIsOnline DEF InRoom
    <3> DEFINE read == SentBy(s, handler[h].room)
    <3>2. socket'[s] = [socket[s] EXCEPT !.marked = @ \cup read]
      BY <1>3, <2>1 DEF BroadcastReceipt
    <3> HIDE DEF read
    <3>3. socket'[s].known = socket[s].known /\ socket'[s].marked = socket[s].marked \cup read
      BY <3>1, <3>2 DEF Online
    <3>4. Doing(h, "receipt")
      BY <1>3 DEF BroadcastReceipt
    <3> QED BY <2>1, <3>1, <3>3, <3>4 DEF MarksStored, read
  <2>2. CASE ~(InRoom(s, handler[h].room) /\ socket[s].user # handler[h].user)
    BY <1>1, <1>3, <2>2 DEF BroadcastReceipt
  <2> QED BY <2>1, <2>2
<1>4. ASSUME NEW t \in Sockets, NEW u \in Users, Connect(t, u)
      PROVE  Goal
  <2>1. CASE t = s
    <3>1. socket'[s].known = {} /\ socket'[s].marked = {}
      BY <1>4, <2>1 DEF Connect, TypeOK
    <3> QED BY <3>1
  <2>2. CASE t # s
    BY <1>1, <1>4, <2>2 DEF Connect, TypeOK
  <2> QED BY <2>1, <2>2
<1>5. ASSUME NEW t \in Sockets, Disconnect(t)
      PROVE  Goal
  BY <1>1, <1>5 DEF Disconnect, TypeOK, Offline
<1>6. ASSUME NEW t \in Sockets, NEW f \in Estimates,
             AskToJoin(t, f) \/ Join(t, f) \/ Leave(t, f)
      PROVE  Goal
  <2>1. CASE t = s
    <3>1. socket[s] \in Online /\ socket[s].online
      BY <1>6, <2>1, OnlineIsOnline DEF AskToJoin, Join, Leave
    <3>2. Stored(f) \subseteq DOMAIN message
      BY DEF Stored
    <3>3. socket'[s] \in {[socket[s] EXCEPT !.joining = @ \cup {f}],
                          [socket[s] EXCEPT !.joining = @ \ {f}, !.rooms = @ \cup {f},
                                            !.known = @ \cup Stored(f)],
                          [socket[s] EXCEPT !.rooms = @ \ {f}, !.known = @ \ Stored(f),
                                            !.marked = @ \ Stored(f)]}
      BY <1>6, <2>1 DEF AskToJoin, Join, Leave, TypeOK
    <3>4. /\ socket'[s].known \subseteq socket[s].known \cup Stored(f)
          /\ socket'[s].marked \subseteq socket[s].marked
      BY <3>1, <3>3 DEF Online
    <3> QED BY <3>1, <3>2, <3>4 DEF MarksStored
  <2>2. CASE t # s
    BY <1>1, <1>6, <2>2 DEF AskToJoin, Join, Leave, TypeOK
  <2> QED BY <2>1, <2>2
<1>7. CASE Crash
  BY <1>7 DEF Crash, Offline
<1>8. CASE socket' = socket
  BY <1>1, <1>8
<1> QED
  BY <1>2, <1>3, <1>4, <1>5, <1>6, <1>7, <1>8
  DEF Next, HandlerStep, LifecycleStep, StartSend, StartMarkRead, Begin, InsertMessage,
      ImageFails, MarkRead, vars

LEMMA MarksStep ==
  ASSUME TypeOK, BroadcastsStored, MarksStored, ReadBeforeReceipt, ReceiptsAreTrue, [Next]_vars
  PROVE  MarksStored' /\ ReceiptsAreTrue'
<1>1. DOMAIN message \subseteq DOMAIN message'
  BY MessagesKept DEF Kept
<1>2. ASSUME NEW s \in Sockets, socket'[s].online, NEW i \in socket'[s].marked
      PROVE  i \in DOMAIN message /\ ReadOrRaced(i)
  <2>1. CASE socket[s].online /\ i \in socket[s].marked
    BY <2>1 DEF MarksStored, ReceiptsAreTrue, ReadOrRaced
  <2>2. ASSUME NEW h \in Handlers, Doing(h, "receipt"), socket[s].online,
               socket[s].user # handler[h].user, i \in SentBy(s, handler[h].room)
        PROVE  i \in DOMAIN message /\ ReadOrRaced(i)
    BY <2>2 DEF SentBy, MarksStored, ReadBeforeReceipt
  <2> QED BY <1>2, <2>1, <2>2, MarksGo
<1>3. MarksStored'
  BY <1>1, <1>2, MarksGo DEF MarksStored
<1>4. ReceiptsAreTrue'
  BY <1>2, MessagesKept DEF ReceiptsAreTrue, ReadOrRaced, Kept
<1> QED BY <1>3, <1>4

-----------------------------------------------------------------------------
(* Late messages: while a request is confirmed nothing is late, and a      *)
(* handler that is still about to store one has stored none since.         *)
ToStore(h, r) == Doing(h, "insert") /\ handler[h].room[1] = r

LateCounts ==
  \A r \in Requests, h \in Handlers :
    /\ late[r][h] <= 1
    /\ status[r] = "CONFIRMED" \/ ToStore(h, r) => late[r][h] = 0

LEMMA LateGoes ==
  ASSUME [Next]_vars, ~LifecycleStep
  PROVE  /\ status' = status
         /\ \/ late' = late
            \/ \E g \in Handlers : InsertMessage(g) /\ late' = StoredLate(g)
BY DEF Next, HandlerStep, StartSend, StartMarkRead, Begin, InsertMessage,
   ImageFails, MarkRead, BroadcastMessage, BroadcastReceipt, Connect, Disconnect,
   AskToJoin, Join, Leave, Crash, vars, history, lifecycle

LEMMA LateStep ==
  ASSUME TypeOK, LateCounts, [Next]_vars
  PROVE  LateCounts'
<1> SUFFICES ASSUME NEW r \in Requests, NEW h \in Handlers
             PROVE  /\ late'[r][h] <= 1
                    /\ status'[r] = "CONFIRMED" \/ ToStore(h, r)' => late'[r][h] = 0
  BY DEF LateCounts
<1>1. CASE LifecycleStep
  <2>1. /\ late'[r][h] = IF status'[r] = "CONFIRMED" THEN 0 ELSE late[r][h]
        /\ ToStore(h, r)' => ToStore(h, r)
    BY <1>1 DEF LifecycleStep, ToStore, Doing
  <2> QED BY <2>1 DEF LateCounts
<1>2. CASE ~LifecycleStep
  <2>1. status' = status
    BY <1>2, LateGoes
  <2>2. ToStore(h, r)' => (ToStore(h, r) /\ handler'[h] = handler[h]) \/ status[r] = "CONFIRMED"
    BY StepsGo DEF ToStore, Doing, Writable
  <2>3. CASE late' = late
    BY <2>1, <2>2, <2>3 DEF LateCounts
  <2>4. ASSUME NEW g \in Handlers, InsertMessage(g), late' = StoredLate(g)
        PROVE  /\ late'[r][h] <= 1
               /\ status'[r] = "CONFIRMED" \/ ToStore(h, r)' => late'[r][h] = 0
    <3> DEFINE q == handler[g].room[1]
    <3>1. handler[g] \in Working /\ q \in Requests
      BY <2>4, InsertType DEF Working, Estimates
    <3>2. late'[r][h] = IF r = q /\ h = g /\ status[r] # "CONFIRMED"
                        THEN late[r][h] + 1 ELSE late[r][h]
      BY <2>4, <3>1 DEF StoredLate, TypeOK
    <3>3. CASE r = q /\ h = g /\ status[r] # "CONFIRMED"
      <4>1. ToStore(h, r)
        BY <2>4, <3>3 DEF ToStore, InsertMessage
      <4>2. late'[r][h] = 1
        BY <3>2, <3>3, <4>1 DEF LateCounts
      <4>3. handler'[h] # handler[h]
        <5>1. handler'[h] = [handler[h] EXCEPT !.step = "broadcast", !.id = Len(message')]
          BY <2>4, <3>3 DEF InsertMessage, TypeOK
        <5>2. handler'[h].step = "broadcast"
          BY <3>1, <3>3, <5>1 DEF Working
        <5> QED BY <4>1, <5>2 DEF ToStore, Doing
      <4> QED BY <2>1, <2>2, <3>3, <4>2, <4>3
    <3>4. CASE ~(r = q /\ h = g /\ status[r] # "CONFIRMED")
      BY <2>1, <2>2, <3>2, <3>4 DEF LateCounts
    <3> QED BY <3>3, <3>4
  <2> QED BY <1>2, <2>3, <2>4, LateGoes
<1> QED BY <1>1, <1>2

-----------------------------------------------------------------------------
Inv ==
  /\ TypeOK /\ BroadcastsStored
  /\ AccessHeld /\ FeedComplete
  /\ ReadBeforeReceipt /\ MarksStored /\ ReceiptsAreTrue
  /\ LateCounts

LEMMA Inductive == Spec => []Inv
<1>1. Init => Inv
  <2> SUFFICES ASSUME Init
               PROVE  Inv
    OBVIOUS
  <2>1. TypeOK /\ Recorded
    BY BoundAssumption DEF Init, Life!Init, TypeOK, Recorded
  <2>4. LateCounts
    BY DEF Init, LateCounts
  <2>2. DOMAIN message = {}
    BY DEF Init
  <2>3. /\ \A h \in Handlers : handler[h] = Idle
        /\ \A s \in Sockets : ~socket[s].online
    BY DEF Init, Offline
  <2> QED BY <2>1, <2>2, <2>3, <2>4 DEF Inv, BroadcastsStored, AccessHeld, FeedComplete,
             ReadBeforeReceipt, MarksStored, ReceiptsAreTrue, Doing
<1>2. Inv /\ [Next]_vars => Inv'
  BY TypeStep, StoredStep, AccessStep, FeedStep, ReceiptStep, MarksStep, LateStep DEF Inv
<1> QED BY <1>1, <1>2, PTL DEF Spec

(* Every state of Chat is well typed.                                      *)
THEOREM TypeCorrect == Spec => []TypeOK
BY Inductive, PTL DEF Inv

(* Whatever overlaps, no third party is in a room or writes in it.         *)
THEOREM PrivateRooms == Spec => []RoomsArePrivate
<1>1. Inv => RoomsArePrivate
  BY DEF Inv, AccessHeld, RoomsArePrivate, Entitled
<1> QED BY Inductive, <1>1, PTL

(* A socket in a room misses a message only while its sender is about to   *)
(* tell it, or when the address of its image could not be signed.          *)
THEOREM FeedIsComplete == Spec => []FeedComplete
BY Inductive, PTL DEF Inv

(* A client shows as read only what has been read, or raced with a receipt.*)
THEOREM TrueReceipts == Spec => []ReceiptsAreTrue
BY Inductive, PTL DEF Inv

(* Once a room is read-only, every handler stores at most one message more *)
(* in it: the one it had read its access for.                              *)
THEOREM FewLateMessages == Spec => []LateMessagesBounded
<1>1. Inv => LateMessagesBounded
  BY DEF Inv, LateCounts, LateMessagesBounded
<1> QED BY Inductive, <1>1, PTL
=============================================================================
