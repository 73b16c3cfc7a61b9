-------------------------------- MODULE Chat --------------------------------
(***************************************************************************)
(* The chat of an accepted estimate between its customer and its mover.    *)
(* The estimates and requests live as ContestedLifecycle says, which the   *)
(* chat only reads: an accepted estimate opens a room, the batch makes the *)
(* room read-only, and what overlaps at the request may open a second room *)
(* or close one.                                                           *)
(*                                                                         *)
(* Every HTTP handler first reads its access and then acts on it; a        *)
(* socket that asks to join a room is put into it after the same read.     *)
(* What is broadcast to a room reaches the sockets in it at that moment.   *)
(* Sockets and rooms are in the memory of the one server.                  *)
(*                                                                         *)
(* The variables awarded, untold and late and the field raced of a message *)
(* are history: no guard reads them.                                       *)
(*                                                                         *)
(* AnyMover, WritableForever, MarkOwn and BroadcastToOthers are plausible  *)
(* bugs; nothing uses them, each shows that a property can fail.           *)
(***************************************************************************)
EXTENDS Integers, FiniteSets, Sequences

CONSTANTS
  Requests, Movers, Customers, OwnerOf,
  Handlers,     \* HTTP handlers in flight at once
  Sockets,      \* places for a socket connection of a browser tab
  MaxMessages   \* bound: messages ever stored

Users == Customers \cup Movers

ASSUME OwnerAssumption == OwnerOf \in [Requests -> Customers]
ASSUME RoleAssumption == Customers \cap Movers = {}
ASSUME BoundAssumption == MaxMessages \in Nat

VARIABLES
  status,          \* of the requests
  accepted,        \* the estimates whose status is ACCEPTED
  awarded,         \* the estimates that ever were
  message,         \* the chat messages in the order of their createdAt
  handler,         \* what each handler is about to do
  socket,          \* the sockets, their rooms and what they were told
  untold,          \* messages whose image could not be signed for the room
  late             \* late[r][h]: what h stored since r is not CONFIRMED

lifecycle == <<status, accepted, awarded>>
history == <<untold, late>>
vars == <<status, accepted, awarded, message, handler, socket, untold, late>>

Life == INSTANCE ContestedLifecycle

Estimates == Requests \X Movers     \* a room is named by its estimate
Ids == 1..MaxMessages

Message == [room : Estimates, sender : Users, image : BOOLEAN,
            isRead : BOOLEAN,
            raced : BOOLEAN]   \* stored while a receipt was under way

Idle == [step |-> "idle"]
Working == [step : {"insert", "broadcast", "mark", "receipt"},
            user : Users, room : Estimates, image : BOOLEAN, id : Ids \cup {0}]

Offline == [online |-> FALSE]
Online == [online : {TRUE}, user : Users,
           joining : SUBSET Estimates,  \* joins whose access has been read
           rooms : SUBSET Estimates,
           known : SUBSET Ids,          \* stored when it joined, or received
           marked : SUBSET Ids]         \* own messages it was told are read

TypeOK ==
  /\ status \in [Requests -> {"NONE", "PENDING", "CONFIRMED", "COMPLETED", "EXPIRED"}]
  /\ accepted \in SUBSET Estimates /\ awarded \in SUBSET Estimates
  /\ message \in Seq(Message) /\ Len(message) <= MaxMessages
  /\ handler \in [Handlers -> Working \cup {Idle}]
  /\ socket \in [Sockets -> Online \cup {Offline}]
  /\ untold \in SUBSET Ids /\ late \in [Requests -> [Handlers -> Nat]]

Init ==
  /\ Life!Init /\ awarded = {}
  /\ message = << >>
  /\ handler = [h \in Handlers |-> Idle]
  /\ socket = [s \in Sockets |-> Offline]
  /\ untold = {} /\ late = [r \in Requests |-> [h \in Handlers |-> 0]]

-----------------------------------------------------------------------------
(* assertAccess: the user is the customer or the mover of an ACCEPTED      *)
(* estimate of a CONFIRMED or COMPLETED request.                           *)
AnyMover(u, e) ==
  /\ u = OwnerOf[e[1]] \/ u \in Movers
  /\ e \in accepted
  /\ status[e[1]] \in {"CONFIRMED", "COMPLETED"}

Access(u, e) ==
  /\ u = OwnerOf[e[1]] \/ u = e[2]
  /\ e \in accepted
  /\ status[e[1]] \in {"CONFIRMED", "COMPLETED"}

WritableForever(e) == status[e[1]] \in {"CONFIRMED", "COMPLETED"}

Writable(e) == status[e[1]] = "CONFIRMED"

Doing(h, step) == handler[h] # Idle /\ handler[h].step = step

Begin(h, step, u, e, image) ==
  /\ handler[h] = Idle
  /\ handler' = [handler EXCEPT ![h] =
       [step |-> step, user |-> u, room |-> e, image |-> image, id |-> 0]]
  /\ UNCHANGED <<lifecycle, message, socket, history>>

Finish(h) == handler' = [handler EXCEPT ![h] = Idle]

-----------------------------------------------------------------------------
(* sendMessage.  An image is sent by the path of an upload, which must be  *)
(* found in the folder of the room.                                        *)
StartSend(h, u, e, image) ==
  /\ Access(u, e) /\ Writable(e)
  /\ Begin(h, "insert", u, e, image)

ReceiptUnderWay(h) ==
  \E g \in Handlers : /\ Doing(g, "receipt")
                      /\ handler[g].room = handler[h].room
                      /\ handler[g].user # handler[h].user

StoredLate(h) ==
  LET r == handler[h].room[1]
  IN  [late EXCEPT ![r][h] = IF status[r] = "CONFIRMED" THEN @ ELSE @ + 1]

InsertMessage(h) ==
  /\ Doing(h, "insert") /\ Len(message) < MaxMessages
  /\ message' = Append(message,
       [room |-> handler[h].room, sender |-> handler[h].user,
        image |-> handler[h].image, isRead |-> FALSE,
        raced |-> ReceiptUnderWay(h)])
  /\ handler' = [handler EXCEPT ![h].step = "broadcast", ![h].id = Len(message')]
  /\ late' = StoredLate(h)
  /\ UNCHANGED <<lifecycle, socket, untold>>

(* The sockets in a room hear of it.                                       *)
InRoom(s, e) == socket[s].online /\ e \in socket[s].rooms

BroadcastToOthers(h) ==
  /\ Doing(h, "broadcast")
  /\ socket' = [s \in Sockets |->
       IF InRoom(s, handler[h].room) /\ socket[s].user # handler[h].user
       THEN [socket[s] EXCEPT !.known = @ \cup {handler[h].id}] ELSE socket[s]]
  /\ Finish(h)
  /\ UNCHANGED <<lifecycle, message, history>>

BroadcastMessage(h) ==
  /\ Doing(h, "broadcast")
  /\ socket' = [s \in Sockets |->
       IF InRoom(s, handler[h].room)
       THEN [socket[s] EXCEPT !.known = @ \cup {handler[h].id}] ELSE socket[s]]
  /\ Finish(h)
  /\ UNCHANGED <<lifecycle, message, history>>

(* The image is not found, or its address cannot be signed: the answer is  *)
(* an error, in the second case although the message has been stored.      *)
ImageFails(h) ==
  /\ \/ Doing(h, "insert") /\ UNCHANGED untold
     \/ Doing(h, "broadcast") /\ untold' = untold \cup {handler[h].id}
  /\ handler[h].image
  /\ Finish(h)
  /\ UNCHANGED <<lifecycle, message, socket, late>>

-----------------------------------------------------------------------------
(* markRead: what the other party sent becomes read, then the room is told *)
(* who has read; a client takes that for all it has sent so far.           *)
StartMarkRead(h, u, e) == Access(u, e) /\ Begin(h, "mark", u, e, FALSE)

ReadBy(u, e, m) == [m EXCEPT !.isRead = @ \/ (m.room = e /\ m.sender # u)]

MarkOwn(h) ==
  /\ Doing(h, "mark")
  /\ message' = [i \in DOMAIN message |->
       IF message[i].sender = handler[h].user
       THEN [message[i] EXCEPT !.isRead = TRUE] ELSE message[i]]
  /\ handler' = [handler EXCEPT ![h].step = "receipt"]
  /\ UNCHANGED <<lifecycle, socket, history>>

MarkRead(h) ==
  /\ Doing(h, "mark")
  /\ message' = [i \in DOMAIN message |->
                   ReadBy(handler[h].user, handler[h].room, message[i])]
  /\ handler' = [handler EXCEPT ![h].step = "receipt"]
  /\ UNCHANGED <<lifecycle, socket, history>>

SentBy(s, e) == {i \in socket[s].known : message[i].room = e /\ message[i].sender = socket[s].user}

BroadcastReceipt(h) ==
  /\ Doing(h, "receipt")
  /\ socket' = [s \in Sockets |->
       IF InRoom(s, handler[h].room) /\ socket[s].user # handler[h].user
       THEN [socket[s] EXCEPT !.marked = @ \cup SentBy(s, handler[h].room)]
       ELSE socket[s]]
  /\ Finish(h)
  /\ UNCHANGED <<lifecycle, message, history>>

-----------------------------------------------------------------------------
Connect(s, u) ==
  /\ ~socket[s].online
  /\ socket' = [socket EXCEPT ![s] = [online |-> TRUE, user |-> u, joining |-> {},
                                      rooms |-> {}, known |-> {}, marked |-> {}]]
  /\ UNCHANGED <<lifecycle, message, handler, history>>

Disconnect(s) ==
  /\ socket[s].online
  /\ socket' = [socket EXCEPT ![s] = Offline]
  /\ UNCHANGED <<lifecycle, message, handler, history>>

(* join-room: the access is awaited, and a leave-room may come meanwhile.  *)
AskToJoin(s, e) ==
  /\ socket[s].online
  /\ Access(socket[s].user, e)
  /\ socket' = [socket EXCEPT ![s].joining = @ \cup {e}]
  /\ UNCHANGED <<lifecycle, message, handler, history>>

Stored(e) == {i \in DOMAIN message : message[i].room = e}

Join(s, e) ==
  /\ socket[s].online /\ e \in socket[s].joining
  /\ socket' = [socket EXCEPT ![s].joining = @ \ {e}, ![s].rooms = @ \cup {e},
                              ![s].known = @ \cup Stored(e)]
  /\ UNCHANGED <<lifecycle, message, handler, history>>

Leave(s, e) ==
  /\ socket[s].online
  /\ e \in socket[s].rooms
  /\ socket' = [socket EXCEPT ![s].rooms = @ \ {e}, ![s].known = @ \ Stored(e),
                              ![s].marked = @ \ Stored(e)]
  /\ UNCHANGED <<lifecycle, message, handler, history>>

(* The server process ends and is started again.                           *)
Crash ==
  /\ handler' = [h \in Handlers |-> Idle]
  /\ socket' = [s \in Sockets |-> Offline]
  /\ UNCHANGED <<lifecycle, message, history>>

-----------------------------------------------------------------------------
LifecycleStep ==
  /\ \/ \E r \in Requests : Life!OpenRequest(r) \/ \E m \in Movers : Life!Accept(r, m)
     \/ \E e \in accepted : Life!Withdraw(e)
     \/ \E S, T \in SUBSET Requests : S \cup T # {} /\ Life!Close(S, T)
  /\ awarded' = awarded \cup accepted'
  /\ late' = [r \in Requests |-> [h \in Handlers |->
                IF status'[r] = "CONFIRMED" THEN 0 ELSE late[r][h]]]
  /\ UNCHANGED <<message, handler, socket, untold>>

HandlerStep(h) ==
  \/ InsertMessage(h)
  \/ BroadcastMessage(h)
  \/ MarkRead(h)
  \/ BroadcastReceipt(h)

Next ==
  \/ LifecycleStep
  \/ \E h \in Handlers :
       \/ \E u \in Users, e \in Estimates :
            \/ \E image \in BOOLEAN : StartSend(h, u, e, image)
            \/ StartMarkRead(h, u, e)
       \/ ImageFails(h)
       \/ HandlerStep(h)
  \/ \E s \in Sockets :
       \/ \E u \in Users : Connect(s, u)
       \/ Disconnect(s)
       \/ \E e \in Estimates : AskToJoin(s, e) \/ Join(s, e) \/ Leave(s, e)
  \/ Crash

Spec == Init /\ [][Next]_vars
=============================================================================
