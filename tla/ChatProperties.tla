--------------------------- MODULE ChatProperties ---------------------------
(***************************************************************************)
(* What is expected of Chat, whatever handlers, sockets, the batch and     *)
(* crashes overlap.                                                        *)
(***************************************************************************)
EXTENDS Chat

Parties(e) == {OwnerOf[e[1]], e[2]}

(* A room is private to the two parties of an estimate that was accepted:  *)
(* no other socket is in it, however early it asked, and no other user's   *)
(* message is stored in it, whatever the batch does in between, and even   *)
(* when two estimates of one request are accepted or one is overwritten.   *)
RoomsArePrivate ==
  /\ \A s \in Sockets : socket[s].online =>
       \A e \in socket[s].rooms : socket[s].user \in Parties(e) /\ e \in awarded
  /\ \A i \in DOMAIN message :
       LET e == message[i].room
       IN  message[i].sender \in Parties(e) /\ e \in awarded

(* A socket in a room misses no message stored since it joined: it has     *)
(* been told, or the sender's handler is about to tell it, or the address  *)
(* of its image could not be signed and nobody is told.                    *)
FeedComplete ==
  \A s \in Sockets : socket[s].online =>
    \A e \in socket[s].rooms : \A i \in Stored(e) \ socket[s].known :
      \/ i \in untold
      \/ \E h \in Handlers : Doing(h, "broadcast") /\ handler[h].id = i

(* What a client shows as read has been read by the other party, but for   *)
(* a message stored between the update of a markRead and its broadcast.    *)
ReceiptsAreTrue ==
  \A s \in Sockets : socket[s].online =>
    \A i \in socket[s].marked : message[i].isRead \/ message[i].raced

(* The batch makes a room read-only while messages are on their way: a     *)
(* handler that had read its access still stores its message.  No later    *)
(* request does: of each handler at most one message is stored late, until *)
(* a late acceptance opens the room again.                                 *)
LateMessagesBounded ==
  \A r \in Requests, h \in Handlers : late[r][h] <= 1
=============================================================================
