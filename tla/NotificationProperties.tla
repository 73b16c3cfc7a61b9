----------------------- MODULE NotificationProperties -----------------------
(***************************************************************************)
(* What is expected of Notification, whatever handlers, streams and        *)
(* crashes overlap.                                                        *)
(***************************************************************************)
EXTENDS Notification

(* No ghost: a stream is sent only rows that are in the table for good,    *)
(* whatever becomes of the transaction that wrote them.                    *)
NoGhost == \A s \in Streams : stream[s].open => stream[s].known \subseteq Committed

(* A row is pushed to every stream of its user that was open when it was   *)
(* committed, those still waiting for their first count included: it was   *)
(* committed before, it has been pushed, or its handler is about to.       *)
FeedComplete ==
  \A s \in Streams : stream[s].open =>
    \A i \in RowsOf(StreamOf[s]) \ stream[s].known :
      \E h \in Handlers : Doing(h, "publish") /\ i \in job[h].new

(* A badge can only be wrong after handlers overlapped or a count failed,  *)
(* and the next event that is handled alone puts it right.                 *)
AboutToPush(h, u) ==
  \/ Doing(h, "publish") /\ \E i \in job[h].new : row[i].user = u
  \/ Doing(h, "push") /\ u \in job[h].due

BadgeExact ==
  \A s \in Streams :
    /\ stream[s].open /\ stream[s].exact
    /\ ~\E h \in Handlers : AboutToPush(h, StreamOf[s])
    => stream[s].badge = UnreadCount(StreamOf[s])

(* MOVE_DAY is sent once to each party: there is no unique index, so a     *)
(* second row is possible, but only from a handler that overlapped another.*)
MoveDayOnce ==
  \A h \in Handlers : InFlight(h) /\ job[h].alone =>
    \A i \in job[h].new : \A j \in Committed \ {i} :
      row[i].type = "MOVE_DAY" /\ row[j].type = "MOVE_DAY" => row[i].user # row[j].user
=============================================================================
