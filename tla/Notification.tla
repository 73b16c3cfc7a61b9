---------------------------- MODULE Notification ----------------------------
(***************************************************************************)
(* Notifications: rows written inside the transactions of other services,  *)
(* pushed over server-sent events once the transaction has committed, and  *)
(* followed by the number of unread rows, the badge of the page header.    *)
(*                                                                         *)
(* Counting and pushing are separated by a database call, so the pushes of *)
(* two handlers may come in the opposite order of their counts.  A stream  *)
(* is registered before its first count is read.  MOVE_DAY rows are        *)
(* written by a check and an insert under READ COMMITTED.                  *)
(*                                                                         *)
(* The map of open streams is in the memory of the one server: a crash     *)
(* closes every stream, rolls back every open transaction and loses the    *)
(* pushes still to be made.                                                *)
(*                                                                         *)
(* alone and exact are history: no guard reads them.                       *)
(*                                                                         *)
(* AlwaysMissing, InsertAndPublish, PublishToCounted and                   *)
(* ReadWithoutPush are plausible bugs; nothing uses them, each shows that  *)
(* a property can fail.                                                    *)
(***************************************************************************)
EXTENDS Integers, FiniteSets, Sequences

CONSTANTS
  Users,
  Recipients,  \* the customer and the mover of a confirmed estimate, in order
  Handlers,    \* HTTP handlers in flight at once
  Streams,     \* places for an event stream of a browser tab
  StreamOf,    \* StreamOf[s]: the user who opens s
  Readers,     \* bound: the users who read their notifications
  MaxRows      \* bound: notification rows ever inserted

ASSUME UserAssumption == Recipients \in Seq(Users) /\ Recipients # << >>
ASSUME StreamAssumption == StreamOf \in [Streams -> Users]
ASSUME BoundAssumption == MaxRows \in Nat /\ Readers \subseteq Users

VARIABLES
  row,     \* the notification table
  job,     \* what each handler is about to do
  stream   \* the event streams and what their clients have been sent

vars == <<row, job, stream>>

Ids == 1..MaxRows
Unused == [state |-> "unused"]
Row == [state : {"written", "committed"}, user : Users,
        type : {"MOVE_DAY", "OTHER"}, isRead : BOOLEAN]

NoCount == -1
Counts == 0..MaxRows
Idle == [step |-> "idle"]
Job == [step : {"write", "check", "insert", "publish", "push"},
        at : 1..Len(Recipients),             \* position in Recipients
        new : SUBSET Ids,                    \* rows written by the handler
        counted : [Users -> Counts \cup {NoCount}],
        due : SUBSET Users,                  \* users whose badge is to be pushed
        alone : BOOLEAN]                     \* nothing else ran meanwhile

Closed == [open |-> FALSE]
OpenStream == [open : {TRUE}, first : {"count", "send", "sent"},
               counted : Counts \cup {NoCount}, badge : Counts \cup {NoCount},
               known : SUBSET Ids,           \* in the table when it opened, or pushed
               alone : BOOLEAN, exact : BOOLEAN]

TypeOK ==
  /\ row \in [Ids -> Row \cup {Unused}]
  /\ job \in [Handlers -> Job \cup {Idle}]
  /\ stream \in [Streams -> OpenStream \cup {Closed}]

Init ==
  /\ row = [i \in Ids |-> Unused]
  /\ job = [h \in Handlers |-> Idle]
  /\ stream = [s \in Streams |-> Closed]

-----------------------------------------------------------------------------
Committed == {i \in Ids : row[i].state = "committed"}
RowsOf(u) == {i \in Committed : row[i].user = u}
UnreadCount(u) == Cardinality({i \in RowsOf(u) : ~row[i].isRead})

InFlight(h) == job[h] # Idle
Opening(s) == stream[s].open /\ stream[s].first # "sent"
Busy == (\E h \in Handlers : InFlight(h)) \/ (\E s \in Streams : Opening(s))

(* History: whoever begins next to another spoils the order of the pushes  *)
(* of both.                                                                *)
Spoiled(h) == IF InFlight(h) THEN [job[h] EXCEPT !.alone = FALSE] ELSE Idle
SpoiledStream(s) ==
  IF stream[s].open THEN [stream[s] EXCEPT !.alone = FALSE, !.exact = FALSE]
                    ELSE Closed

NewJob(step, new) ==
  [step |-> step, at |-> 1, new |-> new, alone |-> ~Busy,
   counted |-> [u \in Users |-> NoCount], due |-> {}]

Begin(h, j) ==
  /\ ~InFlight(h)
  /\ IF Busy
     THEN /\ job' = [g \in Handlers |-> IF g = h THEN j ELSE Spoiled(g)]
          /\ stream' = [s \in Streams |-> SpoiledStream(s)]
     ELSE job' = [job EXCEPT ![h] = j] /\ UNCHANGED stream

FreshIds(n) ==
  LET unused == {i \in Ids : row[i] = Unused}
  IN  {i \in unused : Cardinality({j \in unused : j <= i}) <= n}

Insert(i, u, type) == [state |-> "written", user |-> u, type |-> type, isRead |-> FALSE]

Doing(h, step) == InFlight(h) /\ job[h].step = step

-----------------------------------------------------------------------------
(* Rows written by another service inside its transaction: one for a new   *)
(* request, a new estimate or a rejection, two for a confirmation.         *)
Notify(h, us) ==
  LET ids == FreshIds(Cardinality(us)) IN
  /\ Cardinality(ids) = Cardinality(us)
  /\ \E f \in [ids -> us] :
       /\ \A i, j \in ids : f[i] = f[j] => i = j
       /\ row' = [i \in Ids |-> IF i \in ids THEN Insert(i, f[i], "OTHER") ELSE row[i]]
  /\ Begin(h, NewJob("write", ids))

(* getActive finds a CONFIRMED request to be moved today or tomorrow.      *)
NotifyMoveDay(h) == Begin(h, NewJob("check", {})) /\ UNCHANGED row

Recipient(h) == Recipients[job[h].at]

AlwaysMissing(h) == FALSE

(* The transaction sees the committed rows and its own.                    *)
HasMoveDay(h) ==
  \E i \in Committed \cup job[h].new :
    row[i].user = Recipient(h) /\ row[i].type = "MOVE_DAY"

NextRecipient(h) ==
  IF job[h].at = Len(Recipients)
  THEN [job[h] EXCEPT !.step = "write", !.at = 1]
  ELSE [job[h] EXCEPT !.step = "check", !.at = @ + 1]

CheckMoveDay(h) ==
  /\ Doing(h, "check")
  /\ job' = [job EXCEPT ![h] = IF HasMoveDay(h) THEN NextRecipient(h)
                               ELSE [@ EXCEPT !.step = "insert"]]
  /\ UNCHANGED <<row, stream>>

KnownToo(i, u) ==
  [s \in Streams |-> IF stream[s].open /\ StreamOf[s] = u
                     THEN [stream[s] EXCEPT !.known = @ \cup {i}] ELSE stream[s]]

InsertAndPublish(h) ==
  /\ Doing(h, "insert")
  /\ \E i \in FreshIds(1) :
       /\ row' = [row EXCEPT ![i] = Insert(i, Recipient(h), "MOVE_DAY")]
       /\ job' = [job EXCEPT ![h] = [NextRecipient(h) EXCEPT !.new = @ \cup {i}]]
       /\ stream' = KnownToo(i, Recipient(h))

InsertMoveDay(h) ==
  /\ Doing(h, "insert")
  /\ \E i \in FreshIds(1) :
       /\ row' = [row EXCEPT ![i] = Insert(i, Recipient(h), "MOVE_DAY")]
       /\ job' = [job EXCEPT ![h] = [NextRecipient(h) EXCEPT !.new = @ \cup {i}]]
  /\ UNCHANGED stream

RowsAs(ids, state) ==
  [i \in Ids |-> IF i \in ids THEN [row[i] EXCEPT !.state = state] ELSE row[i]]

Commit(h) ==
  /\ Doing(h, "write")
  /\ row' = RowsAs(job[h].new, "committed")
  /\ job' = [job EXCEPT ![h] = IF job[h].new = {} THEN Idle
                               ELSE [@ EXCEPT !.step = "publish"]]
  /\ UNCHANGED stream

(* A unique index or a lost connection rolls the transaction back.         *)
Rollback(h) ==
  /\ InFlight(h) /\ job[h].step \in {"write", "check", "insert"}
  /\ row' = [i \in Ids |-> IF i \in job[h].new THEN Unused ELSE row[i]]
  /\ job' = [job EXCEPT ![h] = Idle]
  /\ UNCHANGED stream

-----------------------------------------------------------------------------
(* publishCreated: every row to every open stream of its user at once,     *)
(* then the count of each user, awaited in parallel.                       *)
Receivers(u) == {s \in Streams : stream[s].open /\ StreamOf[s] = u}

PublishedTo(s, h) == {i \in job[h].new : row[i].user = StreamOf[s]}

PublishToCounted(h) ==
  /\ Doing(h, "publish")
  /\ stream' = [s \in Streams |->
       IF stream[s].open /\ stream[s].first # "count"
       THEN [stream[s] EXCEPT !.known = @ \cup PublishedTo(s, h)] ELSE stream[s]]
  /\ job' = [job EXCEPT ![h].step = "push", ![h].new = {},
                        ![h].due = {row[i].user : i \in job[h].new}]
  /\ UNCHANGED row

PublishCreated(h) ==
  /\ Doing(h, "publish")
  /\ stream' = [s \in Streams |->
       IF stream[s].open THEN [stream[s] EXCEPT !.known = @ \cup PublishedTo(s, h)]
       ELSE stream[s]]
  /\ job' = [job EXCEPT ![h].step = "push", ![h].new = {},
                        ![h].due = {row[i].user : i \in job[h].new}]
  /\ UNCHANGED row

Without(h, u) ==
  IF job[h].due = {u} THEN Idle
  ELSE [job[h] EXCEPT !.due = @ \ {u}, !.counted[u] = NoCount]

CountUnread(h, u) ==
  /\ Doing(h, "push") /\ u \in job[h].due /\ job[h].counted[u] = NoCount
  /\ job' = [job EXCEPT ![h].counted[u] = UnreadCount(u)]
  /\ UNCHANGED <<row, stream>>

PushUnreadCount(h, u) ==
  /\ Doing(h, "push") /\ u \in job[h].due /\ job[h].counted[u] # NoCount
  /\ stream' = [s \in Streams |->
       IF s \in Receivers(u)
       THEN [stream[s] EXCEPT !.badge = job[h].counted[u], !.exact = job[h].alone]
       ELSE stream[s]]
  /\ job' = [job EXCEPT ![h] = Without(h, u)]
  /\ UNCHANGED row

(* A count that fails ends in an error answer: the rows stay, no badge.    *)
CountFails(h, u) ==
  /\ Doing(h, "push") /\ u \in job[h].due /\ job[h].counted[u] = NoCount
  /\ stream' = [s \in Streams |->
       IF s \in Receivers(u) THEN [stream[s] EXCEPT !.exact = FALSE] ELSE stream[s]]
  /\ job' = [job EXCEPT ![h] = Without(h, u)]
  /\ UNCHANGED row

-----------------------------------------------------------------------------
MarkedRead(ids) ==
  [i \in Ids |-> IF i \in ids THEN [row[i] EXCEPT !.isRead = TRUE] ELSE row[i]]

ReadWithoutPush(h, u, ids) ==
  /\ row' = MarkedRead(ids)
  /\ Begin(h, NewJob("write", {}))

(* One row, found by its id and its user, or all of them; then the count.  *)
(* The row found cannot vanish before it is updated: nothing deletes rows. *)
Read(h, u, ids) ==
  /\ row' = MarkedRead(ids)
  /\ Begin(h, [NewJob("push", {}) EXCEPT !.due = {u}])

ReadNotification(h, u) == \E i \in RowsOf(u) : Read(h, u, {i})

ReadAllNotifications(h, u) == Read(h, u, RowsOf(u))

-----------------------------------------------------------------------------
(* The controller registers the stream, then reads and sends its count.    *)
OpenOf(s) ==
  [open |-> TRUE, first |-> "count", counted |-> NoCount, badge |-> NoCount,
   known |-> RowsOf(StreamOf[s]), alone |-> ~Busy, exact |-> FALSE]

Open(s) ==
  /\ ~stream[s].open
  /\ IF Busy
     THEN /\ job' = [h \in Handlers |-> Spoiled(h)]
          /\ stream' = [t \in Streams |-> IF t = s THEN OpenOf(s) ELSE SpoiledStream(t)]
     ELSE stream' = [stream EXCEPT ![s] = OpenOf(s)] /\ UNCHANGED job
  /\ UNCHANGED row

FirstCount(s) ==
  /\ stream[s].open /\ stream[s].first = "count"
  /\ stream' = [stream EXCEPT ![s].first = "send",
                              ![s].counted = UnreadCount(StreamOf[s])]
  /\ UNCHANGED <<row, job>>

FirstSend(s) ==
  /\ stream[s].open /\ stream[s].first = "send"
  /\ stream' = [stream EXCEPT ![s].first = "sent", ![s].counted = NoCount,
                              ![s].badge = stream[s].counted,
                              ![s].exact = stream[s].alone, ![s].alone = FALSE]
  /\ UNCHANGED <<row, job>>

Close(s) ==
  /\ stream[s].open
  /\ stream' = [stream EXCEPT ![s] = Closed]
  /\ UNCHANGED <<row, job>>

(* The server process ends and is started again.                           *)
Crash ==
  /\ row' = [i \in Ids |-> IF row[i].state = "written" THEN Unused ELSE row[i]]
  /\ job' = [h \in Handlers |-> Idle]
  /\ stream' = [s \in Streams |-> Closed]

-----------------------------------------------------------------------------
HandlerStep(h) ==
  \/ CheckMoveDay(h)
  \/ InsertMoveDay(h)
  \/ Commit(h)
  \/ PublishCreated(h)
  \/ \E u \in Users : CountUnread(h, u) \/ PushUnreadCount(h, u)

Next ==
  \/ \E h \in Handlers :
       \/ \E us \in SUBSET Users \ {{}} : Notify(h, us)
       \/ NotifyMoveDay(h)
       \/ \E u \in Readers : ReadNotification(h, u) \/ ReadAllNotifications(h, u)
       \/ \E u \in Users : CountFails(h, u)
       \/ Rollback(h)
       \/ HandlerStep(h)
  \/ \E s \in Streams : Open(s) \/ FirstCount(s) \/ FirstSend(s) \/ Close(s)
  \/ Crash

Spec == Init /\ [][Next]_vars
=============================================================================
