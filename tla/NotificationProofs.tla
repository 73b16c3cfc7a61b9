------------------------- MODULE NotificationProofs -------------------------
(***************************************************************************)
(* Theorems about Notification, for any users, handlers and streams.       *)
(***************************************************************************)
EXTENDS NotificationProperties, FiniteSetTheorems, TLAPS

-----------------------------------------------------------------------------
(* Types.                                                                  *)

LEMMA BusyIsJob ==
  ASSUME TypeOK, NEW h \in Handlers, InFlight(h)
  PROVE  job[h] \in Job
BY DEF TypeOK, InFlight

LEMMA JobIsBusy ==
  ASSUME NEW j \in Job
  PROVE  j # Idle
BY DEF Job, Idle

LEMMA OpenIsOpen ==
  ASSUME TypeOK, NEW s \in Streams
  PROVE  /\ stream[s].open => stream[s] \in OpenStream
         /\ ~stream[s].open => stream[s] = Closed
<1>1. stream[s] \in OpenStream => stream[s].open = TRUE
  BY DEF OpenStream
<1>2. ~Closed.open
  BY DEF Closed
<1> QED BY <1>1, <1>2 DEF TypeOK

LEMMA RowKinds ==
  ASSUME TypeOK, NEW i \in Ids
  PROVE  /\ row[i] \in Row \/ row[i] = Unused
         /\ row[i].state \in {"written", "committed", "unused"}
         /\ row[i].state \in {"written", "committed"} => row[i] \in Row
         /\ row[i].state = "unused" => row[i] = Unused
BY DEF TypeOK, Row, Unused

LEMMA IdsFinite == IsFiniteSet(Ids) /\ Cardinality(Ids) = MaxRows
BY FS_Interval, BoundAssumption DEF Ids

LEMMA UnreadIsCount ==
  ASSUME NEW u
  PROVE  UnreadCount(u) \in Counts
<1> DEFINE S == {i \in RowsOf(u) : ~row[i].isRead}
<1>1. S \subseteq Ids
  BY DEF RowsOf, Committed
<1>2. Cardinality(S) \in Nat /\ Cardinality(S) <= MaxRows
  BY <1>1, IdsFinite, FS_Subset, FS_CardinalityType
<1> QED BY <1>2, BoundAssumption DEF UnreadCount, Counts

LEMMA SpoiledTypes ==
  ASSUME TypeOK
  PROVE  /\ \A g \in Handlers : Spoiled(g) \in Job \cup {Idle}
         /\ \A s \in Streams : SpoiledStream(s) \in OpenStream \cup {Closed}
<1>1. \A g \in Handlers : Spoiled(g) \in Job \cup {Idle}
  BY BusyIsJob DEF Spoiled, Job
<1>2. \A s \in Streams : SpoiledStream(s) \in OpenStream \cup {Closed}
  BY OpenIsOpen DEF SpoiledStream, OpenStream
<1> QED BY <1>1, <1>2

(* A new handler and the history it leaves behind are well typed.          *)
LEMMA BeginType ==
  ASSUME TypeOK, NEW h \in Handlers, NEW j \in Job, Begin(h, j)
  PROVE  /\ job' \in [Handlers -> Job \cup {Idle}]
         /\ stream' \in [Streams -> OpenStream \cup {Closed}]
<1>1. CASE Busy
  BY <1>1, SpoiledTypes DEF Begin
<1>2. CASE ~Busy
  BY <1>2 DEF Begin, TypeOK
<1> QED BY <1>1, <1>2

LEMMA NewJobType ==
  ASSUME NEW step \in {"write", "check", "push"}, NEW new \in SUBSET Ids,
         NEW due \in SUBSET Users
  PROVE  /\ NewJob(step, new) \in Job
         /\ [NewJob(step, new) EXCEPT !.due = due] \in Job
<1>1. 1 \in 1..Len(Recipients)
  BY UserAssumption
<1>2. (~Busy) \in BOOLEAN
  OBVIOUS
<1> QED BY <1>1, <1>2, Zenon DEF NewJob, Job

LEMMA NextRecipientType ==
  ASSUME TypeOK, NEW h \in Handlers, InFlight(h), NEW ids \in SUBSET Ids
  PROVE  /\ NextRecipient(h) \in Job
         /\ [NextRecipient(h) EXCEPT !.new = @ \cup ids] \in Job
<1>1. job[h] \in Job
  BY BusyIsJob
<1>2. Len(Recipients) \in Nat
  BY UserAssumption
<1>3. job[h].at # Len(Recipients) => job[h].at + 1 \in 1..Len(Recipients)
  BY <1>1, <1>2 DEF Job
<1>4. 1 \in 1..Len(Recipients)
  BY UserAssumption
<1>5. NextRecipient(h) \in Job
  BY <1>1, <1>3, <1>4 DEF NextRecipient, Job
<1> QED BY <1>5 DEF Job

LEMMA InsertType ==
  ASSUME NEW u \in Users, NEW type \in {"MOVE_DAY", "OTHER"}
  PROVE  Insert(1, u, type) \in Row /\ \A i : Insert(i, u, type) = Insert(1, u, type)
BY DEF Insert, Row

-----------------------------------------------------------------------------
(* Who wrote a row.  A handler inside its transaction owns written rows,   *)
(* one that has committed owns committed rows until it has published them. *)
NewState(h) == IF job[h].step = "publish" THEN "committed" ELSE "written"

OwnRows ==
  \A h \in Handlers : InFlight(h) =>
    /\ \A i \in job[h].new : row[i] \in Row /\ row[i].state = NewState(h)
    /\ job[h].step = "push" => job[h].new = {}
    /\ \A g \in Handlers \ {h} : InFlight(g) => job[g].new \cap job[h].new = {}

FeedInv == TypeOK /\ OwnRows /\ NoGhost /\ FeedComplete

LEMMA TypeStep ==
  ASSUME TypeOK, OwnRows, [Next]_vars
  PROVE  TypeOK'
<1> USE DEF TypeOK
<1> SUFFICES row' \in [Ids -> Row \cup {Unused}]
          /\ job' \in [Handlers -> Job \cup {Idle}]
          /\ stream' \in [Streams -> OpenStream \cup {Closed}]
  OBVIOUS
<1>a. ASSUME NEW h \in Handlers, NEW us \in SUBSET Users, Notify(h, us)
      PROVE  TypeOK'
  <2> DEFINE ids == FreshIds(Cardinality(us))
  <2>1. ids \in SUBSET Ids
    BY DEF FreshIds
  <2>2. NewJob("write", ids) \in Job
    BY <2>1, NewJobType
  <2>3. row' \in [Ids -> Row \cup {Unused}]
    <3>1. PICK f \in [ids -> us] :
            row' = [i \in Ids |-> IF i \in ids THEN Insert(i, f[i], "OTHER") ELSE row[i]]
      BY <1>a DEF Notify
    <3>2. \A i \in ids : f[i] \in Users
      OBVIOUS
    <3> HIDE DEF ids
    <3> QED BY <3>1, <3>2, InsertType
  <2> QED BY <2>2, <2>3, <1>a, BeginType DEF Notify
<1>b. ASSUME NEW h \in Handlers, NotifyMoveDay(h)
      PROVE  TypeOK'
  BY <1>b, NewJobType, BeginType DEF NotifyMoveDay
<1>c. ASSUME NEW h \in Handlers, NEW u \in Users, NEW ids \in SUBSET Ids,
             \A i \in ids : row[i] \in Row, Read(h, u, ids)
      PROVE  TypeOK'
  <2>1. row' \in [Ids -> Row \cup {Unused}]
    BY <1>c DEF Read, MarkedRead, Row
  <2>2. [NewJob("push", {}) EXCEPT !.due = {u}] \in Job
    BY NewJobType
  <2> QED BY <2>1, <2>2, <1>c, BeginType DEF Read
<1>d. ASSUME NEW h \in Handlers, CheckMoveDay(h)
      PROVE  TypeOK'
  <2>1. job[h] \in Job /\ InFlight(h)
    BY <1>d, BusyIsJob DEF CheckMoveDay, Doing
  <2>2. NextRecipient(h) \in Job
    BY <2>1, NextRecipientType
  <2>3. [job[h] EXCEPT !.step = "insert"] \in Job
    BY <2>1 DEF Job
  <2> QED BY <1>d, <2>2, <2>3 DEF CheckMoveDay
<1>e. ASSUME NEW h \in Handlers, InsertMoveDay(h)
      PROVE  TypeOK'
  <2>1. job[h] \in Job /\ InFlight(h)
    BY <1>e, BusyIsJob DEF InsertMoveDay, Doing
  <2>2. PICK i \in FreshIds(1) :
          /\ row' = [row EXCEPT ![i] = Insert(i, Recipient(h), "MOVE_DAY")]
          /\ job' = [job EXCEPT ![h] = [NextRecipient(h) EXCEPT !.new = @ \cup {i}]]
    BY <1>e DEF InsertMoveDay
  <2>3. i \in Ids
    BY DEF FreshIds
  <2>4. [NextRecipient(h) EXCEPT !.new = @ \cup {i}] \in Job
    BY <2>1, <2>3, NextRecipientType
  <2>5. Recipient(h) \in Users
    BY <2>1, UserAssumption DEF Recipient, Job
  <2>6. Insert(i, Recipient(h), "MOVE_DAY") \in Row
    BY <2>5, InsertType
  <2> QED BY <1>e, <2>2, <2>4, <2>6 DEF InsertMoveDay
<1>f. ASSUME NEW h \in Handlers, Commit(h)
      PROVE  TypeOK'
  <2>1. job[h] \in Job /\ InFlight(h)
    BY <1>f, BusyIsJob DEF Commit, Doing
  <2>2. row' \in [Ids -> Row \cup {Unused}]
    BY <1>f, <2>1 DEF Commit, RowsAs, OwnRows, Row
  <2>3. [job[h] EXCEPT !.step = "publish"] \in Job
    BY <2>1 DEF Job
  <2> QED BY <1>f, <2>2, <2>3 DEF Commit
<1>g. ASSUME NEW h \in Handlers, Rollback(h)
      PROVE  TypeOK'
  BY <1>g DEF Rollback
<1>i. ASSUME NEW h \in Handlers, PublishCreated(h)
      PROVE  TypeOK'
  <2>1. job[h] \in Job /\ InFlight(h)
    BY <1>i, BusyIsJob DEF PublishCreated, Doing
  <2>2. {row[i].user : i \in job[h].new} \subseteq Users
    BY <2>1 DEF OwnRows, Row
  <2>3. [job[h] EXCEPT !.step = "push", !.new = {},
                       !.due = {row[i].user : i \in job[h].new}] \in Job
    BY <2>1, <2>2 DEF Job
  <2>5. \A s \in Streams : stream[s].open =>
          [stream[s] EXCEPT !.known = @ \cup PublishedTo(s, h)] \in OpenStream
    <3> SUFFICES ASSUME NEW s \in Streams, stream[s].open
                 PROVE  [stream[s] EXCEPT !.known = @ \cup PublishedTo(s, h)] \in OpenStream
      OBVIOUS
    <3>1. stream[s] \in OpenStream
      BY OpenIsOpen
    <3>2. PublishedTo(s, h) \subseteq Ids
      BY <2>1 DEF PublishedTo, Job
    <3> QED BY <3>1, <3>2 DEF OpenStream
  <2>6. stream' \in [Streams -> OpenStream \cup {Closed}]
    BY <1>i, <2>5 DEF PublishCreated
  <2> QED BY <1>i, <2>3, <2>6 DEF PublishCreated
<1>j. ASSUME NEW h \in Handlers, NEW u \in Users, CountUnread(h, u)
      PROVE  TypeOK'
  <2>1. job[h] \in Job
    BY <1>j, BusyIsJob DEF CountUnread, Doing
  <2>2. [job[h] EXCEPT !.counted[u] = UnreadCount(u)] \in Job
    BY <2>1, UnreadIsCount DEF Job
  <2> QED BY <1>j, <2>2 DEF CountUnread
<1>k. ASSUME NEW h \in Handlers, InFlight(h), NEW u \in Users
      PROVE  Without(h, u) \in Job \cup {Idle}
  BY <1>k, BusyIsJob DEF Without, Job
<1>l. ASSUME NEW h \in Handlers, NEW u \in Users, PushUnreadCount(h, u)
      PROVE  TypeOK'
  <2>1. job[h] \in Job /\ InFlight(h)
    BY <1>l, BusyIsJob DEF PushUnreadCount, Doing
  <2>2. \A s \in Receivers(u) :
          [stream[s] EXCEPT !.badge = job[h].counted[u], !.exact = job[h].alone] \in OpenStream
    <3>1. job[h].counted[u] \in Counts \cup {NoCount} /\ job[h].alone \in BOOLEAN
      BY <2>1 DEF Job
    <3>2. \A s \in Receivers(u) : stream[s] \in OpenStream
      BY OpenIsOpen DEF Receivers
    <3> QED BY <3>1, <3>2 DEF OpenStream
  <2>3. stream' \in [Streams -> OpenStream \cup {Closed}]
    BY <1>l, <2>2 DEF PushUnreadCount
  <2> QED BY <1>k, <1>l, <2>1, <2>3 DEF PushUnreadCount
<1>m. ASSUME NEW h \in Handlers, NEW u \in Users, CountFails(h, u)
      PROVE  TypeOK'
  <2>1. job[h] \in Job /\ InFlight(h)
    BY <1>m, BusyIsJob DEF CountFails, Doing
  <2>2. \A s \in Receivers(u) : [stream[s] EXCEPT !.exact = FALSE] \in OpenStream
    <3>1. \A s \in Receivers(u) : stream[s] \in OpenStream
      BY OpenIsOpen DEF Receivers
    <3> QED BY <3>1 DEF OpenStream
  <2>3. stream' \in [Streams -> OpenStream \cup {Closed}]
    BY <1>m, <2>2 DEF CountFails
  <2> QED BY <1>k, <1>m, <2>1, <2>3 DEF CountFails
<1>n. ASSUME NEW s \in Streams, Open(s)
      PROVE  TypeOK'
  <2>1. OpenOf(s) \in OpenStream
    <3>1. (~Busy) \in BOOLEAN
      OBVIOUS
    <3>2. RowsOf(StreamOf[s]) \subseteq Ids
      BY DEF RowsOf, Committed
    <3> QED BY <3>1, <3>2, Zenon DEF OpenOf, OpenStream
  <2>2. CASE Busy
    BY <1>n, <2>1, <2>2, SpoiledTypes DEF Open
  <2>3. CASE ~Busy
    BY <1>n, <2>1, <2>3 DEF Open
  <2> QED BY <2>2, <2>3
<1>o. ASSUME NEW s \in Streams, FirstCount(s) \/ FirstSend(s) \/ Close(s)
      PROVE  TypeOK'
  <2>1. stream[s] \in OpenStream
    BY <1>o, OpenIsOpen DEF FirstCount, FirstSend, Close
  <2>2. [stream[s] EXCEPT !.first = "send", !.counted = UnreadCount(StreamOf[s])] \in OpenStream
    BY <2>1, UnreadIsCount DEF OpenStream
  <2>3. [stream[s] EXCEPT !.first = "sent", !.counted = NoCount, !.badge = stream[s].counted,
                          !.exact = stream[s].alone, !.alone = FALSE] \in OpenStream
    BY <2>1 DEF OpenStream
  <2>4. CASE FirstCount(s)
    BY <2>2, <2>4 DEF FirstCount
  <2>5. CASE FirstSend(s)
    BY <2>3, <2>5 DEF FirstSend
  <2>6. CASE Close(s)
    BY <2>6 DEF Close
  <2> QED BY <1>o, <2>4, <2>5, <2>6
<1>p. CASE Crash
  BY <1>p DEF Crash
<1>q. CASE UNCHANGED vars
  BY <1>q DEF vars
<1>r. ASSUME NEW h \in Handlers, NEW u \in Users,
             ReadNotification(h, u) \/ ReadAllNotifications(h, u)
      PROVE  TypeOK'
  <2>1. RowsOf(u) \subseteq Ids /\ \A i \in RowsOf(u) : row[i] \in Row
    BY RowKinds DEF RowsOf, Committed
  <2>2. CASE ReadAllNotifications(h, u)
    BY <1>c, <2>1, <2>2 DEF ReadAllNotifications
  <2>3. CASE ReadNotification(h, u)
    BY <1>c, <2>1, <2>3 DEF ReadNotification
  <2> QED BY <1>r, <2>2, <2>3
<1> QED
  BY <1>a, <1>b, <1>d, <1>e, <1>f, <1>g, <1>i, <1>j, <1>l, <1>m, <1>n, <1>o, <1>p, <1>q, <1>r,
     BoundAssumption DEF Next, HandlerStep

(* Beginning a handler leaves the others and the streams as they are, but  *)
(* for the history.                                                        *)
SameJob(g) ==
  /\ job'[g] # Idle <=> InFlight(g)
  /\ InFlight(g) => /\ job'[g].step = job[g].step
                    /\ job'[g].at = job[g].at
                    /\ job'[g].new = job[g].new
                    /\ job'[g].counted = job[g].counted
                    /\ job'[g].due = job[g].due

SameStream(s) ==
  /\ stream'[s].open <=> stream[s].open
  /\ stream[s].open => /\ stream'[s].first = stream[s].first
                       /\ stream'[s].counted = stream[s].counted
                       /\ stream'[s].badge = stream[s].badge
                       /\ stream'[s].known = stream[s].known

LEMMA SpoiledSame ==
  ASSUME TypeOK
  PROVE  /\ \A g \in Handlers : job'[g] \in {job[g], Spoiled(g)} => SameJob(g)
         /\ \A s \in Streams : stream'[s] \in {stream[s], SpoiledStream(s)} => SameStream(s)
<1>1. ASSUME NEW g \in Handlers, job'[g] \in {job[g], Spoiled(g)}
      PROVE  SameJob(g)
  <2>1. CASE InFlight(g)
    <3>1. job[g] \in Job
      BY <2>1, BusyIsJob
    <3>2. Spoiled(g) \in Job
      BY <2>1, <3>1 DEF Spoiled, Job
    <3>3. Spoiled(g) # Idle
      BY <3>2, JobIsBusy
    <3> QED BY <1>1, <2>1, <3>1, <3>3 DEF SameJob, InFlight, Spoiled, Job
  <2> QED BY <1>1, <2>1 DEF SameJob, InFlight, Spoiled
<1>2. ASSUME NEW s \in Streams, stream'[s] \in {stream[s], SpoiledStream(s)}
      PROVE  SameStream(s)
  <2>1. CASE stream[s].open
    <3>1. stream[s] \in OpenStream
      BY <2>1, OpenIsOpen
    <3> QED BY <1>2, <2>1, <3>1 DEF SameStream, SpoiledStream, OpenStream
  <2> QED BY <1>2, <2>1, OpenIsOpen DEF SameStream, SpoiledStream
<1> QED BY <1>1, <1>2

LEMMA BeginFrame ==
  ASSUME TypeOK, NEW h \in Handlers, NEW j \in Job, Begin(h, j)
  PROVE  /\ ~InFlight(h) /\ job'[h] = j
         /\ \A g \in Handlers \ {h} : SameJob(g)
         /\ \A s \in Streams : SameStream(s)
<1>1. ~InFlight(h) /\ job'[h] = j
  BY DEF Begin, TypeOK
<1>2. /\ \A g \in Handlers \ {h} : job'[g] \in {job[g], Spoiled(g)}
      /\ \A s \in Streams : stream'[s] \in {stream[s], SpoiledStream(s)}
  BY DEF Begin, TypeOK
<1> QED BY <1>1, <1>2, SpoiledSame

(* What a step of h must show to keep OwnRows.                             *)
LEMMA OwnFrame ==
  ASSUME OwnRows, NEW h \in Handlers,
         \A f \in Handlers \ {h} : SameJob(f),
         \A f \in Handlers \ {h} : InFlight(f) =>
           \A i \in job[f].new : row'[i] \in Row /\ row'[i].state = row[i].state,
         job'[h] # Idle =>
           /\ \A i \in job'[h].new : row'[i] \in Row /\ row'[i].state = NewState(h)'
           /\ job'[h].step = "push" => job'[h].new = {}
           /\ \A f \in Handlers \ {h} : InFlight(f) => job[f].new \cap job'[h].new = {}
  PROVE  OwnRows'
<1> SUFFICES ASSUME NEW g \in Handlers, job'[g] # Idle
    PROVE  /\ \A i \in job'[g].new : row'[i] \in Row /\ row'[i].state = NewState(g)'
           /\ job'[g].step = "push" => job'[g].new = {}
           /\ \A f \in Handlers \ {g} : job'[f] # Idle => job'[f].new \cap job'[g].new = {}
  BY DEF OwnRows, InFlight
<1>1. CASE g = h
  BY <1>1 DEF SameJob
<1>2. CASE g # h
  <2>1. InFlight(g) /\ job'[g].new = job[g].new /\ job'[g].step = job[g].step
    BY <1>2 DEF SameJob
  <2>2. NewState(g)' = NewState(g)
    BY <2>1 DEF NewState
  <2>3. \A i \in job'[g].new : row'[i] \in Row /\ row'[i].state = NewState(g)'
    BY <1>2, <2>1, <2>2 DEF OwnRows
  <2>4. \A f \in Handlers \ {g} : job'[f] # Idle => job'[f].new \cap job'[g].new = {}
    BY <1>2, <2>1 DEF OwnRows, SameJob
  <2> QED BY <2>1, <2>3, <2>4 DEF OwnRows
<1> QED BY <1>1, <1>2

LEMMA OwnStep ==
  ASSUME TypeOK, OwnRows, [Next]_vars
  PROVE  OwnRows'
<1>a. ASSUME NEW h \in Handlers, NEW us \in SUBSET Users, Notify(h, us)
      PROVE  OwnRows'
  <2> DEFINE ids == FreshIds(Cardinality(us))
  <2>1. ids \in SUBSET Ids /\ \A i \in ids : row[i] = Unused
    BY DEF FreshIds
  <2>2. NewJob("write", ids) \in Job
    BY <2>1, NewJobType
  <2>3. /\ ~InFlight(h) /\ job'[h] = NewJob("write", ids)
        /\ \A f \in Handlers \ {h} : SameJob(f)
    BY <1>a, <2>2, BeginFrame DEF Notify
  <2>4. PICK f \in [ids -> us] :
          row' = [i \in Ids |-> IF i \in ids THEN Insert(i, f[i], "OTHER") ELSE row[i]]
    BY <1>a DEF Notify
  <2>5. \A g \in Handlers : InFlight(g) => job[g].new \subseteq Ids /\ job[g].new \cap ids = {}
    <3>1. \A i \in ids : row[i] \notin Row
      BY <2>1 DEF Row, Unused
    <3> QED BY <3>1, BusyIsJob DEF OwnRows, Job
  <2>6. job'[h].new = ids /\ job'[h].step = "write"
    BY <2>3 DEF NewJob
  <2>7. \A g \in Handlers \ {h} : InFlight(g) =>
          \A i \in job[g].new : row'[i] \in Row /\ row'[i].state = row[i].state
    BY <2>4, <2>5 DEF OwnRows
  <2>8. \A i \in ids : row'[i] \in Row /\ row'[i].state = "written"
    <3>1. \A i \in ids : f[i] \in Users /\ row'[i] = Insert(i, f[i], "OTHER")
      BY <2>1, <2>4
    <3>2. \A u \in Users : \A i : /\ Insert(i, u, "OTHER") \in Row
                                 /\ Insert(i, u, "OTHER").state = "written"
      BY DEF Insert, Row
    <3> HIDE DEF ids
    <3> QED BY <3>1, <3>2
  <2>9. NewState(h)' = "written"
    BY <2>6 DEF NewState
  <2> HIDE DEF ids
  <2> QED BY <2>3, <2>5, <2>6, <2>7, <2>8, <2>9, OwnFrame
<1>b. ASSUME NEW h \in Handlers, NotifyMoveDay(h)
      PROVE  OwnRows'
  <2>1. /\ ~InFlight(h) /\ job'[h] = NewJob("check", {})
        /\ \A f \in Handlers \ {h} : SameJob(f)
    BY <1>b, NewJobType, BeginFrame DEF NotifyMoveDay
  <2>2. job'[h].new = {} /\ job'[h].step = "check" /\ row' = row
    BY <1>b, <2>1 DEF NewJob, NotifyMoveDay
  <2> QED BY <2>1, <2>2, OwnFrame DEF OwnRows
<1>c. ASSUME NEW h \in Handlers, NEW u \in Users, NEW ids \in SUBSET Ids, Read(h, u, ids)
      PROVE  OwnRows'
  <2>1. [NewJob("push", {}) EXCEPT !.due = {u}] \in Job
    BY NewJobType
  <2>2. /\ ~InFlight(h) /\ job'[h] = [NewJob("push", {}) EXCEPT !.due = {u}]
        /\ \A f \in Handlers \ {h} : SameJob(f)
    BY <1>c, <2>1, BeginFrame DEF Read
  <2>3. job'[h].new = {} /\ job'[h].step = "push"
    BY <2>2 DEF NewJob
  <2>4. \A i \in Ids : row[i] \in Row => row'[i] \in Row /\ row'[i].state = row[i].state
    BY <1>c DEF Read, MarkedRead, Row
  <2>5. \A f \in Handlers : InFlight(f) => job[f].new \subseteq Ids
    BY BusyIsJob DEF Job
  <2>6. \A f \in Handlers \ {h} : InFlight(f) =>
          \A i \in job[f].new : row'[i] \in Row /\ row'[i].state = row[i].state
    BY <2>4, <2>5 DEF OwnRows
  <2> QED BY <2>2, <2>3, <2>6, OwnFrame
(* Steps of one handler that leave the others alone.                       *)
<1>d. ASSUME NEW h \in Handlers, NEW j, InFlight(h), job' = [job EXCEPT ![h] = j]
      PROVE  /\ job'[h] = j
             /\ \A f \in Handlers \ {h} : SameJob(f)
  BY <1>d DEF TypeOK, SameJob, InFlight
<1>e. ASSUME NEW h \in Handlers, NEW j, InFlight(h), job' = [job EXCEPT ![h] = j], row' = row,
             j # Idle => /\ j.new \in {{}, job[h].new}
                         /\ j.step = "push" => j.new = {}
                         /\ j.new # {} => (j.step = "publish" <=> job[h].step = "publish")
      PROVE  OwnRows'
  <2>1. job'[h] = j /\ \A f \in Handlers \ {h} : SameJob(f)
    BY <1>d, <1>e
  <2>2. j # Idle /\ j.new # {} => NewState(h)' = NewState(h)
    BY <1>e, <2>1 DEF NewState
  <2> QED BY <1>e, <2>1, <2>2, OwnFrame DEF OwnRows
<1>f. ASSUME NEW h \in Handlers, CheckMoveDay(h)
      PROVE  OwnRows'
  <2>1. job[h] \in Job /\ InFlight(h)
    BY <1>f, BusyIsJob DEF CheckMoveDay, Doing
  <2> DEFINE j == IF HasMoveDay(h) THEN NextRecipient(h) ELSE [job[h] EXCEPT !.step = "insert"]
  <2>2. job' = [job EXCEPT ![h] = j] /\ row' = row /\ job[h].step = "check"
    BY <1>f DEF CheckMoveDay, Doing
  <2>3. j.new = job[h].new /\ j.step \in {"write", "check", "insert"}
    BY <2>1, <2>2 DEF NextRecipient, Job
  <2> HIDE DEF j
  <2> QED BY <1>e, <2>1, <2>2, <2>3
<1>g. ASSUME NEW h \in Handlers, InsertMoveDay(h)
      PROVE  OwnRows'
  <2>1. job[h] \in Job /\ InFlight(h) /\ job[h].step = "insert"
    BY <1>g, BusyIsJob DEF InsertMoveDay, Doing
  <2>2. PICK i \in FreshIds(1) :
          /\ row' = [row EXCEPT ![i] = Insert(i, Recipient(h), "MOVE_DAY")]
          /\ job' = [job EXCEPT ![h] = [NextRecipient(h) EXCEPT !.new = @ \cup {i}]]
    BY <1>g DEF InsertMoveDay
  <2>3. i \in Ids /\ row[i] = Unused /\ row[i] \notin Row
    BY DEF FreshIds, Row, Unused
  <2>4. \A f \in Handlers : InFlight(f) => i \notin job[f].new
    BY <2>3 DEF OwnRows
  <2>5. /\ job'[h] = [NextRecipient(h) EXCEPT !.new = @ \cup {i}]
        /\ \A f \in Handlers \ {h} : SameJob(f)
    BY <1>d, <2>1, <2>2
  <2>6. job'[h].new = job[h].new \cup {i} /\ job'[h].step \in {"write", "check"}
    BY <2>1, <2>5 DEF NextRecipient, Job
  <2>7. Recipient(h) \in Users
    BY <2>1, UserAssumption DEF Recipient, Job
  <2>8. row'[i] \in Row /\ row'[i].state = "written"
    BY <2>2, <2>3, <2>7, InsertType DEF Insert, TypeOK, Row
  <2>9. \A f \in Handlers : InFlight(f) =>
          \A k \in job[f].new : row'[k] \in Row /\ row'[k].state = row[k].state
    BY <2>2, <2>4, BusyIsJob DEF OwnRows, TypeOK, Job
  <2>10. NewState(h)' = "written" /\ NewState(h) = "written"
    BY <2>1, <2>6 DEF NewState
  <2>11. \A k \in job'[h].new : row'[k] \in Row /\ row'[k].state = NewState(h)'
    BY <2>1, <2>6, <2>8, <2>9, <2>10 DEF OwnRows
  <2>12. \A f \in Handlers \ {h} : InFlight(f) => job[f].new \cap job'[h].new = {}
    BY <2>1, <2>4, <2>6 DEF OwnRows
  <2> QED BY <2>5, <2>6, <2>9, <2>11, <2>12, OwnFrame
<1>i. ASSUME NEW h \in Handlers, Commit(h)
      PROVE  OwnRows'
  <2>1. job[h] \in Job /\ InFlight(h) /\ job[h].step = "write"
    BY <1>i, BusyIsJob DEF Commit, Doing
  <2> DEFINE j == IF job[h].new = {} THEN Idle ELSE [job[h] EXCEPT !.step = "publish"]
  <2>2. job'[h] = j /\ \A f \in Handlers \ {h} : SameJob(f)
    BY <1>d, <1>i, <2>1 DEF Commit
  <2>3. j # Idle => j.new = job[h].new /\ j.step = "publish"
    BY <2>1 DEF Job
  <2>4. \A k \in job[h].new : row'[k] \in Row /\ row'[k].state = "committed"
    BY <1>i, <2>1 DEF Commit, RowsAs, OwnRows, Row, Job
  <2>5. \A f \in Handlers \ {h} : InFlight(f) =>
          \A k \in job[f].new : row'[k] = row[k]
    BY <1>i, <2>1, BusyIsJob DEF Commit, RowsAs, OwnRows, Job
  <2>6. j # Idle => NewState(h)' = "committed"
    BY <2>2, <2>3 DEF NewState
  <2>7. \A f \in Handlers \ {h} : InFlight(f) => job[f].new \cap job[h].new = {}
    BY <2>1 DEF OwnRows
  <2> HIDE DEF j
  <2>8. \A f \in Handlers \ {h} : InFlight(f) =>
          \A k \in job[f].new : row'[k] \in Row /\ row'[k].state = row[k].state
    BY <2>5 DEF OwnRows
  <2> QED BY <2>2, <2>3, <2>4, <2>6, <2>7, <2>8, OwnFrame
<1>j. ASSUME NEW h \in Handlers, Rollback(h)
      PROVE  OwnRows'
  <2>1. InFlight(h) /\ job' = [job EXCEPT ![h] = Idle]
    BY <1>j DEF Rollback
  <2>2. job'[h] = Idle /\ \A f \in Handlers \ {h} : SameJob(f)
    BY <1>d, <2>1
  <2>3. \A f \in Handlers \ {h} : InFlight(f) =>
          \A k \in job[f].new : row'[k] = row[k]
    BY <1>j, <2>1, BusyIsJob DEF Rollback, OwnRows, Job
  <2>4. \A f \in Handlers \ {h} : InFlight(f) =>
          \A k \in job[f].new : row'[k] \in Row /\ row'[k].state = row[k].state
    BY <2>3 DEF OwnRows
  <2> QED BY <2>2, <2>4, OwnFrame
<1>k. ASSUME NEW h \in Handlers, PublishCreated(h)
      PROVE  OwnRows'
  <2>1. job[h] \in Job /\ InFlight(h)
    BY <1>k, BusyIsJob DEF PublishCreated, Doing
  <2> DEFINE j == [job[h] EXCEPT !.step = "push", !.new = {},
                                 !.due = {row[i].user : i \in job[h].new}]
  <2>2. job' = [job EXCEPT ![h] = j] /\ row' = row
    BY <1>k DEF PublishCreated
  <2>3. j.new = {}
    BY <2>1 DEF Job
  <2> HIDE DEF j
  <2> QED BY <1>e, <2>1, <2>2, <2>3
<1>l. ASSUME NEW h \in Handlers, NEW u \in Users,
             CountUnread(h, u) \/ PushUnreadCount(h, u) \/ CountFails(h, u)
      PROVE  OwnRows'
  <2>1. job[h] \in Job /\ InFlight(h) /\ job[h].new = {} /\ row' = row
    BY <1>l, BusyIsJob DEF CountUnread, PushUnreadCount, CountFails, Doing, OwnRows
  <2>2. \E j \in {[job[h] EXCEPT !.counted[u] = UnreadCount(u)], Without(h, u)} :
          job' = [job EXCEPT ![h] = j]
    BY <1>l DEF CountUnread, PushUnreadCount, CountFails
  <2>3. \A j \in {[job[h] EXCEPT !.counted[u] = UnreadCount(u)], Without(h, u)} :
          j # Idle => j.new = {}
    BY <2>1 DEF Without, Job
  <2> QED BY <1>e, <2>1, <2>2, <2>3
<1>m. ASSUME NEW s \in Streams, Open(s) \/ FirstCount(s) \/ FirstSend(s) \/ Close(s)
      PROVE  OwnRows'
  <2>1. row' = row /\ \A g \in Handlers : job'[g] \in {job[g], Spoiled(g)}
    BY <1>m DEF Open, FirstCount, FirstSend, Close, TypeOK
  <2>2. \A g \in Handlers : SameJob(g)
    BY <2>1, SpoiledSame
  <2> QED BY <2>1, <2>2 DEF OwnRows, SameJob, NewState, InFlight
<1>n. CASE Crash
  BY <1>n DEF Crash, OwnRows, InFlight
<1>o. CASE UNCHANGED vars
  BY <1>o DEF vars, OwnRows, InFlight, NewState
<1>p. ASSUME NEW h \in Handlers, NEW u \in Users,
             ReadNotification(h, u) \/ ReadAllNotifications(h, u)
      PROVE  OwnRows'
  <2>1. RowsOf(u) \subseteq Ids
    BY DEF RowsOf, Committed
  <2>2. CASE ReadAllNotifications(h, u)
    BY <1>c, <2>1, <2>2 DEF ReadAllNotifications
  <2>3. CASE ReadNotification(h, u)
    BY <1>c, <2>1, <2>3 DEF ReadNotification
  <2> QED BY <1>p, <2>2, <2>3
<1> QED
  BY <1>a, <1>b, <1>f, <1>g, <1>i, <1>j, <1>k, <1>l, <1>m, <1>n, <1>o, <1>p,
     BoundAssumption DEF Next, HandlerStep

-----------------------------------------------------------------------------
(* The feed.                                                               *)

(* What a step must show to keep the feed right: a row that is committed   *)
(* stays so; what a stream lacks it lacked before, or it is to be pushed.  *)
LEMMA FeedFrame ==
  ASSUME NoGhost, FeedComplete,
         \A i \in Committed : i \in Committed' /\ row'[i].user = row[i].user,
         \A s \in Streams : stream'[s].open =>
           \/ /\ stream[s].open /\ stream'[s].known \in SUBSET Committed'
              /\ stream[s].known \subseteq stream'[s].known
           \/ stream'[s].known = RowsOf(StreamOf[s])',
         \A i \in Committed' \ Committed :
           \E h \in Handlers : Doing(h, "publish")' /\ i \in job'[h].new,
         \A h \in Handlers : Doing(h, "publish") =>
           \/ Doing(h, "publish")' /\ job'[h].new = job[h].new
           \/ \A s \in Streams : stream'[s].open =>
                {i \in job[h].new : row[i].user = StreamOf[s]} \subseteq stream'[s].known
  PROVE  NoGhost' /\ FeedComplete'
<1>1. NoGhost'
  BY DEF NoGhost, RowsOf
<1>2. ASSUME NEW s \in Streams, stream'[s].open,
             NEW i \in RowsOf(StreamOf[s])' \ stream'[s].known
      PROVE  \E h \in Handlers : Doing(h, "publish")' /\ i \in job'[h].new
  <2>1. /\ stream[s].open /\ stream[s].known \subseteq stream'[s].known
        /\ i \in Committed' /\ row'[i].user = StreamOf[s]
    BY <1>2 DEF RowsOf
  <2>2. CASE i \in Committed
    <3>1. i \in RowsOf(StreamOf[s]) \ stream[s].known
      BY <1>2, <2>1, <2>2 DEF RowsOf
    <3>2. PICK h \in Handlers : Doing(h, "publish") /\ i \in job[h].new
      BY <2>1, <3>1 DEF FeedComplete
    <3> QED BY <1>2, <2>1, <2>2, <3>2
  <2> QED BY <2>1, <2>2
<1>3. FeedComplete'
  BY <1>2 DEF FeedComplete
<1> QED BY <1>1, <1>3

SameFeed(s) == stream'[s].open => stream[s].open /\ stream'[s].known = stream[s].known

LEMMA SameIsSameFeed ==
  ASSUME NEW s, SameStream(s)
  PROVE  SameFeed(s)
BY DEF SameStream, SameFeed

LEMMA FeedStep ==
  ASSUME FeedInv, OwnRows', [Next]_vars
  PROVE  NoGhost' /\ FeedComplete'
<1> USE DEF FeedInv
(* Steps that touch neither committed rows, nor streams, nor a publisher.  *)
<1>0. ASSUME \A i \in Ids : /\ row'[i].state = "committed" <=> row[i].state = "committed"
                            /\ row[i].state = "committed" => row'[i].user = row[i].user,
             \A s \in Streams : SameFeed(s),
             \A h \in Handlers : Doing(h, "publish") =>
                Doing(h, "publish")' /\ job'[h].new = job[h].new
      PROVE  NoGhost' /\ FeedComplete'
  <2>1. Committed' = Committed /\ \A i \in Committed : row'[i].user = row[i].user
    BY <1>0 DEF Committed
  <2>2. \A s \in Streams : stream'[s].open =>
           /\ stream[s].open /\ stream'[s].known \in SUBSET Committed'
           /\ stream[s].known \subseteq stream'[s].known
    BY <1>0, <2>1 DEF SameFeed, NoGhost
  <2> QED BY <1>0, <2>1, <2>2, FeedFrame
<1>a. ASSUME NEW h \in Handlers, NEW us \in SUBSET Users, Notify(h, us)
      PROVE  NoGhost' /\ FeedComplete'
  <2> DEFINE ids == FreshIds(Cardinality(us))
  <2>1. ids \in SUBSET Ids /\ \A i \in ids : row[i] = Unused
    BY DEF FreshIds
  <2>2. NewJob("write", ids) \in Job
    BY <2>1, NewJobType
  <2>3. /\ ~InFlight(h) /\ \A f \in Handlers \ {h} : SameJob(f)
        /\ \A s \in Streams : SameFeed(s)
    BY <1>a, <2>2, BeginFrame, SameIsSameFeed DEF Notify
  <2>4. PICK f \in [ids -> us] :
          row' = [i \in Ids |-> IF i \in ids THEN Insert(i, f[i], "OTHER") ELSE row[i]]
    BY <1>a DEF Notify
  <2>5. \A i \in Ids : /\ row'[i].state = "committed" <=> row[i].state = "committed"
                       /\ row[i].state = "committed" => row'[i].user = row[i].user
    <3>1. \A i \in ids : row'[i] = Insert(i, f[i], "OTHER") /\ row[i] = Unused
      BY <2>1, <2>4
    <3>2. \A i, u : Insert(i, u, "OTHER").state = "written"
      BY DEF Insert
    <3> HIDE DEF ids
    <3> QED BY <2>4, <3>1, <3>2 DEF Unused
  <2> QED BY <1>0, <2>3, <2>5 DEF SameJob, Doing, InFlight
<1>b. ASSUME NEW h \in Handlers, NotifyMoveDay(h)
      PROVE  NoGhost' /\ FeedComplete'
  <2>1. /\ ~InFlight(h) /\ \A f \in Handlers \ {h} : SameJob(f)
        /\ \A s \in Streams : SameFeed(s)
    BY <1>b, NewJobType, BeginFrame, SameIsSameFeed DEF NotifyMoveDay
  <2> QED BY <1>0, <1>b, <2>1 DEF SameJob, Doing, InFlight, NotifyMoveDay
<1>c. ASSUME NEW h \in Handlers, NEW u \in Users, NEW ids \in SUBSET Ids,
             \A i \in ids : row[i] \in Row, Read(h, u, ids)
      PROVE  NoGhost' /\ FeedComplete'
  <2>1. [NewJob("push", {}) EXCEPT !.due = {u}] \in Job
    BY NewJobType
  <2>2. /\ ~InFlight(h) /\ \A f \in Handlers \ {h} : SameJob(f)
        /\ \A s \in Streams : SameFeed(s)
    BY <1>c, <2>1, BeginFrame, SameIsSameFeed DEF Read
  <2>3. \A i \in Ids : /\ row'[i].state = "committed" <=> row[i].state = "committed"
                       /\ row[i].state = "committed" => row'[i].user = row[i].user
    BY <1>c DEF Read, MarkedRead, Row
  <2> QED BY <1>0, <2>2, <2>3 DEF SameJob, Doing, InFlight
(* Steps of a handler that is not publishing, over the same streams.       *)
<1>d. ASSUME NEW h \in Handlers, NEW j, InFlight(h), job' = [job EXCEPT ![h] = j],
             stream' = stream, job[h].step # "publish",
             \A i \in Ids : /\ row'[i].state = "committed" <=> row[i].state = "committed"
                            /\ row[i].state = "committed" => row'[i].user = row[i].user
      PROVE  NoGhost' /\ FeedComplete'
  <2>1. \A s \in Streams : SameFeed(s)
    BY <1>d DEF SameFeed
  <2>2. \A g \in Handlers : Doing(g, "publish") => g # h /\ job'[g] = job[g]
    BY <1>d DEF Doing, TypeOK
  <2> QED BY <1>0, <1>d, <2>1, <2>2 DEF Doing, InFlight
<1>e. ASSUME NEW h \in Handlers, CheckMoveDay(h)
      PROVE  NoGhost' /\ FeedComplete'
  BY <1>d, <1>e DEF CheckMoveDay, Doing
<1>f. ASSUME NEW h \in Handlers, InsertMoveDay(h)
      PROVE  NoGhost' /\ FeedComplete'
  <2>1. PICK i \in FreshIds(1) :
          /\ row' = [row EXCEPT ![i] = Insert(i, Recipient(h), "MOVE_DAY")]
          /\ job' = [job EXCEPT ![h] = [NextRecipient(h) EXCEPT !.new = @ \cup {i}]]
    BY <1>f DEF InsertMoveDay
  <2>2. i \in Ids /\ row[i].state = "unused" /\ row'[i].state = "written"
    BY <2>1 DEF FreshIds, Unused, Insert, TypeOK
  <2>3. \A k \in Ids : /\ row'[k].state = "committed" <=> row[k].state = "committed"
                       /\ row[k].state = "committed" => row'[k].user = row[k].user
    BY <2>1, <2>2 DEF TypeOK
  <2> QED BY <1>d, <1>f, <2>1, <2>3 DEF InsertMoveDay, Doing
<1>g. ASSUME NEW h \in Handlers, Commit(h)
      PROVE  NoGhost' /\ FeedComplete'
  <2>1. job[h] \in Job /\ InFlight(h) /\ job[h].step = "write" /\ stream' = stream
    BY <1>g, BusyIsJob DEF Commit, Doing
  <2>2. \A i \in Ids : row'[i] = IF i \in job[h].new THEN [row[i] EXCEPT !.state = "committed"]
                                 ELSE row[i]
    BY <1>g DEF Commit, RowsAs
  <2>3. \A i \in job[h].new : i \in Ids /\ row[i] \in Row /\ row[i].state = "written"
    BY <2>1 DEF OwnRows, NewState, Job
  <2>4. \A i \in Committed : i \in Committed' /\ row'[i].user = row[i].user
    BY <2>2, <2>3 DEF Committed
  <2>5. \A s \in Streams : stream'[s].open =>
          /\ stream[s].open /\ stream'[s].known \in SUBSET Committed'
          /\ stream[s].known \subseteq stream'[s].known
    BY <2>1, <2>4 DEF NoGhost
  <2>6. job[h].new # {} => Doing(h, "publish")' /\ job'[h].new = job[h].new
    BY <1>g, <2>1, JobIsBusy DEF Commit, Doing, InFlight, TypeOK, Job
  <2>7. \A i \in Committed' \ Committed : Doing(h, "publish")' /\ i \in job'[h].new
    BY <2>2, <2>6 DEF Committed
  <2>8. \A g \in Handlers : Doing(g, "publish") => Doing(g, "publish")' /\ job'[g].new = job[g].new
    BY <1>g, <2>1 DEF Commit, Doing, InFlight, TypeOK
  <2> QED BY <2>4, <2>5, <2>7, <2>8, FeedFrame
<1>i. ASSUME NEW h \in Handlers, Rollback(h)
      PROVE  NoGhost' /\ FeedComplete'
  <2>1. InFlight(h) /\ job[h].step # "publish" /\ \A i \in job[h].new : row[i].state = "written"
    BY <1>i DEF Rollback, OwnRows, NewState
  <2>2. \A k \in Ids : /\ row'[k].state = "committed" <=> row[k].state = "committed"
                       /\ row[k].state = "committed" => row'[k].user = row[k].user
    BY <1>i, <2>1 DEF Rollback, Unused
  <2> QED BY <1>d, <1>i, <2>1, <2>2 DEF Rollback
<1>j. ASSUME NEW h \in Handlers, PublishCreated(h)
      PROVE  NoGhost' /\ FeedComplete'
  <2>1. job[h] \in Job /\ InFlight(h) /\ job[h].step = "publish" /\ row' = row
    BY <1>j, BusyIsJob DEF PublishCreated, Doing
  <2>2. \A i \in job[h].new : i \in Committed
    BY <2>1 DEF OwnRows, NewState, Job, Committed
  <2>3. \A s \in Streams : stream'[s].open =>
          /\ stream[s].open /\ stream'[s].known = stream[s].known \cup PublishedTo(s, h)
    <3> SUFFICES ASSUME NEW s \in Streams, stream'[s].open
                 PROVE stream[s].open /\ stream'[s].known = stream[s].known \cup PublishedTo(s, h)
      OBVIOUS
    <3>1. CASE ~stream[s].open
      BY <1>j, <3>1 DEF PublishCreated
    <3>2. CASE stream[s].open
      <4>1. stream[s] \in OpenStream
        BY <3>2, OpenIsOpen
      <4> QED BY <1>j, <3>2, <4>1 DEF PublishCreated, OpenStream
    <3> QED BY <3>1, <3>2
  <2>4. Committed' = Committed
    BY <2>1 DEF Committed
  <2>5. \A s \in Streams : stream'[s].open =>
          /\ stream[s].open /\ stream'[s].known \in SUBSET Committed'
          /\ stream[s].known \subseteq stream'[s].known
    BY <2>2, <2>3, <2>4 DEF NoGhost, PublishedTo
  <2>6. \A g \in Handlers \ {h} : job'[g] = job[g]
    BY <1>j DEF PublishCreated, TypeOK
  <2>7. \A g \in Handlers : Doing(g, "publish") =>
          \/ Doing(g, "publish")' /\ job'[g].new = job[g].new
          \/ \A s \in Streams : stream'[s].open =>
               {i \in job[g].new : row[i].user = StreamOf[s]} \subseteq stream'[s].known
    BY <2>3, <2>6 DEF Doing, InFlight, PublishedTo
  <2> QED BY <2>1, <2>4, <2>5, <2>7, FeedFrame
<1>k. ASSUME NEW h \in Handlers, NEW u \in Users,
             CountUnread(h, u) \/ PushUnreadCount(h, u) \/ CountFails(h, u)
      PROVE  NoGhost' /\ FeedComplete'
  <2>1. row' = row /\ Doing(h, "push")
    BY <1>k DEF CountUnread, PushUnreadCount, CountFails
  <2>2. \A s \in Streams : SameFeed(s)
    <3> SUFFICES ASSUME NEW s \in Streams
                 PROVE  SameFeed(s)
      OBVIOUS
    <3>1. CASE ~stream[s].open
      BY <1>k, <3>1 DEF CountUnread, PushUnreadCount, CountFails, Receivers, SameFeed, TypeOK
    <3>2. CASE stream[s].open
      <4>1. stream[s] \in OpenStream
        BY <3>2, OpenIsOpen
      <4>2. CASE CountUnread(h, u)
        BY <4>2 DEF CountUnread, SameFeed
      <4>3. CASE PushUnreadCount(h, u)
        BY <4>1, <4>3 DEF PushUnreadCount, SameFeed, OpenStream
      <4>4. CASE CountFails(h, u)
        BY <4>1, <4>4 DEF CountFails, SameFeed, OpenStream
      <4> QED BY <1>k, <4>2, <4>3, <4>4
    <3> QED BY <3>1, <3>2
  <2>3. \A g \in Handlers \ {h} : job'[g] = job[g]
    BY <1>k DEF CountUnread, PushUnreadCount, CountFails, TypeOK
  <2> QED BY <1>0, <2>1, <2>2, <2>3 DEF Doing, InFlight
<1>l. ASSUME NEW s \in Streams, FirstCount(s) \/ FirstSend(s)
      PROVE  NoGhost' /\ FeedComplete'
  <2>1. stream[s] \in OpenStream
    BY <1>l, OpenIsOpen DEF FirstCount, FirstSend
  <2>2. row' = row /\ job' = job /\ \A t \in Streams : SameStream(t) \/ t = s
    BY <1>l DEF FirstCount, FirstSend, SameStream, TypeOK
  <2>3. stream'[s].open /\ stream[s].open /\ stream'[s].known = stream[s].known
    BY <1>l, <2>1 DEF FirstCount, FirstSend, OpenStream, TypeOK
  <2>4. \A t \in Streams : stream'[t].open =>
           /\ stream[t].open /\ stream'[t].known = stream[t].known
    BY <2>2, <2>3 DEF SameStream
  <2> QED BY <2>2, <2>4 DEF NoGhost, FeedComplete, RowsOf, Committed, Doing, InFlight
<1>m. ASSUME NEW s \in Streams, Close(s)
      PROVE  NoGhost' /\ FeedComplete'
  <2>1. row' = row /\ job' = job
    BY <1>m DEF Close
  <2>2. \A t \in Streams : stream'[t].open =>
           /\ stream[t].open /\ stream'[t].known = stream[t].known
    BY <1>m DEF Close, Closed, TypeOK
  <2> QED BY <2>1, <2>2 DEF NoGhost, FeedComplete, RowsOf, Committed, Doing, InFlight
<1>n. ASSUME NEW s \in Streams, Open(s)
      PROVE  NoGhost' /\ FeedComplete'
  <2>1. row' = row /\ \A g \in Handlers : SameJob(g)
    BY <1>n, SpoiledSame DEF Open
  <2>2. stream'[s] = OpenOf(s) /\ \A t \in Streams \ {s} : SameStream(t)
    BY <1>n, SpoiledSame DEF Open, TypeOK
  <2>3. stream'[s].known = RowsOf(StreamOf[s])
    BY <2>2 DEF OpenOf
  <2>4. Committed' = Committed /\ \A t \in Streams : RowsOf(StreamOf[t])' = RowsOf(StreamOf[t])
    BY <2>1 DEF Committed, RowsOf
  <2>5. \A t \in Streams : stream'[t].open =>
           \/ /\ stream[t].open /\ stream'[t].known \in SUBSET Committed'
              /\ stream[t].known \subseteq stream'[t].known
           \/ stream'[t].known = RowsOf(StreamOf[t])'
    BY <2>2, <2>3, <2>4 DEF SameStream, NoGhost
  <2>6. \A g \in Handlers : Doing(g, "publish") => Doing(g, "publish")' /\ job'[g].new = job[g].new
    BY <2>1 DEF SameJob, Doing, InFlight
  <2> QED BY <2>1, <2>4, <2>5, <2>6, FeedFrame
<1>o. CASE Crash
  BY <1>o DEF Crash, Closed, NoGhost, FeedComplete
<1>p. CASE UNCHANGED vars
  BY <1>p DEF vars, NoGhost, FeedComplete, RowsOf, Committed, Doing, InFlight
<1>q. ASSUME NEW h \in Handlers, NEW u \in Users,
             ReadNotification(h, u) \/ ReadAllNotifications(h, u)
      PROVE  NoGhost' /\ FeedComplete'
  <2>1. RowsOf(u) \subseteq Ids /\ \A i \in RowsOf(u) : row[i] \in Row
    BY RowKinds DEF RowsOf, Committed
  <2>2. CASE ReadAllNotifications(h, u)
    BY <1>c, <2>1, <2>2 DEF ReadAllNotifications
  <2>3. CASE ReadNotification(h, u)
    BY <1>c, <2>1, <2>3 DEF ReadNotification
  <2> QED BY <1>q, <2>2, <2>3
<1> QED
  BY <1>a, <1>b, <1>e, <1>f, <1>g, <1>i, <1>j, <1>k, <1>l, <1>m, <1>n, <1>o, <1>p, <1>q,
     BoundAssumption DEF Next, HandlerStep

-----------------------------------------------------------------------------
(* Who is alone.  A handler that has met no other still meets none, and a  *)
(* stream that is opened alone meets no handler before its first count is  *)
(* sent.                                                                   *)
LoneHandler ==
  \A h \in Handlers : InFlight(h) /\ job[h].alone =>
    \A g \in Handlers \ {h} : ~InFlight(g)

LoneStream ==
  \A s \in Streams : stream[s].open /\ stream[s].alone =>
    stream[s].first # "sent" /\ \A h \in Handlers : ~InFlight(h)

Lone == LoneHandler /\ LoneStream

LEMMA LoneFrame ==
  ASSUME Lone,
         \A g \in Handlers : job'[g] # Idle => InFlight(g) /\ (job'[g].alone => job[g].alone),
         \A s \in Streams : stream'[s].open /\ stream'[s].alone =>
           stream[s].open /\ stream[s].alone /\ stream'[s].first # "sent"
  PROVE  Lone'
BY DEF Lone, LoneHandler, LoneStream, InFlight

LEMMA LoneBegin ==
  ASSUME TypeOK, Lone, NEW h \in Handlers, NEW j \in Job, Begin(h, j), j.alone => ~Busy
  PROVE  Lone'
<1>1. CASE Busy
  <2>1. \A g \in Handlers : job'[g] # Idle => ~job'[g].alone
    <3>1. \A g \in Handlers : Spoiled(g) # Idle => ~Spoiled(g).alone
      BY BusyIsJob DEF Spoiled, Job
    <3> QED BY <1>1, <3>1 DEF Begin
  <2>2. \A s \in Streams : stream'[s].open => ~stream'[s].alone
    <3>1. \A s \in Streams : SpoiledStream(s).open => ~SpoiledStream(s).alone
      BY OpenIsOpen DEF SpoiledStream, OpenStream, Closed
    <3> QED BY <1>1, <3>1 DEF Begin
  <2> QED BY <2>1, <2>2 DEF Lone, LoneHandler, LoneStream, InFlight
<1>2. CASE ~Busy
  <2>1. \A g \in Handlers \ {h} : job'[g] = Idle
    BY <1>2 DEF Begin, Busy, InFlight, TypeOK
  <2>2. \A s \in Streams : ~(stream'[s].open /\ stream'[s].alone)
    BY <1>2 DEF Begin, Busy, Opening, Lone, LoneStream
  <2> QED BY <2>1, <2>2 DEF Lone, LoneHandler, LoneStream, InFlight
<1> QED BY <1>1, <1>2

LEMMA NewJobAlone ==
  ASSUME NEW step, NEW new, NEW due
  PROVE  /\ NewJob(step, new).alone => ~Busy
         /\ [NewJob(step, new) EXCEPT !.due = due].alone => ~Busy
BY DEF NewJob

LEMMA LoneStep ==
  ASSUME TypeOK, Lone, [Next]_vars
  PROVE  Lone'
<1>a. ASSUME NEW h \in Handlers, NEW us \in SUBSET Users, Notify(h, us)
      PROVE  Lone'
  <2> DEFINE ids == FreshIds(Cardinality(us))
  <2>1. ids \in SUBSET Ids
    BY DEF FreshIds
  <2> HIDE DEF ids
  <2>2. NewJob("write", ids) \in Job /\ (NewJob("write", ids).alone => ~Busy)
    BY <2>1, NewJobType, NewJobAlone
  <2> QED BY <1>a, <2>2, LoneBegin DEF Notify, ids
<1>b. ASSUME NEW h \in Handlers, NotifyMoveDay(h)
      PROVE  Lone'
  BY <1>b, NewJobType, NewJobAlone, LoneBegin DEF NotifyMoveDay
<1>c. ASSUME NEW h \in Handlers, NEW u \in Users, NEW ids, Read(h, u, ids)
      PROVE  Lone'
  BY <1>c, NewJobType, NewJobAlone, LoneBegin DEF Read
<1>d. ASSUME NEW h \in Handlers, NEW u \in Users,
             ReadNotification(h, u) \/ ReadAllNotifications(h, u)
      PROVE  Lone'
  BY <1>c, <1>d DEF ReadNotification, ReadAllNotifications
<1>e. ASSUME NEW h \in Handlers, NEW j, InFlight(h), job' = [job EXCEPT ![h] = j],
             j # Idle => j.alone = job[h].alone,
             \A s \in Streams : stream'[s].open /\ stream'[s].alone =>
               stream[s].open /\ stream[s].alone /\ stream'[s].first # "sent"
      PROVE  Lone'
  BY <1>e, LoneFrame DEF TypeOK, InFlight
<1>f. \A s \in Streams : stream'[s] = stream[s] /\ stream'[s].open /\ stream'[s].alone =>
        stream[s].open /\ stream[s].alone /\ stream'[s].first # "sent"
  BY DEF Lone, LoneStream
<1>g. ASSUME NEW h \in Handlers,
             CheckMoveDay(h) \/ InsertMoveDay(h) \/ Commit(h) \/ Rollback(h)
      PROVE  Lone'
  <2>1. job[h] \in Job /\ InFlight(h)
    BY <1>g, BusyIsJob DEF CheckMoveDay, InsertMoveDay, Commit, Rollback, Doing
  <2>2. NextRecipient(h).alone = job[h].alone
    BY <2>1 DEF NextRecipient, Job
  <2>3. \A ids : [NextRecipient(h) EXCEPT !.new = @ \cup ids].alone = job[h].alone
    BY <2>1 DEF NextRecipient, Job
  <2>4. \A st : [job[h] EXCEPT !.step = st].alone = job[h].alone
    BY <2>1 DEF Job
  <2>5. \E j : job' = [job EXCEPT ![h] = j] /\ (j # Idle => j.alone = job[h].alone)
    BY <1>g, <2>2, <2>3, <2>4 DEF CheckMoveDay, InsertMoveDay, Commit, Rollback
  <2>6. stream' = stream
    BY <1>g DEF CheckMoveDay, InsertMoveDay, Commit, Rollback
  <2> QED BY <1>e, <1>f, <2>1, <2>5, <2>6
<1>h. ASSUME NEW h \in Handlers, PublishCreated(h)
      PROVE  Lone'
  <2>1. job[h] \in Job /\ InFlight(h)
    BY <1>h, BusyIsJob DEF PublishCreated, Doing
  <2> DEFINE j == [job[h] EXCEPT !.step = "push", !.new = {},
                                 !.due = {row[i].user : i \in job[h].new}]
  <2>2. j.alone = job[h].alone
    BY <2>1 DEF Job
  <2>3. \A s \in Streams : stream'[s].open /\ stream'[s].alone =>
          stream[s].open /\ stream[s].alone /\ stream'[s].first # "sent"
    <3> SUFFICES ASSUME NEW s \in Streams, stream'[s].open /\ stream'[s].alone
                 PROVE  stream[s].open /\ stream[s].alone /\ stream'[s].first # "sent"
      OBVIOUS
    <3>1. stream[s].open
      BY <1>h DEF PublishCreated
    <3>2. stream'[s] = [stream[s] EXCEPT !.known = @ \cup PublishedTo(s, h)]
      BY <1>h, <3>1 DEF PublishCreated
    <3>3. stream'[s].alone = stream[s].alone /\ stream'[s].first = stream[s].first
      BY <3>1, <3>2, OpenIsOpen DEF OpenStream
    <3> QED BY <3>1, <3>3 DEF Lone, LoneStream
  <2>4. job' = [job EXCEPT ![h] = j]
    BY <1>h DEF PublishCreated
  <2> HIDE DEF j
  <2> QED BY <1>e, <2>1, <2>2, <2>3, <2>4
<1>i. ASSUME NEW h \in Handlers, NEW u \in Users,
             CountUnread(h, u) \/ PushUnreadCount(h, u) \/ CountFails(h, u)
      PROVE  Lone'
  <2>1. job[h] \in Job /\ InFlight(h)
    BY <1>i, BusyIsJob DEF CountUnread, PushUnreadCount, CountFails, Doing
  <2>2. \A n : [job[h] EXCEPT !.counted[u] = n].alone = job[h].alone
    BY <2>1 DEF Job
  <2>3. Without(h, u) # Idle => Without(h, u).alone = job[h].alone
    BY <2>1 DEF Job, Without
  <2>4. \E j : job' = [job EXCEPT ![h] = j] /\ (j # Idle => j.alone = job[h].alone)
    BY <1>i, <2>2, <2>3 DEF CountUnread, PushUnreadCount, CountFails
  <2>5. \A s \in Streams : stream'[s].open /\ stream'[s].alone =>
          stream[s].open /\ stream[s].alone /\ stream'[s].first # "sent"
    <3> SUFFICES ASSUME NEW s \in Streams, stream'[s].open /\ stream'[s].alone
                 PROVE  stream[s].open /\ stream[s].alone /\ stream'[s].first # "sent"
      OBVIOUS
    <3>1. stream[s] \in OpenStream
      BY <1>i, OpenIsOpen DEF CountUnread, PushUnreadCount, CountFails, Receivers
    <3> DEFINE b == job[h].counted[u]
               e == job[h].alone
    <3>2. stream'[s] \in {stream[s], [stream[s] EXCEPT !.badge = b, !.exact = e],
                          [stream[s] EXCEPT !.exact = FALSE]}
      BY <1>i DEF CountUnread, PushUnreadCount, CountFails
    <3> HIDE DEF b, e
    <3>3. stream'[s].alone = stream[s].alone /\ stream'[s].first = stream[s].first
      BY <3>1, <3>2 DEF OpenStream
    <3> QED BY <3>1, <3>3 DEF Lone, LoneStream, OpenStream
  <2> QED BY <1>e, <2>1, <2>4, <2>5
<1>j. ASSUME NEW s \in Streams, FirstCount(s) \/ FirstSend(s) \/ Close(s)
      PROVE  Lone'
  <2>1. job' = job /\ \A t \in Streams \ {s} : stream'[t] = stream[t]
    BY <1>j DEF FirstCount, FirstSend, Close, TypeOK
  <2>2. stream[s] \in OpenStream
    BY <1>j, OpenIsOpen DEF FirstCount, FirstSend, Close
  <2>3. stream'[s].open /\ stream'[s].alone =>
          stream[s].open /\ stream[s].alone /\ stream'[s].first # "sent"
    <3>1. CASE FirstCount(s)
      BY <2>2, <3>1 DEF FirstCount, TypeOK, OpenStream
    <3>2. CASE FirstSend(s)
      BY <2>2, <3>2 DEF FirstSend, TypeOK, OpenStream
    <3>3. CASE Close(s)
      BY <3>3 DEF Close, TypeOK, Closed
    <3> QED BY <1>j, <3>1, <3>2, <3>3
  <2> QED BY <1>f, <2>1, <2>3, LoneFrame DEF InFlight
<1>k. ASSUME NEW s \in Streams, Open(s)
      PROVE  Lone'
  <2>1. stream'[s] = OpenOf(s)
    BY <1>k DEF Open, TypeOK
  <2>2. CASE Busy
    <3>1. \A g \in Handlers : job'[g] # Idle => ~job'[g].alone
      <4>1. \A g \in Handlers : Spoiled(g) # Idle => ~Spoiled(g).alone
        BY BusyIsJob DEF Spoiled, Job
      <4> QED BY <1>k, <2>2, <4>1 DEF Open
    <3>2. \A t \in Streams : stream'[t].open => ~stream'[t].alone
      <4>1. \A t \in Streams : SpoiledStream(t).open => ~SpoiledStream(t).alone
        BY OpenIsOpen DEF SpoiledStream, OpenStream, Closed
      <4>2. ~OpenOf(s).alone
        BY <2>2 DEF OpenOf
      <4> QED BY <1>k, <2>2, <4>1, <4>2 DEF Open
    <3> QED BY <3>1, <3>2 DEF Lone, LoneHandler, LoneStream, InFlight
  <2>3. CASE ~Busy
    <3>1. job' = job /\ \A g \in Handlers : ~InFlight(g)
      BY <1>k, <2>3 DEF Open, Busy
    <3>2. \A t \in Streams \ {s} : ~(stream'[t].open /\ stream'[t].alone)
      BY <1>k, <2>3 DEF Open, Busy, Opening, Lone, LoneStream, TypeOK
    <3>3. stream'[s].first # "sent"
      BY <2>1 DEF OpenOf
    <3> QED BY <3>1, <3>2, <3>3 DEF Lone, LoneHandler, LoneStream, InFlight
  <2> QED BY <2>2, <2>3
<1>l. CASE Crash
  BY <1>l DEF Crash, Lone, LoneHandler, LoneStream, InFlight, Closed
<1>m. CASE UNCHANGED vars
  BY <1>m DEF vars, Lone, LoneHandler, LoneStream, InFlight
<1> QED
  BY <1>a, <1>b, <1>d, <1>g, <1>h, <1>i, <1>j, <1>k, <1>l, <1>m,
     BoundAssumption DEF Next, HandlerStep

-----------------------------------------------------------------------------
(* MOVE_DAY.  A lone handler is about to insert only what nobody has.      *)
NothingTwice(h) ==
  /\ \A i \in job[h].new : \A j \in (Committed \cup job[h].new) \ {i} :
       row[i].type = "MOVE_DAY" /\ row[j].type = "MOVE_DAY" => row[i].user # row[j].user
  /\ job[h].step = "insert" => ~HasMoveDay(h)

LoneMoveDay == \A h \in Handlers : InFlight(h) /\ job[h].alone => NothingTwice(h)

LEMMA MoveDayFrame ==
  ASSUME TypeOK, LoneMoveDay, LoneHandler, LoneHandler', NEW h \in Handlers,
         \A g \in Handlers \ {h} : job'[g] = job[g] \/ job'[g] = Spoiled(g),
         InFlight(h) \/ job'[h] # Idle,
         job'[h] # Idle /\ job'[h].alone => NothingTwice(h)'
  PROVE  LoneMoveDay'
<1> SUFFICES ASSUME NEW g \in Handlers, job'[g] # Idle, job'[g].alone
             PROVE  NothingTwice(g)'
  BY DEF LoneMoveDay, InFlight
<1>1. CASE g = h
  BY <1>1
<1>2. CASE g # h
  <2>1. job'[h] = Idle
    BY <1>2 DEF LoneHandler, InFlight
  <2>2. job'[g] = Spoiled(g) /\ InFlight(g) => ~job'[g].alone
    BY BusyIsJob DEF Spoiled, Job
  <2> QED BY <1>2, <2>1, <2>2 DEF LoneHandler, InFlight, Spoiled
<1> QED BY <1>1, <1>2

LEMMA MoveDayStep ==
  ASSUME TypeOK, OwnRows, LoneMoveDay, LoneHandler, LoneHandler', [Next]_vars
  PROVE  LoneMoveDay'
(* A handler that begins writes no MOVE_DAY, and checks before it does.    *)
<1>0. ASSUME NEW h \in Handlers, NEW j \in Job, Begin(h, j), j.step # "insert",
             \A i \in j.new : row'[i].type = "OTHER"
      PROVE  LoneMoveDay'
  <2>1. job'[h] = j
    BY <1>0, BeginFrame
  <2>2. \A g \in Handlers \ {h} : job'[g] = job[g] \/ job'[g] = Spoiled(g)
    BY <1>0 DEF Begin, TypeOK
  <2>3. NothingTwice(h)'
    BY <1>0, <2>1 DEF NothingTwice
  <2> QED BY <2>1, <2>2, <2>3, <1>0, JobIsBusy, MoveDayFrame
<1>a. ASSUME NEW h \in Handlers, NEW us \in SUBSET Users, Notify(h, us)
      PROVE  LoneMoveDay'
  <2> DEFINE ids == FreshIds(Cardinality(us))
  <2>1. ids \in SUBSET Ids
    BY DEF FreshIds
  <2>2. PICK f \in [ids -> us] :
          row' = [i \in Ids |-> IF i \in ids THEN Insert(i, f[i], "OTHER") ELSE row[i]]
    BY <1>a DEF Notify
  <2>3. \A i \in ids : row'[i] = Insert(i, f[i], "OTHER")
    BY <2>1, <2>2
  <2> HIDE DEF ids
  <2>4. \A i \in ids : row'[i].type = "OTHER"
    <3>1. \A i, u : Insert(i, u, "OTHER").type = "OTHER"
      BY DEF Insert
    <3> QED BY <2>3, <3>1
  <2>5. NewJob("write", ids).new = ids /\ NewJob("write", ids).step = "write"
    BY DEF NewJob
  <2> QED BY <1>0, <1>a, <2>1, <2>4, <2>5, NewJobType DEF Notify, ids
<1>b. ASSUME NEW h \in Handlers, NotifyMoveDay(h)
      PROVE  LoneMoveDay'
  <2>1. NewJob("check", {}).new = {} /\ NewJob("check", {}).step = "check"
    BY DEF NewJob
  <2> QED BY <1>0, <1>b, <2>1, NewJobType DEF NotifyMoveDay
<1>c. ASSUME NEW h \in Handlers, NEW u \in Users, NEW ids, Read(h, u, ids)
      PROVE  LoneMoveDay'
  <2> DEFINE j == [NewJob("push", {}) EXCEPT !.due = {u}]
  <2>1. j.new = {} /\ j.step = "push"
    BY DEF NewJob
  <2>2. j \in Job
    BY NewJobType
  <2>3. Begin(h, j)
    BY <1>c DEF Read
  <2> HIDE DEF j
  <2> QED BY <1>0, <2>1, <2>2, <2>3
<1>d. ASSUME NEW h \in Handlers, NEW u \in Users,
             ReadNotification(h, u) \/ ReadAllNotifications(h, u)
      PROVE  LoneMoveDay'
  BY <1>c, <1>d DEF ReadNotification, ReadAllNotifications
(* A step of one handler.                                                  *)
<1>e. ASSUME NEW h \in Handlers, NEW j, InFlight(h), job' = [job EXCEPT ![h] = j],
             j # Idle /\ j.alone => NothingTwice(h)'
      PROVE  LoneMoveDay'
  BY <1>e, MoveDayFrame DEF TypeOK
<1>f. ASSUME NEW h \in Handlers, CheckMoveDay(h)
      PROVE  LoneMoveDay'
  <2>1. job[h] \in Job /\ InFlight(h) /\ job[h].step = "check" /\ row' = row
    BY <1>f, BusyIsJob DEF CheckMoveDay, Doing
  <2> DEFINE j == IF HasMoveDay(h) THEN NextRecipient(h) ELSE [job[h] EXCEPT !.step = "insert"]
  <2>2. job' = [job EXCEPT ![h] = j] /\ job'[h] = j
    BY <1>f DEF CheckMoveDay, TypeOK
  <2>3. /\ j.new = job[h].new /\ j.alone = job[h].alone
        /\ j.step = "insert" => ~HasMoveDay(h) /\ j.at = job[h].at
    BY <2>1 DEF NextRecipient, Job
  <2> HIDE DEF j
  <2>4. j.alone => NothingTwice(h)
    BY <2>1, <2>3 DEF LoneMoveDay
  <2>5. j.alone => NothingTwice(h)'
    BY <2>1, <2>2, <2>3, <2>4 DEF NothingTwice, HasMoveDay, Committed, Recipient
  <2> QED BY <1>e, <2>1, <2>2, <2>5
<1>g. ASSUME NEW h \in Handlers, InsertMoveDay(h)
      PROVE  LoneMoveDay'
  <2>1. job[h] \in Job /\ InFlight(h) /\ job[h].step = "insert"
    BY <1>g, BusyIsJob DEF InsertMoveDay, Doing
  <2>2. PICK i \in FreshIds(1) :
          /\ row' = [row EXCEPT ![i] = Insert(i, Recipient(h), "MOVE_DAY")]
          /\ job' = [job EXCEPT ![h] = [NextRecipient(h) EXCEPT !.new = @ \cup {i}]]
    BY <1>g DEF InsertMoveDay
  <2> DEFINE j == [NextRecipient(h) EXCEPT !.new = @ \cup {i}]
  <2>3. /\ job'[h] = j /\ j.new = job[h].new \cup {i} /\ j.alone = job[h].alone
        /\ j.step \in {"write", "check"}
    BY <2>1, <2>2 DEF NextRecipient, Job, TypeOK
  <2>4. i \in Ids /\ row[i].state = "unused"
    BY DEF FreshIds, Unused
  <2>5. row'[i].user = Recipient(h) /\ row'[i].state = "written"
        /\ \A k \in Ids \ {i} : row'[k] = row[k]
    BY <2>2, <2>4 DEF TypeOK, Insert
  <2>6. Committed' = Committed /\ i \notin Committed
    BY <2>4, <2>5 DEF Committed
  <2>7. i \notin job[h].new /\ job[h].new \subseteq Ids
    BY <2>1, <2>4 DEF OwnRows, NewState, Job
  <2>8. job[h].alone => NothingTwice(h) /\ ~HasMoveDay(h)
    BY <2>1 DEF LoneMoveDay, NothingTwice
  <2>9. job[h].alone => \A k \in Committed \cup job[h].new :
          row'[k].type = "MOVE_DAY" => row'[k].user # row'[i].user
    BY <2>5, <2>6, <2>7, <2>8 DEF HasMoveDay, Committed
  <2>10. job[h].alone => NothingTwice(h)'
    <3> HIDE DEF j
    <3>1. SUFFICES ASSUME job[h].alone, NEW k \in job[h].new \cup {i},
                          NEW l \in (Committed \cup job[h].new \cup {i}) \ {k},
                          row'[k].type = "MOVE_DAY", row'[l].type = "MOVE_DAY"
                   PROVE  row'[k].user # row'[l].user
      BY <2>3, <2>6 DEF NothingTwice
    <3>2. CASE k = i
      BY <2>9, <3>1, <3>2
    <3>3. CASE l = i
      BY <2>9, <3>1, <3>3
    <3>4. CASE k # i /\ l # i
      <4>1. row'[k] = row[k] /\ row'[l] = row[l]
        BY <2>5, <2>7, <3>1, <3>4 DEF Committed
      <4> QED BY <2>8, <3>1, <3>4, <4>1 DEF NothingTwice
    <3> QED BY <3>2, <3>3, <3>4
  <2>11. job' = [job EXCEPT ![h] = j]
    BY <2>2
  <2> HIDE DEF j
  <2> QED BY <1>e, <2>1, <2>3, <2>10, <2>11
<1>h. ASSUME NEW h \in Handlers, Commit(h)
      PROVE  LoneMoveDay'
  <2>1. job[h] \in Job /\ InFlight(h) /\ job[h].step = "write"
    BY <1>h, BusyIsJob DEF Commit, Doing
  <2> DEFINE j == IF job[h].new = {} THEN Idle ELSE [job[h] EXCEPT !.step = "publish"]
  <2>2. job' = [job EXCEPT ![h] = j] /\ job'[h] = j
    BY <1>h DEF Commit, TypeOK
  <2>3. j # Idle => j.new = job[h].new /\ j.alone = job[h].alone /\ j.step = "publish"
    BY <2>1 DEF Job
  <2> HIDE DEF j
  <2>4. \A i \in Ids : row'[i] = IF i \in job[h].new THEN [row[i] EXCEPT !.state = "committed"]
                                 ELSE row[i]
    BY <1>h DEF Commit, RowsAs
  <2>5. \A i \in job[h].new : i \in Ids /\ row[i] \in Row
    BY <2>1 DEF OwnRows, Job
  <2>6. \A i \in Ids : row'[i].type = row[i].type /\ row'[i].user = row[i].user
    BY <2>4, <2>5 DEF Row
  <2>7. Committed' \subseteq Committed \cup job[h].new
    BY <2>4 DEF Committed
  <2>8. j # Idle /\ j.alone => NothingTwice(h)
    BY <2>1, <2>3 DEF LoneMoveDay
  <2>9. j # Idle /\ j.alone => NothingTwice(h)'
    BY <2>2, <2>3, <2>5, <2>6, <2>7, <2>8 DEF NothingTwice, Committed
  <2> QED BY <1>e, <2>1, <2>2, <2>9
<1>i. ASSUME NEW h \in Handlers, Rollback(h)
      PROVE  LoneMoveDay'
  BY <1>e, <1>i DEF Rollback
<1>j. ASSUME NEW h \in Handlers, PublishCreated(h)
      PROVE  LoneMoveDay'
  <2>1. job[h] \in Job /\ InFlight(h)
    BY <1>j, BusyIsJob DEF PublishCreated, Doing
  <2> DEFINE j == [job[h] EXCEPT !.step = "push", !.new = {},
                                 !.due = {row[i].user : i \in job[h].new}]
  <2>2. j.new = {} /\ j.step = "push"
    BY <2>1 DEF Job
  <2>3. job' = [job EXCEPT ![h] = j] /\ job'[h] = j
    BY <1>j DEF PublishCreated, TypeOK
  <2> HIDE DEF j
  <2> QED BY <1>e, <2>1, <2>2, <2>3 DEF NothingTwice
<1>k. ASSUME NEW h \in Handlers, NEW u \in Users,
             CountUnread(h, u) \/ PushUnreadCount(h, u) \/ CountFails(h, u)
      PROVE  LoneMoveDay'
  <2>1. job[h] \in Job /\ InFlight(h) /\ job[h].new = {} /\ job[h].step = "push"
    BY <1>k, BusyIsJob DEF CountUnread, PushUnreadCount, CountFails, Doing, OwnRows
  <2>2. \A n : /\ [job[h] EXCEPT !.counted[u] = n].new = {}
               /\ [job[h] EXCEPT !.counted[u] = n].step = "push"
    BY <2>1 DEF Job
  <2>3. Without(h, u) # Idle => Without(h, u).new = {} /\ Without(h, u).step = "push"
    BY <2>1 DEF Job, Without
  <2>4. \E j : job' = [job EXCEPT ![h] = j] /\ (j # Idle => j.new = {} /\ j.step = "push")
    BY <1>k, <2>2, <2>3 DEF CountUnread, PushUnreadCount, CountFails
  <2> QED BY <1>e, <2>1, <2>4 DEF NothingTwice, TypeOK
<1>l. ASSUME NEW s \in Streams, Open(s) \/ FirstCount(s) \/ FirstSend(s) \/ Close(s)
      PROVE  LoneMoveDay'
  <2>1. row' = row /\ \A g \in Handlers : job'[g] \in {job[g], Spoiled(g)}
    BY <1>l DEF Open, FirstCount, FirstSend, Close, TypeOK
  <2>2. ASSUME NEW g \in Handlers, job'[g] # Idle, job'[g].alone
        PROVE  NothingTwice(g)'
    <3>1. job'[g] = job[g]
      BY <2>1, <2>2, BusyIsJob DEF Spoiled, Job, InFlight
    <3> QED BY <2>1, <2>2, <3>1
        DEF LoneMoveDay, NothingTwice, InFlight, HasMoveDay, Committed, Recipient
  <2> QED BY <2>2 DEF LoneMoveDay, InFlight
<1>m. CASE Crash
  BY <1>m DEF Crash, LoneMoveDay, InFlight
<1>n. CASE UNCHANGED vars
  BY <1>n DEF vars, LoneMoveDay, InFlight, NothingTwice, HasMoveDay, Committed, Recipient
<1> QED
  BY <1>a, <1>b, <1>d, <1>f, <1>g, <1>h, <1>i, <1>j, <1>k, <1>l, <1>m, <1>n,
     BoundAssumption DEF Next, HandlerStep

-----------------------------------------------------------------------------
(* The badge.  What a lone handler or a lone stream has counted is still   *)
(* true when it is sent, for every change of the table begins a handler    *)
(* or ends in one that is about to push.                                   *)
CountsFresh ==
  \A h \in Handlers : InFlight(h) =>
    /\ job[h].step # "push" => \A u \in Users : job[h].counted[u] = NoCount
    /\ job[h].step = "push" /\ job[h].alone =>
         \A u \in job[h].due : job[h].counted[u] \in {NoCount, UnreadCount(u)}

FirstFresh ==
  \A s \in Streams : stream[s].open /\ stream[s].alone /\ stream[s].first = "send" =>
    stream[s].counted = UnreadCount(StreamOf[s])

LEMMA UnreadSame ==
  ASSUME NEW u,
         \A i \in Ids :
           row'[i].state = "committed" /\ row'[i].user = u /\ ~row'[i].isRead <=>
           row[i].state = "committed" /\ row[i].user = u /\ ~row[i].isRead
  PROVE  UnreadCount(u)' = UnreadCount(u)
<1>1. {i \in RowsOf(u) : ~row[i].isRead}' = {i \in RowsOf(u) : ~row[i].isRead}
  BY DEF RowsOf, Committed
<1> QED BY <1>1 DEF UnreadCount

(* A handler that begins: either it finds nobody about to push, and leaves *)
(* the counts of all others than those it will push to, or it spoils all.  *)
LEMMA BadgeBegin ==
  ASSUME TypeOK, Lone', CountsFresh, BadgeExact,
         NEW h \in Handlers, NEW j \in Job, Begin(h, j), j.alone => ~Busy,
         \A u \in Users : j.counted[u] = NoCount,
         \A u \in Users : \/ UnreadCount(u)' = UnreadCount(u)
                          \/ j.step = "push" /\ u \in j.due
  PROVE  CountsFresh' /\ FirstFresh' /\ BadgeExact'
<1>0. ~InFlight(h) /\ job'[h] = j /\ job'[h] # Idle
      /\ \A g \in Handlers \ {h} : SameJob(g)
      /\ \A s \in Streams : SameStream(s)
  BY BeginFrame, JobIsBusy
<1>1. \A g \in Handlers \ {h} : job'[g] # Idle => ~job'[g].alone
  BY <1>0 DEF Lone, LoneHandler, InFlight
<1>2. CountsFresh'
  BY <1>0, <1>1 DEF CountsFresh, SameJob, InFlight, Job
<1>3. FirstFresh'
  BY <1>0 DEF FirstFresh, Lone, LoneStream, InFlight
<1>4. CASE Busy
  <2>1. \A s \in Streams : SpoiledStream(s).open => ~SpoiledStream(s).exact
    BY OpenIsOpen DEF SpoiledStream, OpenStream, Closed
  <2>2. \A s \in Streams : stream'[s].open => ~stream'[s].exact
    BY <1>4, <2>1 DEF Begin
  <2> QED BY <1>2, <1>3, <2>2 DEF BadgeExact
<1>5. CASE ~Busy
  <2>1. stream' = stream /\ \A g \in Handlers : ~InFlight(g)
    BY <1>5 DEF Begin, Busy
  <2>2. ASSUME NEW s \in Streams, stream'[s].open, stream'[s].exact,
               ~\E g \in Handlers : AboutToPush(g, StreamOf[s])'
        PROVE  stream'[s].badge = UnreadCount(StreamOf[s])'
    <3>1. stream[s].badge = UnreadCount(StreamOf[s])
      BY <2>1, <2>2 DEF BadgeExact, AboutToPush, Doing
    <3>2. ~(j.step = "push" /\ StreamOf[s] \in j.due)
      BY <1>0, <2>2 DEF AboutToPush, Doing, InFlight
    <3> QED BY <2>1, <3>1, <3>2, StreamAssumption
  <2>3. BadgeExact'
    BY <2>2 DEF BadgeExact
  <2> QED BY <1>2, <1>3, <2>3
<1> QED BY <1>4, <1>5

(* A step of one handler.                                                  *)
LEMMA BadgeFrame ==
  ASSUME TypeOK, Lone, Lone', CountsFresh, BadgeExact,
         NEW h \in Handlers, InFlight(h),
         \A g \in Handlers \ {h} : job'[g] = job[g],
         \A g \in Handlers \ {h} : InFlight(g) =>
           \A i \in job[g].new : row'[i].user = row[i].user,
         \A s \in Streams : stream'[s].open /\ stream'[s].alone =>
           stream[s].open /\ stream[s].alone,
         job'[h] # Idle =>
           /\ job'[h].step # "push" => \A u \in Users : job'[h].counted[u] = NoCount
           /\ job'[h].step = "push" /\ job'[h].alone =>
                \A u \in job'[h].due : job'[h].counted[u] \in {NoCount, UnreadCount(u)'},
         \A s \in Streams : stream'[s].open /\ stream'[s].exact =>
           \/ AboutToPush(h, StreamOf[s])'
           \/ stream'[s].badge = UnreadCount(StreamOf[s])'
           \/ /\ stream[s].open /\ stream[s].exact /\ stream'[s].badge = stream[s].badge
              /\ UnreadCount(StreamOf[s])' = UnreadCount(StreamOf[s])
              /\ ~AboutToPush(h, StreamOf[s])
  PROVE  CountsFresh' /\ FirstFresh' /\ BadgeExact'
<1>1. FirstFresh'
  BY DEF FirstFresh, Lone, LoneStream
<1>2. \A g \in Handlers \ {h} : job'[g] # Idle => ~job'[g].alone
  BY DEF Lone, LoneHandler, InFlight
<1>3. CountsFresh'
  BY <1>2 DEF CountsFresh, InFlight
<1>4. ASSUME NEW s \in Streams, stream'[s].open, stream'[s].exact,
             ~\E g \in Handlers : AboutToPush(g, StreamOf[s])'
      PROVE  stream'[s].badge = UnreadCount(StreamOf[s])'
  <2>1. CASE /\ stream[s].open /\ stream[s].exact /\ stream'[s].badge = stream[s].badge
             /\ UnreadCount(StreamOf[s])' = UnreadCount(StreamOf[s])
             /\ ~AboutToPush(h, StreamOf[s])
    <3>1. \A g \in Handlers \ {h} : ~AboutToPush(g, StreamOf[s])
      BY <1>4 DEF AboutToPush, Doing, InFlight
    <3> QED BY <2>1, <3>1 DEF BadgeExact
  <2> QED BY <1>4, <2>1
<1> QED BY <1>1, <1>3, <1>4 DEF BadgeExact

LEMMA BadgeStep ==
  ASSUME TypeOK, OwnRows, Lone, Lone', CountsFresh, FirstFresh, BadgeExact, [Next]_vars
  PROVE  CountsFresh' /\ FirstFresh' /\ BadgeExact'
<1> DEFINE Goal == CountsFresh' /\ FirstFresh' /\ BadgeExact'
<1>a. ASSUME NEW h \in Handlers, NEW us \in SUBSET Users, Notify(h, us)
      PROVE  Goal
  <2> DEFINE ids == FreshIds(Cardinality(us))
  <2>1. ids \in SUBSET Ids /\ \A i \in ids : row[i] = Unused
    BY DEF FreshIds
  <2>2. PICK f \in [ids -> us] :
          row' = [i \in Ids |-> IF i \in ids THEN Insert(i, f[i], "OTHER") ELSE row[i]]
    BY <1>a DEF Notify
  <2>3. \A i \in ids : row'[i] = Insert(i, f[i], "OTHER")
    BY <2>1, <2>2
  <2>4. \A i, u : Insert(i, u, "OTHER").state = "written"
    BY DEF Insert
  <2> HIDE DEF ids
  <2>5. \A u : UnreadCount(u)' = UnreadCount(u)
    <3>1. \A i \in Ids : row'[i] = row[i] \/ (row[i].state = "unused" /\ row'[i].state = "written")
      BY <2>1, <2>2, <2>3, <2>4 DEF Unused
    <3> QED BY <3>1, UnreadSame
  <2> DEFINE j == NewJob("write", ids)
  <2>6. j \in Job /\ (j.alone => ~Busy) /\ \A u \in Users : j.counted[u] = NoCount
    BY <2>1, NewJobType, NewJobAlone DEF NewJob
  <2>7. Begin(h, j)
    BY <1>a DEF Notify, ids
  <2> HIDE DEF j
  <2> QED BY <2>5, <2>6, <2>7, BadgeBegin
<1>b. ASSUME NEW h \in Handlers, NotifyMoveDay(h)
      PROVE  Goal
  <2>1. \A u : UnreadCount(u)' = UnreadCount(u)
    BY <1>b, UnreadSame DEF NotifyMoveDay
  <2> DEFINE j == NewJob("check", {})
  <2>2. j \in Job /\ (j.alone => ~Busy) /\ \A u \in Users : j.counted[u] = NoCount
    BY NewJobType, NewJobAlone DEF NewJob
  <2>3. Begin(h, j)
    BY <1>b DEF NotifyMoveDay
  <2> HIDE DEF j
  <2> QED BY <2>1, <2>2, <2>3, BadgeBegin
<1>c. ASSUME NEW h \in Handlers, NEW u \in Users, NEW ids \in SUBSET RowsOf(u), Read(h, u, ids)
      PROVE  Goal
  <2> DEFINE j == [NewJob("push", {}) EXCEPT !.due = {u}]
  <2>1. /\ j \in Job /\ (j.alone => ~Busy) /\ \A v \in Users : j.counted[v] = NoCount
        /\ j.step = "push" /\ u \in j.due
    BY NewJobType, NewJobAlone DEF NewJob
  <2>2. Begin(h, j)
    BY <1>c DEF Read
  <2>3. ASSUME NEW v \in Users, v # u
        PROVE  UnreadCount(v)' = UnreadCount(v)
    <3>1. \A i \in Ids : \/ row'[i] = row[i]
                         \/ /\ row[i].user = u /\ row[i] \in Row
                            /\ row'[i] = [row[i] EXCEPT !.isRead = TRUE]
      BY <1>c, RowKinds DEF Read, MarkedRead, RowsOf, Committed
    <3>2. \A i \in Ids : row'[i] = row[i] \/ (row[i].user = u /\ row'[i].user = u)
      BY <3>1 DEF Row
    <3> QED BY <2>3, <3>2, UnreadSame
  <2> HIDE DEF j
  <2> QED BY <2>1, <2>2, <2>3, BadgeBegin
<1>d. ASSUME NEW h \in Handlers, NEW u \in Users,
             ReadNotification(h, u) \/ ReadAllNotifications(h, u)
      PROVE  Goal
  <2>1. CASE ReadNotification(h, u)
    BY <1>c, <2>1 DEF ReadNotification
  <2>2. CASE ReadAllNotifications(h, u)
    BY <1>c, <2>2 DEF ReadAllNotifications
  <2> QED BY <1>d, <2>1, <2>2
(* A handler that neither is nor comes about to push.                      *)
<1>e. ASSUME NEW h \in Handlers, NEW j, InFlight(h), job' = [job EXCEPT ![h] = j],
             job[h].step \in {"write", "check", "insert"}, stream' = stream,
             j # Idle => /\ j.step \in {"write", "check", "insert", "publish"}
                         /\ j.counted = job[h].counted,
             \A g \in Handlers \ {h} : InFlight(g) =>
               \A i \in job[g].new : row'[i].user = row[i].user,
             \A u \in Users : \/ UnreadCount(u)' = UnreadCount(u)
                              \/ AboutToPush(h, u)'
      PROVE  Goal
  <2>1. job'[h] = j /\ \A g \in Handlers \ {h} : job'[g] = job[g]
    BY <1>e DEF TypeOK
  <2>2. \A u : ~AboutToPush(h, u)
    BY <1>e DEF AboutToPush, Doing
  <2>3. j # Idle => \A u \in Users : j.counted[u] = NoCount
    BY <1>e DEF CountsFresh
  <2> QED BY <1>e, <2>1, <2>2, <2>3, StreamAssumption, BadgeFrame
<1>f. ASSUME NEW h \in Handlers, CheckMoveDay(h)
      PROVE  Goal
  <2>1. job[h] \in Job /\ InFlight(h) /\ job[h].step = "check" /\ row' = row /\ stream' = stream
    BY <1>f, BusyIsJob DEF CheckMoveDay, Doing
  <2> DEFINE j == IF HasMoveDay(h) THEN NextRecipient(h) ELSE [job[h] EXCEPT !.step = "insert"]
  <2>2. job' = [job EXCEPT ![h] = j]
    BY <1>f DEF CheckMoveDay
  <2>3. j.step \in {"write", "check", "insert", "publish"} /\ j.counted = job[h].counted
    BY <2>1 DEF NextRecipient, Job
  <2>4. \A u : UnreadCount(u)' = UnreadCount(u)
    BY <2>1, UnreadSame
  <2> HIDE DEF j
  <2> QED BY <1>e, <2>1, <2>2, <2>3, <2>4
<1>g. ASSUME NEW h \in Handlers, InsertMoveDay(h)
      PROVE  Goal
  <2>1. job[h] \in Job /\ InFlight(h) /\ job[h].step = "insert" /\ stream' = stream
    BY <1>g, BusyIsJob DEF InsertMoveDay, Doing
  <2>2. PICK i \in FreshIds(1) :
          /\ row' = [row EXCEPT ![i] = Insert(i, Recipient(h), "MOVE_DAY")]
          /\ job' = [job EXCEPT ![h] = [NextRecipient(h) EXCEPT !.new = @ \cup {i}]]
    BY <1>g DEF InsertMoveDay
  <2> DEFINE j == [NextRecipient(h) EXCEPT !.new = @ \cup {i}]
  <2>3. j.step \in {"write", "check", "insert", "publish"} /\ j.counted = job[h].counted
    BY <2>1 DEF NextRecipient, Job
  <2>4. i \in Ids /\ row[i].state = "unused" /\ row[i] \notin Row
    BY DEF FreshIds, Unused, Row
  <2>5. row'[i].state = "written" /\ \A k \in Ids \ {i} : row'[k] = row[k]
    BY <2>2, <2>4 DEF TypeOK, Insert
  <2>6. \A u : UnreadCount(u)' = UnreadCount(u)
    BY <2>4, <2>5, UnreadSame
  <2>7. \A g \in Handlers : InFlight(g) => \A k \in job[g].new : row'[k].user = row[k].user
    BY <2>4, <2>5, BusyIsJob DEF OwnRows, Job
  <2>8. job' = [job EXCEPT ![h] = j]
    BY <2>2
  <2> HIDE DEF j
  <2> QED BY <1>e, <2>1, <2>3, <2>6, <2>7, <2>8
<1>h. ASSUME NEW h \in Handlers, Rollback(h)
      PROVE  Goal
  <2>1. /\ InFlight(h) /\ job[h].step \in {"write", "check", "insert"}
        /\ stream' = stream /\ job' = [job EXCEPT ![h] = Idle]
    BY <1>h DEF Rollback
  <2>2. \A i \in job[h].new : row[i].state = "written"
    BY <2>1 DEF OwnRows, NewState
  <2>3. \A i \in Ids : row'[i] = row[i] \/ (row[i].state = "written" /\ row'[i].state = "unused")
    BY <1>h, <2>2 DEF Rollback, Unused
  <2>4. \A u : UnreadCount(u)' = UnreadCount(u)
    BY <2>3, UnreadSame
  <2>5. \A g \in Handlers \ {h} : InFlight(g) =>
          \A i \in job[g].new : row'[i].user = row[i].user
    BY <1>h, <2>1, BusyIsJob DEF Rollback, OwnRows, Job
  <2> QED BY <1>e, <2>1, <2>4, <2>5
<1>i. ASSUME NEW h \in Handlers, Commit(h)
      PROVE  Goal
  <2>1. job[h] \in Job /\ InFlight(h) /\ job[h].step = "write" /\ stream' = stream
    BY <1>i, BusyIsJob DEF Commit, Doing
  <2> DEFINE j == IF job[h].new = {} THEN Idle ELSE [job[h] EXCEPT !.step = "publish"]
  <2>2. job' = [job EXCEPT ![h] = j] /\ job'[h] = j
    BY <1>i DEF Commit, TypeOK
  <2>3. j # Idle => j.new = job[h].new /\ j.counted = job[h].counted /\ j.step = "publish"
    BY <2>1 DEF Job
  <2>4. job[h].new # {} => j # Idle
    BY <2>1, JobIsBusy DEF Job
  <2> HIDE DEF j
  <2>5. \A i \in Ids : row'[i] = IF i \in job[h].new THEN [row[i] EXCEPT !.state = "committed"]
                                 ELSE row[i]
    BY <1>i DEF Commit, RowsAs
  <2>6. \A i \in job[h].new : i \in Ids /\ row[i] \in Row
    BY <2>1 DEF OwnRows, Job
  <2>7. \A i \in Ids : row'[i].user = row[i].user
    BY <2>5, <2>6 DEF Row
  <2>8. ASSUME NEW u \in Users, ~AboutToPush(h, u)'
        PROVE  UnreadCount(u)' = UnreadCount(u)
    <3>1. \A i \in job[h].new : row'[i].user # u
      BY <2>2, <2>3, <2>4, <2>8 DEF AboutToPush, Doing, InFlight
    <3>2. \A i \in Ids : row'[i] = row[i] \/ (row[i].user # u /\ row'[i].user # u)
      BY <2>5, <2>7, <3>1
    <3> QED BY <3>2, UnreadSame
  <2>9. \A g \in Handlers \ {h} : InFlight(g) =>
          \A i \in job[g].new : row'[i].user = row[i].user
    BY <2>7, BusyIsJob DEF Job
  <2> QED BY <1>e, <2>1, <2>2, <2>3, <2>8, <2>9
<1>j. ASSUME NEW h \in Handlers, PublishCreated(h)
      PROVE  Goal
  <2>1. job[h] \in Job /\ InFlight(h) /\ job[h].step = "publish" /\ row' = row
    BY <1>j, BusyIsJob DEF PublishCreated, Doing
  <2> DEFINE j == [job[h] EXCEPT !.step = "push", !.new = {},
                                 !.due = {row[i].user : i \in job[h].new}]
  <2>2. job'[h] = j /\ \A g \in Handlers \ {h} : job'[g] = job[g]
    BY <1>j DEF PublishCreated, TypeOK
  <2>3. j.step = "push" /\ j.due = {row[i].user : i \in job[h].new} /\ j.counted = job[h].counted
    BY <2>1 DEF Job
  <2>4. j \in Job
    <3>1. {row[i].user : i \in job[h].new} \subseteq Users
      BY <2>1 DEF OwnRows, Row
    <3> QED BY <2>1, <3>1 DEF Job
  <2> HIDE DEF j
  <2>5. \A u : AboutToPush(h, u)' <=> AboutToPush(h, u)
    BY <2>1, <2>2, <2>3, <2>4, JobIsBusy DEF AboutToPush, Doing, InFlight
  <2>6. \A u \in Users : j.counted[u] = NoCount
    BY <2>1, <2>3 DEF CountsFresh
  <2>7. \A u : UnreadCount(u)' = UnreadCount(u)
    BY <2>1, UnreadSame
  <2>8. \A s \in Streams : stream'[s].open =>
          /\ stream[s].open /\ stream'[s].alone = stream[s].alone
          /\ stream'[s].exact = stream[s].exact /\ stream'[s].badge = stream[s].badge
    <3> SUFFICES ASSUME NEW s \in Streams, stream'[s].open
                 PROVE  /\ stream[s].open /\ stream'[s].alone = stream[s].alone
                        /\ stream'[s].exact = stream[s].exact
                        /\ stream'[s].badge = stream[s].badge
      OBVIOUS
    <3>1. stream[s].open
      BY <1>j DEF PublishCreated
    <3>2. stream'[s] = [stream[s] EXCEPT !.known = @ \cup PublishedTo(s, h)]
      BY <1>j, <3>1 DEF PublishCreated
    <3> QED BY <3>1, <3>2, OpenIsOpen DEF OpenStream
  <2>9. j.due \subseteq Users
    BY <2>4 DEF Job
  <2> QED BY <2>1, <2>2, <2>3, <2>5, <2>6, <2>7, <2>8, <2>9, BadgeFrame
<1>k. ASSUME NEW h \in Handlers, NEW u \in Users, CountUnread(h, u)
      PROVE  Goal
  <2>1. /\ job[h] \in Job /\ InFlight(h) /\ job[h].step = "push"
        /\ row' = row /\ stream' = stream
    BY <1>k, BusyIsJob DEF CountUnread, Doing
  <2> DEFINE n == UnreadCount(u)
  <2> HIDE DEF n
  <2> DEFINE j == [job[h] EXCEPT !.counted[u] = n]
  <2>2. job'[h] = j /\ \A g \in Handlers \ {h} : job'[g] = job[g]
    BY <1>k DEF CountUnread, TypeOK, n
  <2>3. \A v : UnreadCount(v)' = UnreadCount(v)
    BY <2>1, UnreadSame
  <2>4. /\ j.step = "push" /\ j.due = job[h].due /\ j.alone = job[h].alone
        /\ j.due \subseteq Users
        /\ \A v \in Users : j.counted[v] = IF v = u THEN n ELSE job[h].counted[v]
        /\ j \in Job \/ n \notin Counts
    BY <2>1 DEF Job
  <2>5. j # Idle
    <3>1. j.new = job[h].new /\ "new" \in DOMAIN j /\ "new" \notin DOMAIN Idle
      BY <2>1 DEF Job, Idle
    <3> QED BY <3>1
  <2> HIDE DEF j
  <2>6. \A v : AboutToPush(h, v)' <=> AboutToPush(h, v)
    BY <2>1, <2>2, <2>4, <2>5 DEF AboutToPush, Doing, InFlight
  <2>7. j.alone => \A v \in j.due : j.counted[v] \in {NoCount, UnreadCount(v)'}
    <3>1. job[h].alone => \A v \in job[h].due : job[h].counted[v] \in {NoCount, UnreadCount(v)}
      BY <2>1 DEF CountsFresh
    <3> QED BY <2>3, <2>4, <3>1 DEF n
  <2> QED BY <2>1, <2>2, <2>3, <2>4, <2>6, <2>7, BadgeFrame
(* One user fewer to push to.                                              *)
<1>l. ASSUME NEW h \in Handlers, Doing(h, "push"), NEW u \in job[h].due,
             job' = [job EXCEPT ![h] = Without(h, u)], row' = row,
             \A s \in Streams : stream'[s].open =>
               /\ stream[s].open /\ stream'[s].alone = stream[s].alone
               /\ StreamOf[s] # u => stream'[s] = stream[s]
               /\ StreamOf[s] = u /\ stream'[s].exact =>
                    stream'[s].badge = UnreadCount(u)
      PROVE  Goal
  <2>1. job[h] \in Job /\ InFlight(h) /\ job[h].step = "push"
    BY <1>l, BusyIsJob DEF Doing
  <2> DEFINE j == Without(h, u)
  <2>2. job'[h] = j /\ \A g \in Handlers \ {h} : job'[g] = job[g]
    BY <1>l DEF TypeOK
  <2>3. \A v : UnreadCount(v)' = UnreadCount(v)
    BY <1>l, UnreadSame
  <2>4. j # Idle =>
        /\ j.step = "push" /\ j.due = job[h].due \ {u} /\ j.alone = job[h].alone
        /\ \A v \in Users \ {u} : j.counted[v] = job[h].counted[v]
    BY <2>1 DEF Without, Job
  <2>5. job[h].due \subseteq Users
    BY <2>1 DEF Job
  <2>6. j = Idle => job[h].due = {u}
    <3>1. [job[h] EXCEPT !.due = @ \ {u}, !.counted[u] = NoCount] # Idle
      <4>1. [job[h] EXCEPT !.due = @ \ {u}, !.counted[u] = NoCount] \in Job
        BY <2>1 DEF Job
      <4> QED BY <4>1, JobIsBusy
    <3> QED BY <3>1 DEF Without
  <2> HIDE DEF j
  <2>7. \A v : v # u => (AboutToPush(h, v)' <=> AboutToPush(h, v))
    BY <2>1, <2>2, <2>4, <2>6 DEF AboutToPush, Doing, InFlight
  <2>8. j # Idle /\ j.alone => \A v \in j.due : j.counted[v] \in {NoCount, UnreadCount(v)'}
    BY <2>1, <2>3, <2>4, <2>5 DEF CountsFresh
  <2>9. \A s \in Streams : stream'[s].open /\ stream'[s].exact =>
           \/ AboutToPush(h, StreamOf[s])'
           \/ stream'[s].badge = UnreadCount(StreamOf[s])'
           \/ /\ stream[s].open /\ stream[s].exact /\ stream'[s].badge = stream[s].badge
              /\ UnreadCount(StreamOf[s])' = UnreadCount(StreamOf[s])
              /\ ~AboutToPush(h, StreamOf[s])
    BY <1>l, <2>3, <2>7
  <2>10. \A s \in Streams : stream'[s].open /\ stream'[s].alone =>
           stream[s].open /\ stream[s].alone
    BY <1>l
  <2> QED BY <1>l, <2>1, <2>2, <2>4, <2>8, <2>9, <2>10, BadgeFrame
<1>m. ASSUME NEW h \in Handlers, NEW u \in Users, PushUnreadCount(h, u)
      PROVE  Goal
  <2>1. /\ Doing(h, "push") /\ u \in job[h].due /\ job[h].counted[u] # NoCount
        /\ job' = [job EXCEPT ![h] = Without(h, u)] /\ row' = row
    BY <1>m DEF PushUnreadCount
  <2> DEFINE b == job[h].counted[u]
             e == job[h].alone
  <2>2. e => b = UnreadCount(u)
    BY <2>1 DEF CountsFresh, Doing
  <2>3. \A s \in Streams : stream'[s] = IF stream[s].open /\ StreamOf[s] = u
                                        THEN [stream[s] EXCEPT !.badge = b, !.exact = e]
                                        ELSE stream[s]
    BY <1>m DEF PushUnreadCount, Receivers
  <2> HIDE DEF b, e
  <2>4. ASSUME NEW s \in Streams, stream'[s].open
        PROVE  /\ stream[s].open /\ stream'[s].alone = stream[s].alone
               /\ StreamOf[s] # u => stream'[s] = stream[s]
               /\ StreamOf[s] = u /\ stream'[s].exact => stream'[s].badge = UnreadCount(u)
    <3>1. stream[s].open
      BY <2>3, <2>4
    <3>2. stream[s] \in OpenStream
      BY <3>1, OpenIsOpen
    <3> QED BY <2>2, <2>3, <3>1, <3>2 DEF OpenStream
  <2> QED BY <1>l, <2>1, <2>4
<1>n. ASSUME NEW h \in Handlers, NEW u \in Users, CountFails(h, u)
      PROVE  Goal
  <2>1. /\ Doing(h, "push") /\ u \in job[h].due
        /\ job' = [job EXCEPT ![h] = Without(h, u)] /\ row' = row
    BY <1>n DEF CountFails
  <2>2. \A s \in Streams : stream'[s] = IF stream[s].open /\ StreamOf[s] = u
                                        THEN [stream[s] EXCEPT !.exact = FALSE]
                                        ELSE stream[s]
    BY <1>n DEF CountFails, Receivers
  <2>3. ASSUME NEW s \in Streams, stream'[s].open
        PROVE  /\ stream[s].open /\ stream'[s].alone = stream[s].alone
               /\ StreamOf[s] # u => stream'[s] = stream[s]
               /\ StreamOf[s] = u /\ stream'[s].exact => stream'[s].badge = UnreadCount(u)
    <3>1. stream[s].open
      BY <2>2, <2>3
    <3>2. stream[s] \in OpenStream
      BY <3>1, OpenIsOpen
    <3> QED BY <2>2, <3>1, <3>2 DEF OpenStream
  <2> QED BY <1>l, <2>1, <2>3
(* Steps of one stream.                                                    *)
<1>o. ASSUME NEW s \in Streams, row' = row, job' = job,
             \A t \in Streams \ {s} : stream'[t] = stream[t],
             stream'[s].open =>
               /\ stream'[s].alone /\ stream'[s].first = "send" =>
                    stream'[s].counted = UnreadCount(StreamOf[s])
               /\ stream'[s].exact =>
                    \/ stream'[s].badge = UnreadCount(StreamOf[s])
                    \/ stream[s].open /\ stream[s].exact /\ stream'[s].badge = stream[s].badge
      PROVE  Goal
  <2>1. \A u : UnreadCount(u)' = UnreadCount(u)
    BY <1>o, UnreadSame
  <2>2. \A h \in Handlers, u \in Users : AboutToPush(h, u)' <=> AboutToPush(h, u)
    BY <1>o DEF AboutToPush, Doing, InFlight
  <2>3. CountsFresh'
    BY <1>o, <2>1 DEF CountsFresh, InFlight
  <2>4. FirstFresh'
    BY <1>o, <2>1 DEF FirstFresh
  <2>5. BadgeExact'
    BY <1>o, <2>1, <2>2, StreamAssumption DEF BadgeExact
  <2> QED BY <2>3, <2>4, <2>5
<1>p. ASSUME NEW s \in Streams, FirstCount(s) \/ FirstSend(s) \/ Close(s)
      PROVE  Goal
  <2>1. stream[s] \in OpenStream
    BY <1>p, OpenIsOpen DEF FirstCount, FirstSend, Close
  <2>2. row' = row /\ job' = job /\ \A t \in Streams \ {s} : stream'[t] = stream[t]
    BY <1>p DEF FirstCount, FirstSend, Close, TypeOK
  <2>3. CASE FirstCount(s)
    <3> DEFINE n == UnreadCount(StreamOf[s])
    <3> HIDE DEF n
    <3>1. stream'[s] = [stream[s] EXCEPT !.first = "send", !.counted = n]
      BY <2>3 DEF FirstCount, TypeOK, n
    <3>2. /\ stream'[s].counted = n /\ stream'[s].exact = stream[s].exact
          /\ stream'[s].badge = stream[s].badge /\ stream[s].open
      BY <2>1, <3>1 DEF OpenStream
    <3> QED BY <1>o, <2>2, <3>2 DEF n
  <2>4. CASE FirstSend(s)
    <3>1. /\ stream'[s].first = "sent" /\ stream'[s].badge = stream[s].counted
          /\ stream'[s].exact = stream[s].alone
      BY <2>1, <2>4 DEF FirstSend, TypeOK, OpenStream
    <3>2. stream[s].alone => stream[s].counted = UnreadCount(StreamOf[s])
      BY <2>4 DEF FirstSend, FirstFresh
    <3> QED BY <1>o, <2>2, <3>1, <3>2
  <2>5. CASE Close(s)
    BY <1>o, <2>2, <2>5 DEF Close, TypeOK, Closed
  <2> QED BY <1>p, <2>3, <2>4, <2>5
<1>q. ASSUME NEW s \in Streams, Open(s)
      PROVE  Goal
  <2>1. stream'[s] = OpenOf(s) /\ row' = row
    BY <1>q DEF Open, TypeOK
  <2>2. stream'[s].first = "count" /\ ~stream'[s].exact
    BY <2>1 DEF OpenOf
  <2>3. CASE ~Busy
    <3>1. job' = job /\ \A t \in Streams \ {s} : stream'[t] = stream[t]
      BY <1>q, <2>3 DEF Open, TypeOK
    <3> QED BY <1>o, <2>1, <2>2, <3>1
  <2>4. CASE Busy
    <3>1. job' = [h \in Handlers |-> Spoiled(h)]
          /\ \A t \in Streams \ {s} : stream'[t] = SpoiledStream(t)
      BY <1>q, <2>4 DEF Open, TypeOK
    <3>2. \A t \in Streams \ {s} : stream'[t].open => ~stream'[t].exact /\ ~stream'[t].alone
      BY <3>1, OpenIsOpen DEF SpoiledStream, OpenStream, Closed
    <3>3. \A h \in Handlers : SameJob(h) /\ (job'[h] # Idle => ~job'[h].alone)
      <4>1. \A h \in Handlers : Spoiled(h) # Idle => ~Spoiled(h).alone
        BY BusyIsJob DEF Spoiled, Job
      <4> QED BY <3>1, <4>1, SpoiledSame
    <3>4. CountsFresh'
      BY <3>3 DEF CountsFresh, SameJob, InFlight
    <3>5. FirstFresh' /\ BadgeExact'
      BY <2>2, <3>2 DEF FirstFresh, BadgeExact
    <3> QED BY <3>4, <3>5
  <2> QED BY <2>3, <2>4
<1>r. CASE Crash
  BY <1>r DEF Crash, Closed, CountsFresh, FirstFresh, BadgeExact, InFlight
<1>s. CASE UNCHANGED vars
  <2>1. \A u : UnreadCount(u)' = UnreadCount(u)
    BY <1>s, UnreadSame DEF vars
  <2> QED BY <1>s, <2>1 DEF vars, CountsFresh, FirstFresh, BadgeExact, InFlight, AboutToPush, Doing
<1> QED
  BY <1>a, <1>b, <1>d, <1>f, <1>g, <1>h, <1>i, <1>j, <1>k, <1>m, <1>n, <1>p, <1>q, <1>r, <1>s,
     BoundAssumption DEF Next, HandlerStep

-----------------------------------------------------------------------------
Inv ==
  /\ FeedInv
  /\ Lone /\ LoneMoveDay
  /\ CountsFresh /\ FirstFresh /\ BadgeExact

LEMMA Inductive == Spec => []Inv
<1>1. Init => Inv
  BY DEF Init, Inv, FeedInv, TypeOK, OwnRows, NoGhost, FeedComplete, Lone, LoneHandler,
         LoneStream, LoneMoveDay, CountsFresh, FirstFresh, BadgeExact, InFlight, Idle, Closed
<1>2. Inv /\ [Next]_vars => Inv'
  <2> SUFFICES ASSUME Inv, [Next]_vars
               PROVE  Inv'
    OBVIOUS
  <2>1. FeedInv'
    BY TypeStep, OwnStep, FeedStep DEF Inv, FeedInv
  <2>2. Lone'
    BY LoneStep DEF Inv, FeedInv
  <2>3. LoneMoveDay'
    BY <2>2, MoveDayStep DEF Inv, FeedInv, Lone
  <2>4. CountsFresh' /\ FirstFresh' /\ BadgeExact'
    BY <2>2, BadgeStep DEF Inv, FeedInv
  <2> QED BY <2>1, <2>2, <2>3, <2>4 DEF Inv
<1> QED BY <1>1, <1>2, PTL DEF Spec

(* Every state of Notification is well typed.                              *)
THEOREM TypeCorrect == Spec => []TypeOK
BY Inductive, PTL DEF Inv, FeedInv

(* No stream is ever sent a row that is not in the table for good.         *)
THEOREM NoGhosts == Spec => []NoGhost
BY Inductive, PTL DEF Inv, FeedInv

(* Whatever overlaps, no stream misses a row that is committed while it is *)
(* open.                                                                   *)
THEOREM FeedIsComplete == Spec => []FeedComplete
BY Inductive, PTL DEF Inv, FeedInv

(* A getActive that overlaps no other handler writes no second MOVE_DAY.   *)
THEOREM MoveDayIsOnce == Spec => []MoveDayOnce
<1>1. LoneMoveDay => MoveDayOnce
  BY DEF LoneMoveDay, MoveDayOnce, NothingTwice
<1> QED BY Inductive, <1>1, PTL DEF Inv

(* A badge sent by a handler or a stream that was alone is exact as long   *)
(* as nobody is about to push another.                                     *)
THEOREM BadgeIsExact == Spec => []BadgeExact
BY Inductive, PTL DEF Inv
=============================================================================
