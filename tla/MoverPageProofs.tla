---------------------------- MODULE MoverPageProofs ----------------------------
(***************************************************************************)
(* Theorems about MoverPage, for any movers, pages of any size, any number *)
(* of handlers and any budgets.                                            *)
(***************************************************************************)
EXTENDS MoverPageProperties, FiniteSetTheorems, TLAPS

-----------------------------------------------------------------------------
(* The list.  The movers stand in a strict total order, and a page takes   *)
(* the next of them without a gap.                                         *)
LEMMA BeforeIsTotal ==
  ASSUME NEW r \in [Movers -> Nat]
  PROVE  /\ \A m \in Movers : ~Before(r, m, m)
         /\ \A m, n \in Movers : m # n => Before(r, m, n) \/ Before(r, n, m)
         /\ \A l, m, n \in Movers : Before(r, l, m) /\ Before(r, m, n) => Before(r, l, n)
<1>1. Movers \subseteq Nat
  BY ListAssumption
<1> QED BY <1>1 DEF Before

LEMMA Positions ==
  ASSUME NEW r \in [Movers -> Nat], NEW R \in SUBSET Movers
  PROVE  /\ IsFiniteSet(R) /\ Cardinality(R) \in Nat
         /\ \A m \in R : Position(R, r, m) \in 0..(Cardinality(R) - 1)
         /\ \A m, n \in R : Before(r, m, n) => Position(R, r, m) < Position(R, r, n)
<1> DEFINE Ahead(m) == {n \in R : Before(r, n, m)}
<1>1. IsFiniteSet(R) /\ Cardinality(R) \in Nat
  BY ListAssumption, FS_Subset, FS_CardinalityType
<1>2. ASSUME NEW m \in R
      PROVE  /\ IsFiniteSet(Ahead(m)) /\ Cardinality(Ahead(m)) \in Nat
             /\ Cardinality(Ahead(m)) <= Cardinality(R)
             /\ Cardinality(R) = Cardinality(Ahead(m)) => R = Ahead(m)
  <2>1. Ahead(m) \in SUBSET R
    OBVIOUS
  <2> HIDE DEF Ahead
  <2> QED BY <1>1, <2>1, FS_Subset, FS_CardinalityType
<1>3. ASSUME NEW m \in R
      PROVE  Position(R, r, m) \in 0..(Cardinality(R) - 1)
  <2>1. m \in Movers /\ m \notin Ahead(m)
    BY BeforeIsTotal
  <2>2. Cardinality(Ahead(m)) # Cardinality(R)
    BY <1>2, <2>1
  <2>3. Position(R, r, m) = Cardinality(Ahead(m))
    BY DEF Position
  <2> HIDE DEF Ahead
  <2> QED BY <1>1, <1>2, <2>2, <2>3
<1>4. ASSUME NEW m \in R, NEW n \in R, Before(r, m, n)
      PROVE  Position(R, r, m) < Position(R, r, n)
  <2>1. Ahead(m) \in SUBSET Ahead(n)
    BY <1>4, BeforeIsTotal
  <2>2. m \in Ahead(n) /\ m \notin Ahead(m)
    BY <1>4, BeforeIsTotal
  <2>3. /\ Cardinality(Ahead(m)) <= Cardinality(Ahead(n))
        /\ Cardinality(Ahead(n)) = Cardinality(Ahead(m)) => Ahead(n) = Ahead(m)
    <3> HIDE DEF Ahead
    <3> QED BY <1>2, <2>1, FS_Subset
  <2>4. Position(R, r, m) = Cardinality(Ahead(m)) /\ Position(R, r, n) = Cardinality(Ahead(n))
    BY DEF Position
  <2> HIDE DEF Ahead
  <2> QED BY <1>2, <2>2, <2>3, <2>4
<1> QED BY <1>1, <1>3, <1>4

(* Every position up to the number of rows is taken.                       *)
LEMMA EveryPositionIsTaken ==
  ASSUME NEW r \in [Movers -> Nat], NEW R \in SUBSET Movers,
         NEW i \in 0..(Cardinality(R) - 1)
  PROVE  \E m \in R : Position(R, r, m) = i
<1> DEFINE T == 0..(Cardinality(R) - 1)
           p == [m \in R |-> Position(R, r, m)]
<1>1. IsFiniteSet(R) /\ Cardinality(R) \in Nat
  BY Positions
<1>2. p \in [R -> T]
  BY Positions
<1>3. \A m, n \in R : p[m] = p[n] => m = n
  <2> SUFFICES ASSUME NEW m \in R, NEW n \in R, m # n
               PROVE  p[m] # p[n]
    OBVIOUS
  <2>1. Before(r, m, n) \/ Before(r, n, m)
    BY BeforeIsTotal
  <2>2. p[m] < p[n] \/ p[n] < p[m]
    BY <2>1, Positions
  <2>3. p[m] \in Int /\ p[n] \in Int
    BY <1>1, <1>2
  <2> HIDE DEF p
  <2> QED BY <2>2, <2>3
<1>4. IsFiniteSet(T) /\ Cardinality(T) = Cardinality(R)
  BY <1>1, FS_Interval
<1> HIDE DEF p, T
<1>5. p \in Injection(R, T)
  BY <1>2, <1>3 DEF Injection, IsInjective
<1>6. p \in Surjection(R, T)
  BY <1>4, <1>5, FS_Injection
<1>7. \E m \in R : p[m] = i
  BY <1>6 DEF T, Surjection
<1> QED BY <1>7 DEF p

(* A page shows the first rows, the last of which is the next cursor; the  *)
(* rows that it does not show come after.                                  *)
LEMMA PageHasNoGap ==
  ASSUME NEW r \in [Movers -> Nat], NEW l \in SUBSET Movers, NEW k \in Cursors
  PROVE  LET page == PageAt(l, r, k)
             left == RowsAfter(l, r, k)
         IN  /\ page \in Page /\ page.shown \subseteq left /\ left \subseteq l
             /\ page.next = Done => page.shown = left
             /\ page.next # Done =>
                  /\ page.next \in page.shown
                  /\ \A m \in page.shown : m = page.next \/ Before(r, m, page.next)
                  /\ \A m \in left \ page.shown : Before(r, page.next, m)
<1> DEFINE R == RowsAfter(l, r, k)
           items == {m \in R : Position(R, r, m) < Size}
           next == CHOOSE m \in items : Position(R, r, m) = Size - 1
<1>1. R \in SUBSET Movers /\ R \subseteq l
  BY DEF RowsAfter
<1>2. PageAt(l, r, k) = [shown |-> items, next |-> IF Cardinality(R) > Size THEN next ELSE Done]
  BY DEF PageAt
<1> HIDE DEF R
<1>3. /\ Cardinality(R) \in Nat /\ Size \in Nat \ {0}
      /\ \A m \in R : Position(R, r, m) \in 0..(Cardinality(R) - 1)
      /\ \A m, n \in R : Before(r, m, n) => Position(R, r, m) < Position(R, r, n)
  BY <1>1, Positions, ListAssumption
<1>4. CASE ~(Cardinality(R) > Size)
  <2>1. items = R
    BY <1>3, <1>4
  <2>2. PageAt(l, r, k) = [shown |-> R, next |-> Done]
    BY <1>2, <1>4, <2>1
  <2> QED BY <1>1, <2>2 DEF Page, R
<1>5. CASE Cardinality(R) > Size
  <2>1. \E m \in R : Position(R, r, m) = Size - 1
    BY <1>1, <1>3, <1>5, EveryPositionIsTaken
  <2>2. \E m \in items : Position(R, r, m) = Size - 1
    BY <1>3, <2>1
  <2>3. next \in items /\ Position(R, r, next) = Size - 1
    BY <2>2
  <2>4. PageAt(l, r, k) = [shown |-> items, next |-> next]
    BY <1>2, <1>5
  <2> HIDE DEF next
  <2>5. next \in R /\ next \in Movers /\ next # Done /\ items \subseteq R
    BY <1>1, <2>3, ListAssumption
  <2>6. ASSUME NEW m \in items
        PROVE  m = next \/ Before(r, m, next)
    <3>1. ~Before(r, next, m)
      BY <1>3, <2>3, <2>5
    <3> QED BY <1>1, <2>5, <3>1, BeforeIsTotal
  <2>7. ASSUME NEW m \in R \ items
        PROVE  Before(r, next, m)
    <3>1. Position(R, r, m) >= Size /\ m # next
      BY <1>3, <2>3
    <3>2. ~Before(r, m, next)
      BY <1>3, <2>3, <2>5, <3>1
    <3> QED BY <1>1, <2>5, <3>1, <3>2, BeforeIsTotal
  <2> HIDE DEF items
  <2> QED BY <1>1, <2>3, <2>4, <2>5, <2>6, <2>7 DEF Page, R
<1> QED BY <1>4, <1>5

-----------------------------------------------------------------------------
(* Types.                                                                  *)
States == Reading \cup Responding \cup Writing \cup BulkUnliking \cup {Idle}

ScrollType == [next : Cursors \cup {Done}, asking : BOOLEAN, seen : SUBSET Movers,
               moved : SUBSET Movers, jumped : BOOLEAN, twice : SUBSET Movers,
               spoiled : BOOLEAN]

(* TypeOK, with the sets named.                                            *)
Types ==
  /\ registered \subseteq Movers /\ listed \subseteq registered
  /\ reviews \in [Movers -> Nat] /\ liked \subseteq Movers /\ confirmed \subseteq Movers
  /\ image \in [Movers -> Images \cup {NoImage}]
  /\ bucket \subseteq Images /\ orphans \subseteq Images /\ torn \subseteq Images
  /\ uploads \in Nat /\ writes \in Nat /\ budget \in Budgets
  /\ cache \in [Cursors -> StampedPage \cup {Absent}]
  /\ handler \in [Handlers -> States]
  /\ scroll \in ScrollType

LEMMA TypeParts == TypeOK <=> Types
BY DEF TypeOK, Types, States, ScrollType

LEMMA StateOf ==
  ASSUME NEW w \in States
  PROVE  /\ w.step = "idle" <=> w = Idle
         /\ w.step = "query" => w \in Reading
         /\ w.step = "respond" => w \in Responding
         /\ w.step \in {"upload", "write", "rollback", "cleanup"} => w \in Writing
         /\ w.step = "deleteMany" => w \in BulkUnliking
         /\ w.step = "invalidate" => w \in Writing \cup BulkUnliking
BY DEF States, Idle, Reading, Responding, Writing, BulkUnliking

LEMMA PageIsStamped ==
  ASSUME NEW page \in Page, writes \in Nat
  PROVE  /\ Stamped(page) \in StampedPage
         /\ Stamped(page).shown = page.shown /\ Stamped(page).next = page.next
         /\ Stamped(page).at = writes
BY DEF Page, Stamped, StampedPage

LEMMA Excuses ==
  ASSUME NEW page \in StampedPage, NEW n \in Nat
  PROVE  /\ Excuse(page, n) \in StampedPage
         /\ Excuse(page, n).shown = page.shown /\ Excuse(page, n).next = page.next
         /\ Excuse(page, n).at = n \/ Excuse(page, n).excused
BY DEF Excuse, StampedPage

LEMMA ExcusesCache ==
  ASSUME TypeOK, NEW n \in Nat
  PROVE  /\ ExcusedCache(n) \in [Cursors -> StampedPage \cup {Absent}]
         /\ \A k \in Cursors : ExcusedCache(n)[k] # Absent =>
              ExcusedCache(n)[k].at = n \/ ExcusedCache(n)[k].excused
<1>1. \A k \in Cursors : cache[k] # Absent => cache[k] \in StampedPage
  BY DEF TypeOK
<1> QED BY <1>1, Excuses DEF ExcusedCache

LEMMA ExcusesHandler ==
  ASSUME TypeOK, NEW g \in Handlers, NEW n \in Nat
  PROVE  /\ ExcusedHandler(g, n) \in States
         /\ ExcusedHandler(g, n).step = handler[g].step
         /\ ~Doing(g, "respond") => ExcusedHandler(g, n) = handler[g]
         /\ Doing(g, "respond") =>
              /\ ExcusedHandler(g, n).mine = handler[g].mine
              /\ ExcusedHandler(g, n).cursor = handler[g].cursor
              /\ ExcusedHandler(g, n).page.shown = handler[g].page.shown
              /\ ExcusedHandler(g, n).page.next = handler[g].page.next
              /\ ExcusedHandler(g, n).page.at = n \/ ExcusedHandler(g, n).page.excused
<1>1. CASE ~Doing(g, "respond")
  BY <1>1, TypeParts DEF Types, ExcusedHandler
<1>2. CASE Doing(g, "respond")
  <2>1. handler[g] \in Responding
    BY <1>2, TypeParts, StateOf DEF Types, Doing
  <2> DEFINE page == Excuse(handler[g].page, n)
  <2>2. /\ page \in StampedPage /\ (page.at = n \/ page.excused)
        /\ page.shown = handler[g].page.shown /\ page.next = handler[g].page.next
    BY <2>1, Excuses DEF Responding
  <2>3. ExcusedHandler(g, n) = [handler[g] EXCEPT !.page = page]
    BY <1>2 DEF ExcusedHandler
  <2> HIDE DEF page
  <2>4. /\ ExcusedHandler(g, n) \in Responding /\ ExcusedHandler(g, n).page = page
        /\ ExcusedHandler(g, n).step = handler[g].step
        /\ ExcusedHandler(g, n).mine = handler[g].mine
        /\ ExcusedHandler(g, n).cursor = handler[g].cursor
    BY <2>1, <2>2, <2>3 DEF Responding
  <2> QED BY <1>2, <2>2, <2>4 DEF States
<1> QED BY <1>1, <1>2

(* A step of one handler that leaves the rest alone.                       *)
LEMMA Steps ==
  ASSUME TypeOK, NEW h \in Handlers, NEW w, handler' = [handler EXCEPT ![h] = w]
  PROVE  /\ handler'[h] = w /\ \A g \in Handlers \ {h} : handler'[g] = handler[g]
         /\ w \in States => handler' \in [Handlers -> States]
BY TypeParts DEF Types

LEMMA Goes ==
  ASSUME NEW w \in Writing, NEW step \in {"upload", "write", "rollback", "cleanup", "invalidate"}
  PROVE  /\ [w EXCEPT !.step = step] \in Writing
         /\ [w EXCEPT !.step = step].step = step
         /\ [w EXCEPT !.step = step].kind = w.kind
         /\ [w EXCEPT !.step = step].mover = w.mover
         /\ [w EXCEPT !.step = step].change = w.change
         /\ [w EXCEPT !.step = step].old = w.old
         /\ [w EXCEPT !.step = step].new = w.new
BY DEF Writing

LEMMA CursorsOf ==
  ASSUME TypeOK, NEW k \in Cursors
  PROVE  CurrentPage(k) \in Page
<1>1. reviews \in [Movers -> Nat] /\ listed \in SUBSET Movers
  BY DEF TypeOK
<1> QED BY <1>1, PageHasNoGap DEF CurrentPage

LEMMA AppendType ==
  ASSUME NEW s \in ScrollType, NEW page, page.shown \in SUBSET Movers,
         page.next \in Movers \cup {Done}
  PROVE  /\ Appended(s, page) \in ScrollType
         /\ Appended(s, page).next = page.next
         /\ Appended(s, page).asking = FALSE
         /\ Appended(s, page).seen = s.seen \cup page.shown
         /\ Appended(s, page).moved = s.moved
         /\ Appended(s, page).jumped = s.jumped
         /\ Appended(s, page).twice = s.twice \cup (s.seen \cap page.shown)
         /\ Appended(s, page).spoiled = s.spoiled
BY DEF Appended, ScrollType, Cursors

LEMMA SavesType ==
  ASSUME TypeOK, NEW h \in Handlers, handler[h] \in Writing, Saved(h)
  PROVE  /\ registered' \subseteq Movers /\ listed' \subseteq registered'
         /\ reviews' \in [Movers -> Nat] /\ liked' \subseteq Movers /\ confirmed' \subseteq Movers
         /\ image' \in [Movers -> Images \cup {NoImage}]
         /\ scroll' \in ScrollType /\ writes' \in Nat
         /\ Overwritten(h) \subseteq Images
<1>1. /\ handler[h].mover \in Movers /\ handler[h].new \in Images \cup {NoImage}
  BY DEF Writing
<1>2. registered' \subseteq Movers /\ listed' \subseteq registered'
  BY <1>1 DEF Saved, TypeOK
<1>3. image' \in [Movers -> Images \cup {NoImage}]
  BY <1>1 DEF Saved, TypeOK
<1>4. scroll' \in ScrollType
  <2>1. scroll \in ScrollType
    BY TypeParts DEF Types
  <2>2. scroll' = scroll \/ scroll' = [scroll EXCEPT !.moved = @ \cup {handler[h].mover}]
    BY DEF Saved, Moving, Unmoved
  <2> QED BY <1>1, <2>1, <2>2 DEF ScrollType
<1>5. Overwritten(h) \subseteq Images
  BY <1>1 DEF Overwritten, TypeOK
<1> QED BY <1>2, <1>3, <1>4, <1>5 DEF Saved, TypeOK

LEMMA EffectType ==
  ASSUME TypeOK, NEW h \in Handlers, handler[h] \in Writing, Effect(h)
  PROVE  /\ reviews' \in [Movers -> Nat] /\ liked' \subseteq Movers /\ confirmed' \subseteq Movers
         /\ scroll' \in ScrollType
<1>1. handler[h].mover \in Movers /\ scroll \in ScrollType
  BY TypeParts DEF Types, Writing
<1>2. reviews' \in [Movers -> Nat] /\ liked' \subseteq Movers /\ confirmed' \subseteq Movers
  <2>1. reviews' = reviews \/ reviews' = [reviews EXCEPT ![handler[h].mover] = @ + 1]
    BY DEF Effect
  <2>2. /\ liked' \subseteq liked \cup {handler[h].mover}
        /\ confirmed' \subseteq confirmed \cup {handler[h].mover}
    BY DEF Effect
  <2> QED BY <1>1, <2>1, <2>2 DEF TypeOK
<1>3. scroll' \in ScrollType
  <2>1. scroll' = scroll \/ scroll' = [scroll EXCEPT !.moved = @ \cup {handler[h].mover}]
    BY DEF Effect, Moving, Unmoved
  <2> QED BY <1>1, <2>1 DEF ScrollType
<1> QED BY <1>2, <1>3

LEMMA TypeStep ==
  ASSUME TypeOK, [Next]_vars
  PROVE  TypeOK'
<1> USE TypeParts DEF Types
<1>0. /\ scroll \in ScrollType /\ handler \in [Handlers -> States]
      /\ budget' = budget
      /\ Types' => TypeOK'
  BY DEF Next, vars, TypeOK, States, ScrollType
<1>a. ASSUME NEW h \in Handlers, NEW k \in Cursors, NEW mine \in BOOLEAN, Ask(h, k, mine),
             scroll' \in ScrollType
      PROVE  TypeOK'
  <2> DEFINE w == [step |-> "query", cursor |-> k, mine |-> mine]
  <2>1. w \in States
    BY DEF Reading, States
  <2>2. handler' = [handler EXCEPT ![h] = w]
    BY <1>a DEF Ask
  <2> HIDE DEF w
  <2>3. handler' \in [Handlers -> States]
    BY <2>1, <2>2, Steps
  <2> QED BY <1>0, <1>a, <2>3 DEF Ask, rows, s3
<1>b. ASSUME NEW h \in Handlers, Query(h)
      PROVE  TypeOK'
  <2>1. handler[h] \in Reading
    BY <1>b, StateOf DEF Query, Doing
  <2> DEFINE page == Stamped(CurrentPage(handler[h].cursor))
             w == [step |-> "respond", cursor |-> handler[h].cursor, mine |-> handler[h].mine,
                   page |-> page]
  <2>2. page \in StampedPage
    BY <2>1, CursorsOf, PageIsStamped DEF Reading
  <2> HIDE DEF page
  <2>3. w \in States
    BY <2>1, <2>2 DEF Reading, Responding, States
  <2>4. handler' = [handler EXCEPT ![h] = w]
    BY <1>b DEF Query, page
  <2> HIDE DEF w
  <2>5. handler' \in [Handlers -> States]
    BY <2>3, <2>4, Steps
  <2>7. scroll' \in ScrollType
    BY <1>0, <1>b DEF Query, ScrollType
  <2> QED BY <1>0, <1>b, <2>5, <2>7 DEF Query, rows, s3
<1>c. ASSUME NEW h \in Handlers, Respond(h)
      PROVE  TypeOK'
  <2>1. handler[h] \in Responding
    BY <1>c, StateOf DEF Respond, Doing
  <2>2. handler[h].page \in StampedPage /\ handler[h].cursor \in Cursors
    BY <2>1 DEF Responding
  <2>3. handler' \in [Handlers -> States]
    BY <1>c, Steps DEF Respond, Finish, States
  <2>4. cache' \in [Cursors -> StampedPage \cup {Absent}]
    BY <1>c, <2>2 DEF Respond
  <2>5. scroll' \in ScrollType
    BY <1>0, <1>c, <2>2, AppendType DEF Respond, StampedPage
  <2> QED BY <1>0, <1>c, <2>3, <2>4, <2>5 DEF Respond, rows, s3
<1>d. ASSUME StartScroll
      PROVE  TypeOK'
  <2>1. scroll' \in ScrollType
    BY <1>d DEF StartScroll, ScrollType, Cursors
  <2> QED BY <1>0, <1>d, <2>1 DEF StartScroll, rows, s3
<1>e. ASSUME NEW h \in Handlers, ScrollOn(h)
      PROVE  TypeOK'
  <2>1. scroll' \in ScrollType /\ scroll.next \in Cursors
    BY <1>0, <1>e DEF ScrollOn, ScrollType
  <2> QED BY <1>a, <1>e, <2>1 DEF ScrollOn
<1>f. ASSUME ScrollOnCached
      PROVE  TypeOK'
  <2> DEFINE page == cache[scroll.next]
             jumped == scroll.jumped \/ scroll.next \in scroll.moved
             spoiled == scroll.spoiled \/ ~Same(page, CurrentPage(scroll.next)) \/ Cut(scroll.next)
  <2>1. page \in StampedPage
    BY <1>0, <1>f DEF ScrollOnCached, ScrollType
  <2>2. /\ Appended(scroll, page) \in ScrollType /\ Appended(scroll, page).spoiled = scroll.spoiled
        /\ Appended(scroll, page).jumped = scroll.jumped
    BY <1>0, <2>1, AppendType DEF StampedPage
  <2>3. /\ scroll' = [Appended(scroll, page) EXCEPT !.jumped = jumped, !.spoiled = spoiled]
        /\ jumped \in BOOLEAN /\ spoiled \in BOOLEAN
    BY <1>0, <1>f, <2>2 DEF ScrollOnCached, ScrollType
  <2> HIDE DEF page, jumped, spoiled
  <2>4. scroll' \in ScrollType
    BY <2>2, <2>3 DEF ScrollType
  <2> QED BY <1>0, <1>f, <2>4 DEF ScrollOnCached, rows, s3
<1>g. ASSUME NEW k \in Cursors, Expire(k)
      PROVE  TypeOK'
  BY <1>0, <1>g DEF Expire, rows, s3
<1>h. ASSUME NEW h \in Handlers, NEW step \in {"upload", "write"}, NEW kind \in Kinds,
             NEW m \in Movers, NEW change \in Changes, Begin(h, step, kind, m, change)
      PROVE  TypeOK'
  <2> DEFINE w == [step |-> step, kind |-> kind, mover |-> m, change |-> change,
                   old |-> image[m], new |-> NoImage]
  <2>1. w \in States
    BY DEF Writing, States
  <2>2. handler' = [handler EXCEPT ![h] = w]
    BY <1>h DEF Begin
  <2> HIDE DEF w
  <2>3. handler' \in [Handlers -> States]
    BY <2>1, <2>2, Steps
  <2> QED BY <1>0, <1>h, <2>3 DEF Begin, rows, s3
<1>i. ASSUME NEW h \in Handlers, NEW m \in Movers,
             \/ \E change \in Changes : StartCreate(h, m, change) \/ StartUpdate(h, m, change)
             \/ StartReview(h, m) \/ StartLike(h, m) \/ StartUnlike(h, m) \/ StartAccept(h, m)
             \/ StartAnswer(h, m)
      PROVE  TypeOK'
  <2>1. PICK step \in {"upload", "write"}, kind \in Kinds, c \in Changes : Begin(h, step, kind, m, c)
    BY <1>i DEF StartCreate, StartUpdate, StartReview, StartLike, StartUnlike, StartAccept, StartAnswer,
       FirstStep, Kinds, Changes
  <2> QED BY <1>h, <2>1
<1>j. ASSUME NEW h \in Handlers, NEW M \in SUBSET Movers, StartBulkUnlike(h, M)
      PROVE  TypeOK'
  <2> DEFINE w == [step |-> "deleteMany", movers |-> M]
  <2>1. w \in States
    BY DEF BulkUnliking, States
  <2>2. handler' = [handler EXCEPT ![h] = w]
    BY <1>j DEF StartBulkUnlike
  <2> HIDE DEF w
  <2>3. handler' \in [Handlers -> States]
    BY <2>1, <2>2, Steps
  <2> QED BY <1>0, <1>j, <2>3 DEF StartBulkUnlike, rows, s3
<1>k. ASSUME NEW h \in Handlers, Upload(h)
      PROVE  TypeOK'
  <2>1. handler[h] \in Writing
    BY <1>k, StateOf DEF Upload, Doing
  <2>2. uploads' \in Images
    BY <1>k DEF Upload, Images, NoImage
  <2> DEFINE w == [handler[h] EXCEPT !.step = "write", !.new = uploads']
  <2>3. w \in States
    BY <2>1, <2>2 DEF Writing, States
  <2>4. handler' = [handler EXCEPT ![h] = w]
    BY <1>k DEF Upload
  <2> HIDE DEF w
  <2>5. handler' \in [Handlers -> States]
    BY <2>3, <2>4, Steps
  <2> QED BY <1>0, <1>k, <2>2, <2>5 DEF Upload, rows, Images
<1>l. ASSUME NEW h \in Handlers, UploadFails(h)
      PROVE  TypeOK'
  <2>1. handler' \in [Handlers -> States]
    BY <1>l, Steps DEF UploadFails, Finish, States
  <2>2. /\ uploads' \in Nat /\ bucket' \subseteq Images /\ orphans' \subseteq Images
    BY <1>0, <1>l DEF UploadFails, Images, NoImage
  <2> QED BY <1>0, <1>l, <2>1, <2>2 DEF UploadFails, rows
(* A writer goes on, or ends.                                              *)
<1>m. ASSUME NEW h \in Handlers, handler[h] \in Writing,
             NEW step \in {"upload", "write", "rollback", "cleanup", "invalidate"},
             Goto(h, step) \/ Finish(h)
      PROVE  handler' \in [Handlers -> States]
  <2>1. [handler[h] EXCEPT !.step = step] \in States /\ Idle \in States
    BY <1>m, Goes DEF States
  <2> QED BY <1>m, <2>1, Steps DEF Goto, Finish
<1>n. ASSUME NEW h \in Handlers, SaveProfile(h)
      PROVE  TypeOK'
  <2>1. handler[h] \in Writing
    BY <1>n, StateOf DEF SaveProfile, Doing
  <2>2. handler' \in [Handlers -> States]
    BY <1>m, <1>n, <2>1 DEF SaveProfile
  <2>3. CASE Saved(h) /\ orphans' = orphans \cup Overwritten(h)
    BY <1>0, <1>n, <2>1, <2>2, <2>3, SavesType DEF SaveProfile
  <2>4. CASE UNCHANGED <<rows, orphans, scroll, writes>>
    BY <1>0, <1>n, <2>2, <2>4 DEF SaveProfile, rows
  <2> QED BY <1>n, <2>3, <2>4 DEF SaveProfile
<1>o. ASSUME NEW h \in Handlers, SaveFails(h)
      PROVE  TypeOK'
  <2>1. handler[h] \in Writing
    BY <1>o, StateOf DEF SaveFails, Doing
  <2>2. CASE Goto(h, "rollback") /\ UNCHANGED <<rows, orphans, torn, cache, scroll, writes>>
    BY <1>0, <1>m, <1>o, <2>1, <2>2 DEF SaveFails, rows
  <2>3. CASE Saved(h) /\ cache' = ExcusedCache(writes')
    <3>1. /\ orphans' = orphans \cup Overwritten(h) \cup
                          (IF Replaces(h) THEN {handler[h].old} ELSE {})
          /\ torn' = torn \cup ({handler[h].new} \ {NoImage})
          /\ handler' = [g \in Handlers |->
               IF g = h THEN [handler[h] EXCEPT !.step = "rollback"] ELSE ExcusedHandler(g, writes')]
          /\ UNCHANGED <<bucket, uploads>>
      BY <1>o, <2>3 DEF SaveFails, Saved, TypeOK
    <3>2. writes' \in Nat
      BY <2>1, <2>3, SavesType
    <3>3. handler' \in [Handlers -> States]
      <4>1. [handler[h] EXCEPT !.step = "rollback"] \in States
        BY <2>1, Goes DEF States
      <4>2. \A g \in Handlers : ExcusedHandler(g, writes') \in States
        BY <3>2, ExcusesHandler
      <4> QED BY <3>1, <4>1, <4>2
    <3>4. cache' \in [Cursors -> StampedPage \cup {Absent}]
      BY <2>3, <3>2, ExcusesCache
    <3>5. orphans' \subseteq Images /\ torn' \subseteq Images
      BY <2>1, <2>3, <3>1, SavesType DEF Replaces, Writing
    <3> QED BY <1>0, <2>1, <2>3, <3>1, <3>3, <3>4, <3>5, SavesType
  <2> QED BY <1>o, <2>2, <2>3 DEF SaveFails
<1>p. ASSUME NEW h \in Handlers, Rollback(h) \/ Cleanup(h)
      PROVE  TypeOK'
  <2>1. handler[h] \in Writing
    BY <1>p, StateOf DEF Rollback, Cleanup, Doing
  <2>2. PICK img \in Images \cup {NoImage}, next \in {"idle", "invalidate"} : Discard(h, img, next)
    BY <1>p, <2>1 DEF Rollback, Cleanup, Writing
  <2>3. handler' \in [Handlers -> States]
    BY <1>m, <2>1, <2>2 DEF Discard
  <2>4. bucket' \subseteq Images /\ orphans' \subseteq Images
    BY <2>2 DEF Discard
  <2> QED BY <1>0, <2>2, <2>3, <2>4 DEF Discard, rows
<1>q. ASSUME NEW h \in Handlers, Write(h)
      PROVE  TypeOK'
  <2>1. handler[h] \in Writing
    BY <1>q, StateOf DEF Write, Doing
  <2>2. handler' \in [Handlers -> States]
    BY <1>m, <1>q, <2>1 DEF Write
  <2> QED BY <1>0, <1>q, <2>1, <2>2, EffectType DEF Write, s3
<1>r. ASSUME NEW h \in Handlers, WriteFails(h)
      PROVE  TypeOK'
  <2>1. handler' \in [Handlers -> States]
    BY <1>r, Steps DEF WriteFails, Finish, States
  <2> QED BY <1>0, <1>r, <2>1 DEF WriteFails, rows, s3
<1>y. ASSUME NEW h \in Handlers, WriteUnannounced(h)
      PROVE  TypeOK'
  <2>1. handler[h] \in Writing
    BY <1>y, StateOf DEF WriteUnannounced, Doing
  <2>2. writes' \in Nat
    BY <1>y DEF WriteUnannounced
  <2>3. handler' \in [Handlers -> States] /\ cache' \in [Cursors -> StampedPage \cup {Absent}]
    BY <1>y, <2>2, ExcusesHandler, ExcusesCache DEF WriteUnannounced, States
  <2> QED BY <1>0, <1>y, <2>1, <2>2, <2>3, EffectType DEF WriteUnannounced, s3
<1>s. ASSUME NEW h \in Handlers, DeleteMany(h)
      PROVE  TypeOK'
  <2>1. handler[h] \in BulkUnliking
    BY <1>s, StateOf DEF DeleteMany, Doing
  <2>2. [handler[h] EXCEPT !.step = "invalidate"] \in States
    BY <2>1 DEF BulkUnliking, States
  <2>3. handler' \in [Handlers -> States]
    BY <1>s, <2>2, Steps DEF DeleteMany, Goto
  <2> QED BY <1>0, <1>s, <2>3 DEF DeleteMany, s3
<1>t. ASSUME NEW h \in Handlers, Invalidate(h)
      PROVE  TypeOK'
  <2>1. writes \in Nat
    OBVIOUS
  <2>2. handler' \in [Handlers -> States] /\ cache' \in [Cursors -> StampedPage \cup {Absent}]
    BY <1>t, <2>1, ExcusesHandler, ExcusesCache DEF Invalidate, States
  <2> QED BY <1>0, <1>t, <2>2 DEF Invalidate, rows, s3
<1>u. ASSUME Crash
      PROVE  TypeOK'
  <2>1. UNION {InFlight(h) : h \in Handlers} \subseteq Images
    <3>1. ASSUME NEW h \in Handlers
          PROVE  InFlight(h) \subseteq Images
      BY StateOf DEF InFlight, Writing
    <3> QED BY <3>1
  <2>2. cache' \in [Cursors -> StampedPage \cup {Absent}]
    BY <1>u, ExcusesCache DEF Crash
  <2>3. handler' \in [Handlers -> States]
    BY <1>u DEF Crash, States
  <2>4. scroll' \in ScrollType
    BY <1>0, <1>u DEF Crash, ScrollType
  <2> QED BY <1>0, <1>u, <2>1, <2>2, <2>3, <2>4 DEF Crash, rows
<1>v. CASE UNCHANGED vars
  BY <1>0, <1>v DEF vars, rows, s3
<1>w. ASSUME NEW h \in Handlers, NEW k \in Cursors, Visit(h, k)
      PROVE  TypeOK'
  BY <1>0, <1>a, <1>w DEF Visit
<1> HIDE DEF Types
<1>x. CASE Step
  BY <1>b, <1>c, <1>d, <1>e, <1>f, <1>g, <1>i, <1>j, <1>k, <1>l, <1>n, <1>o, <1>p,
     <1>q, <1>r, <1>s, <1>t, <1>u, <1>w, <1>x, <1>y DEF Step
<1> QED BY <1>v, <1>x DEF Next

-----------------------------------------------------------------------------
(* The cache.  What holds of a cached page holds of one about to be cached.*)
Fresh(page) == page.at = writes \/ page.excused \/ \E h \in Handlers : Committed(h)

CacheInv ==
  /\ \A k \in Cursors : cache[k] # Absent => Fresh(cache[k])
  /\ \A h \in Handlers : Doing(h, "respond") => Fresh(handler[h].page)

(* A step that writes nothing, and ends no handler that has yet to delete. *)
LEMMA Quiet ==
  ASSUME TypeOK, CacheInv, writes' = writes,
         \A h \in Handlers : Committed(h) => Committed(h)',
         \A k \in Cursors : \/ cache'[k] \in {Absent, cache[k]}
                            \/ \E h \in Handlers : Doing(h, "respond") /\ cache'[k] = handler[h].page,
         \A h \in Handlers : Doing(h, "respond")' =>
              \/ Doing(h, "respond") /\ handler'[h].page = handler[h].page
              \/ handler'[h].page.at = writes
  PROVE  CacheInv'
<1>1. ASSUME NEW page, Fresh(page)
      PROVE  page.at = writes' \/ page.excused \/ \E h \in Handlers : Committed(h)'
  BY <1>1 DEF Fresh
<1>2. ASSUME NEW k \in Cursors, cache'[k] # Absent
      PROVE  Fresh(cache[k])'
  <2>1. Fresh(cache'[k])
    BY <1>2 DEF CacheInv
  <2> QED BY <1>1, <2>1 DEF Fresh
<1>3. ASSUME NEW h \in Handlers, Doing(h, "respond")'
      PROVE  Fresh(handler[h].page)'
  BY <1>1, <1>3 DEF CacheInv, Fresh
<1> QED BY <1>2, <1>3 DEF CacheInv

(* ... and one that only moves a handler.                                  *)
LEMMA OneQuiet ==
  ASSUME TypeOK, CacheInv, writes' = writes, cache' = cache, NEW h \in Handlers, NEW w,
         handler' = [handler EXCEPT ![h] = w], w.step # "respond",
         Committed(h) => w.step \in {"cleanup", "invalidate"}
  PROVE  CacheInv'
<1>1. handler'[h] = w /\ \A g \in Handlers \ {h} : handler'[g] = handler[g]
  BY Steps
<1> QED BY <1>1, Quiet DEF Doing, Committed

LEMMA NowCommitted ==
  ASSUME NEW h \in Handlers, Committed(h)'
  PROVE  CacheInv'
BY DEF CacheInv, Fresh

LEMMA AllExcused ==
  ASSUME TypeOK, NEW n \in Nat, n = writes', cache' \in [Cursors -> {Absent}] \cup {ExcusedCache(n)},
         \A h \in Handlers : Doing(h, "respond")' => handler'[h] = ExcusedHandler(h, n)
  PROVE  CacheInv'
<1>1. ASSUME NEW k \in Cursors, cache'[k] # Absent
      PROVE  Fresh(cache[k])'
  BY <1>1, ExcusesCache DEF Fresh
<1>2. ASSUME NEW h \in Handlers, Doing(h, "respond")'
      PROVE  Fresh(handler[h].page)'
  <2>1. Doing(h, "respond")
    BY <1>2, ExcusesHandler DEF Doing
  <2>2. handler'[h].page.at = n \/ handler'[h].page.excused
    BY <1>2, <2>1, ExcusesHandler
  <2> QED BY <2>2 DEF Fresh
<1> QED BY <1>1, <1>2 DEF CacheInv

LEMMA CacheStep ==
  ASSUME TypeOK, TypeOK', CacheInv, [Next]_vars
  PROVE  CacheInv'
<1>0. writes \in Nat /\ writes' \in Nat
  BY DEF TypeOK
<1>a. ASSUME NEW h \in Handlers, NEW k \in Cursors, NEW mine \in BOOLEAN, Ask(h, k, mine)
      PROVE  CacheInv'
  <2> DEFINE w == [step |-> "query", cursor |-> k, mine |-> mine]
  <2>1. handler' = [handler EXCEPT ![h] = w] /\ w.step = "query"
    BY <1>a DEF Ask
  <2> HIDE DEF w
  <2> QED BY <1>a, <2>1, OneQuiet DEF Ask, Doing, Committed
<1>b. ASSUME NEW h \in Handlers, Query(h)
      PROVE  CacheInv'
  <2> DEFINE page == Stamped(CurrentPage(handler[h].cursor))
             w == [step |-> "respond", cursor |-> handler[h].cursor, mine |-> handler[h].mine,
                   page |-> page]
  <2>1. page.at = writes
    BY DEF Stamped
  <2> HIDE DEF page
  <2>2. w.step = "respond" /\ w.page = page
    OBVIOUS
  <2>3. handler' = [handler EXCEPT ![h] = w]
    BY <1>b DEF Query, page
  <2> HIDE DEF w
  <2>4. handler'[h] = w /\ \A g \in Handlers \ {h} : handler'[g] = handler[g]
    BY <2>3, Steps
  <2>5. writes' = writes /\ cache' = cache /\ ~Committed(h)
    BY <1>b DEF Query, Doing, Committed
  <2> QED BY <2>1, <2>2, <2>4, <2>5, Quiet DEF Doing, Committed
<1>c. ASSUME NEW h \in Handlers, Respond(h)
      PROVE  CacheInv'
  <2>1. handler'[h] = Idle /\ \A g \in Handlers \ {h} : handler'[g] = handler[g]
    BY <1>c, Steps DEF Respond, Finish
  <2>2. Doing(h, "respond") /\ writes' = writes /\ ~Committed(h)
    BY <1>c DEF Respond, Doing, Committed
  <2>3. \A k \in Cursors : cache'[k] = cache[k] \/ cache'[k] = handler[h].page
    BY <1>c DEF Respond, TypeOK
  <2> QED BY <2>1, <2>2, <2>3, Quiet DEF Doing, Committed, Idle
<1>d. CASE StartScroll \/ ScrollOnCached
  BY <1>d, Quiet DEF StartScroll, ScrollOnCached, Committed, Doing
<1>e. ASSUME NEW k \in Cursors, Expire(k)
      PROVE  CacheInv'
  <2>1. \A l \in Cursors : cache'[l] \in {Absent, cache[l]}
    BY <1>e DEF Expire, TypeOK
  <2> QED BY <1>e, <2>1, Quiet DEF Expire, Committed, Doing
<1>f. ASSUME NEW h \in Handlers, NEW step \in {"upload", "write"}, NEW kind \in Kinds,
             NEW m \in Movers, NEW change \in Changes, Begin(h, step, kind, m, change)
      PROVE  CacheInv'
  <2> DEFINE w == [step |-> step, kind |-> kind, mover |-> m, change |-> change,
                   old |-> image[m], new |-> NoImage]
  <2>1. handler' = [handler EXCEPT ![h] = w] /\ w.step = step
    BY <1>f DEF Begin
  <2> HIDE DEF w
  <2> QED BY <1>f, <2>1, OneQuiet DEF Begin, Doing, Committed
<1>g. ASSUME NEW h \in Handlers, NEW m \in Movers,
             \/ \E change \in Changes : StartCreate(h, m, change) \/ StartUpdate(h, m, change)
             \/ StartReview(h, m) \/ StartLike(h, m) \/ StartUnlike(h, m) \/ StartAccept(h, m)
             \/ StartAnswer(h, m)
      PROVE  CacheInv'
  <2>1. PICK step \in {"upload", "write"}, kind \in Kinds, c \in Changes : Begin(h, step, kind, m, c)
    BY <1>g DEF StartCreate, StartUpdate, StartReview, StartLike, StartUnlike, StartAccept, StartAnswer,
       FirstStep, Kinds, Changes
  <2> QED BY <1>f, <2>1
<1>h. ASSUME NEW h \in Handlers, NEW M \in SUBSET Movers, StartBulkUnlike(h, M)
      PROVE  CacheInv'
  <2> DEFINE w == [step |-> "deleteMany", movers |-> M]
  <2>1. handler' = [handler EXCEPT ![h] = w] /\ w.step = "deleteMany"
    BY <1>h DEF StartBulkUnlike
  <2> HIDE DEF w
  <2> QED BY <1>h, <2>1, OneQuiet DEF StartBulkUnlike, Doing, Committed
(* A writer goes on, or ends before it has committed.                      *)
<1>i. ASSUME NEW h \in Handlers, handler[h] \in Writing, writes' = writes, cache' = cache,
             \/ Goto(h, "rollback") /\ ~Committed(h)
             \/ Goto(h, "invalidate")
             \/ Finish(h) /\ ~Committed(h)
      PROVE  CacheInv'
  <2>1. /\ [handler[h] EXCEPT !.step = "rollback"].step = "rollback"
        /\ [handler[h] EXCEPT !.step = "invalidate"].step = "invalidate"
        /\ Idle.step = "idle"
    BY <1>i, Goes DEF Idle
  <2>2. PICK w \in {[handler[h] EXCEPT !.step = "rollback"], [handler[h] EXCEPT !.step = "invalidate"], Idle} :
          /\ handler' = [handler EXCEPT ![h] = w]
          /\ Committed(h) => w = [handler[h] EXCEPT !.step = "invalidate"]
    BY <1>i DEF Goto, Finish
  <2> QED BY <1>i, <2>1, <2>2, OneQuiet
<1>j. ASSUME NEW h \in Handlers, Upload(h)
      PROVE  CacheInv'
  <2>1. handler[h] \in Writing
    BY <1>j, TypeParts, StateOf DEF Types, Upload, Doing
  <2> DEFINE w == [handler[h] EXCEPT !.step = "write", !.new = uploads']
  <2>2. w.step = "write"
    BY <2>1 DEF Writing
  <2>3. handler' = [handler EXCEPT ![h] = w]
    BY <1>j DEF Upload
  <2> HIDE DEF w
  <2> QED BY <1>j, <2>2, <2>3, OneQuiet DEF Upload, Doing, Committed
<1>k. ASSUME NEW h \in Handlers, Finish(h), ~Committed(h), writes' = writes, cache' = cache
      PROVE  CacheInv'
  <2>1. handler' = [handler EXCEPT ![h] = Idle] /\ Idle.step = "idle"
    BY <1>k DEF Finish, Idle
  <2> QED BY <1>k, <2>1, OneQuiet
<1>l. ASSUME NEW h \in Handlers, UploadFails(h)
      PROVE  CacheInv'
  BY <1>k, <1>l DEF UploadFails, Doing, Committed
(* A write commits, and its handler goes on to delete the pages.           *)
<1>m. ASSUME NEW h \in Handlers, handler[h] \in Writing,
             Goto(h, "cleanup") \/ Goto(h, "invalidate")
      PROVE  CacheInv'
  <2>1. handler'[h].step \in {"cleanup", "invalidate"}
    <3>1. PICK step \in {"cleanup", "invalidate"} : Goto(h, step)
      BY <1>m
    <3>2. handler'[h] = [handler[h] EXCEPT !.step = step]
      BY <3>1, Steps DEF Goto
    <3> QED BY <1>m, <3>2, Goes
  <2> QED BY <2>1, NowCommitted DEF Committed, Doing
<1>n. ASSUME NEW h \in Handlers, SaveProfile(h)
      PROVE  CacheInv'
  <2>1. handler[h] \in Writing /\ ~Committed(h)
    BY <1>n, TypeParts, StateOf DEF Types, SaveProfile, Doing, Committed
  <2>2. CASE Goto(h, "cleanup") \/ Goto(h, "invalidate")
    BY <1>m, <2>1, <2>2
  <2>3. CASE Goto(h, "rollback") /\ writes' = writes
    BY <1>i, <1>n, <2>1, <2>3 DEF SaveProfile
  <2> QED BY <1>n, <2>2, <2>3 DEF SaveProfile
(* Everything stale is excused.                                            *)
<1>o. ASSUME NEW h \in Handlers, NEW w, w.step # "respond",
             cache' \in [Cursors -> {Absent}] \cup {ExcusedCache(writes')},
             handler' = [g \in Handlers |-> IF g = h THEN w ELSE ExcusedHandler(g, writes')]
      PROVE  CacheInv'
  <2>1. \A g \in Handlers : Doing(g, "respond")' => handler'[g] = ExcusedHandler(g, writes')
    BY <1>o DEF Doing
  <2> QED BY <1>0, <1>o, <2>1, AllExcused
<1>p. ASSUME NEW h \in Handlers, SaveFails(h)
      PROVE  CacheInv'
  <2>1. handler[h] \in Writing /\ ~Committed(h)
    BY <1>p, TypeParts, StateOf DEF Types, SaveFails, Doing, Committed
  <2>2. CASE Goto(h, "rollback") /\ UNCHANGED <<rows, orphans, torn, cache, scroll, writes>>
    BY <1>i, <2>1, <2>2
  <2>3. CASE /\ cache' = ExcusedCache(writes')
             /\ handler' = [g \in Handlers |->
                  IF g = h THEN [handler[h] EXCEPT !.step = "rollback"] ELSE ExcusedHandler(g, writes')]
    <3>1. [handler[h] EXCEPT !.step = "rollback"].step # "respond"
      BY <2>1, Goes
    <3> QED BY <1>o, <2>3, <3>1
  <2> QED BY <1>p, <2>2, <2>3 DEF SaveFails
<1>q. ASSUME NEW h \in Handlers, Rollback(h) \/ Cleanup(h)
      PROVE  CacheInv'
  <2>1. handler[h] \in Writing
    BY <1>q, TypeParts, StateOf DEF Types, Rollback, Cleanup, Doing
  <2> QED BY <1>i, <1>q, <2>1 DEF Rollback, Cleanup, Discard, Doing, Committed
<1>r. ASSUME NEW h \in Handlers, Write(h)
      PROVE  CacheInv'
  <2>1. handler[h] \in Writing
    BY <1>r, TypeParts, StateOf DEF Types, Write, Doing
  <2> QED BY <1>m, <1>r, <2>1 DEF Write
<1>s. ASSUME NEW h \in Handlers, WriteFails(h)
      PROVE  CacheInv'
  BY <1>k, <1>s DEF WriteFails, Doing, Committed
<1>y. ASSUME NEW h \in Handlers, WriteUnannounced(h)
      PROVE  CacheInv'
  BY <1>o, <1>y DEF WriteUnannounced, Idle
<1>t. ASSUME NEW h \in Handlers, DeleteMany(h)
      PROVE  CacheInv'
  <2>1. handler[h] \in BulkUnliking
    BY <1>t, TypeParts, StateOf DEF Types, DeleteMany, Doing
  <2>2. handler'[h].step = "invalidate"
    <3>1. handler'[h] = [handler[h] EXCEPT !.step = "invalidate"]
      BY <1>t, TypeParts DEF Types, DeleteMany, Goto
    <3> QED BY <2>1, <3>1 DEF BulkUnliking
  <2> QED BY <2>2, NowCommitted DEF Committed, Doing
<1>u. ASSUME NEW h \in Handlers, Invalidate(h)
      PROVE  CacheInv'
  BY <1>o, <1>u DEF Invalidate, Idle
<1>v. CASE Crash
  <2>1. handler' = [h \in Handlers |-> Idle] /\ writes' = writes
    BY <1>v DEF Crash
  <2>2. \A h \in Handlers : ~Doing(h, "respond")' /\ ~Committed(h)'
    BY <2>1 DEF Doing, Committed, Idle
  <2>3. CASE \E h \in Handlers : Committed(h)
    BY <1>0, <1>v, <2>1, <2>2, <2>3, AllExcused DEF Crash
  <2>4. CASE ~\E h \in Handlers : Committed(h)
    BY <1>v, <2>1, <2>2, <2>4, Quiet DEF Crash
  <2> QED BY <2>3, <2>4
<1>w. CASE UNCHANGED vars
  BY <1>w, Quiet DEF vars, Committed, Doing
<1>x. ASSUME NEW h \in Handlers, ScrollOn(h) \/ \E k \in Cursors : Visit(h, k)
      PROVE  CacheInv'
  BY <1>a, <1>x, TypeParts DEF Types, ScrollType, Visit, ScrollOn
<1> QED
  BY <1>b, <1>c, <1>d, <1>e, <1>g, <1>h, <1>j, <1>l, <1>n, <1>p, <1>q, <1>r, <1>s,
     <1>t, <1>u, <1>v, <1>w, <1>x, <1>y DEF Next, Step

-----------------------------------------------------------------------------
(* The images.  Who may hold the name of an image, and who no longer can.  *)
Live(h) == handler[h].step \in {"upload", "write", "rollback", "cleanup"}

Old(h) == handler[h].old
New(h) == handler[h].new

(* No name is known that is yet to be given out.                           *)
Numbered ==
  /\ \A m \in Movers : image[m] <= uploads
  /\ \A i \in bucket : i <= uploads
  /\ \A h \in Handlers : Live(h) => Old(h) <= uploads /\ New(h) <= uploads

(* Each image is one mover's.                                              *)
OneOwner ==
  /\ \A m, n \in Movers : m # n /\ image[m] = image[n] => image[m] = NoImage
  /\ \A h \in Handlers : Live(h) /\ Old(h) # NoImage =>
       \A n \in Movers \ {handler[h].mover} : image[n] # Old(h)

(* The image that was uploaded is known to its handler alone...            *)
UploadedIsNew ==
  \A h \in Handlers : Doing(h, "write") /\ New(h) # NoImage =>
    /\ New(h) \in bucket /\ Old(h) # New(h)
    /\ \A m \in Movers : image[m] # New(h)
    /\ \A g \in Handlers \ {h} : Live(g) => Old(g) # New(h) /\ New(g) # New(h)

(* ... the one that was replaced will not come back...                     *)
ReplacedIsGone ==
  \A h \in Handlers : Doing(h, "cleanup") =>
    Old(h) # NoImage /\ \A m \in Movers : image[m] # Old(h)

(* ... and the one that is rolled back is named by nobody.                 *)
RolledBackIsFree ==
  \A h \in Handlers : Doing(h, "rollback") /\ New(h) # NoImage =>
    New(h) \in torn \/ \A m \in Movers : image[m] # New(h)

(* Only profiles that are to be given an image upload one.                 *)
Uploaders ==
  /\ \A h \in Handlers : Doing(h, "upload") =>
       /\ New(h) = NoImage /\ handler[h].change = "replace"
       /\ handler[h].kind \in {"create", "update"}
  /\ \A h \in Handlers :
       /\ Doing(h, "write")
       /\ handler[h].kind \notin {"create", "update"} \/ handler[h].change = "keep"
       => New(h) = NoImage
  /\ \A m \in Movers \ registered : image[m] = NoImage

(* Every image has a name, a reason, or a handler that will see to it.     *)
HasReason(i) ==
  \/ \E m \in Movers : image[m] = i
  \/ i \in orphans
  \/ \E h \in Handlers : (Doing(h, "write") \/ Doing(h, "rollback")) /\ New(h) = i
  \/ \E h \in Handlers : Doing(h, "cleanup") /\ Old(h) = i

Accounted == \A i \in bucket : HasReason(i)

ImageInv ==
  /\ Numbered /\ OneOwner /\ UploadedIsNew /\ ReplacedIsGone /\ RolledBackIsFree
  /\ Uploaders /\ ImagesExist /\ Accounted

LEMMA LiveIsWriting ==
  ASSUME TypeOK, NEW h \in Handlers, Live(h)
  PROVE  /\ handler[h] \in Writing /\ handler[h].mover \in Movers
         /\ Old(h) \in Nat /\ New(h) \in Nat
BY TypeParts, StateOf DEF Types, Live, Writing, Images, NoImage, Old, New

LEMMA ImagesAreNumbers ==
  ASSUME TypeOK
  PROVE  /\ uploads \in Nat /\ NoImage \in Nat /\ NoImage <= uploads
         /\ \A m \in Movers : image[m] \in Nat
         /\ \A i \in bucket : i \in Nat /\ i # NoImage
BY DEF TypeOK, Images, NoImage

(* A step that touches no image, and ends at most handlers without one.    *)
LEMMA ImageQuiet ==
  ASSUME TypeOK, ImageInv, UNCHANGED <<image, s3, registered>>,
         \A h \in Handlers : Live(h)' => handler'[h] = handler[h],
         \A h \in Handlers : Live(h) =>
           handler'[h] = handler[h] \/ Doing(h, "upload") \/ (Doing(h, "write") /\ New(h) = NoImage)
  PROVE  ImageInv'
<1> USE DEF ImageInv, Live, Old, New, Doing
<1>0. /\ UNCHANGED <<image, bucket, uploads, orphans, torn, registered>>
      /\ \A h \in Handlers : Live(h)' => Live(h) /\ handler'[h] = handler[h]
  BY DEF s3
<1>1. Numbered'
  BY <1>0 DEF Numbered
<1>2. OneOwner'
  BY <1>0 DEF OneOwner
<1>3. UploadedIsNew'
  BY <1>0 DEF UploadedIsNew
<1>4. ReplacedIsGone' /\ RolledBackIsFree'
  BY <1>0 DEF ReplacedIsGone, RolledBackIsFree
<1>5. Uploaders'
  BY <1>0 DEF Uploaders
<1>6. ImagesExist'
  BY <1>0 DEF ImagesExist
<1>7. Accounted'
  <2> SUFFICES ASSUME NEW i \in bucket
               PROVE  HasReason(i)'
    BY <1>0 DEF Accounted
  <2>1. HasReason(i) /\ i # NoImage
    BY ImagesAreNumbers DEF Accounted
  <2>2. ASSUME NEW h \in Handlers,
               \/ (Doing(h, "write") \/ Doing(h, "rollback")) /\ New(h) = i
               \/ Doing(h, "cleanup") /\ Old(h) = i
        PROVE  handler'[h] = handler[h]
    BY <2>1, <2>2
  <2> QED BY <1>0, <2>1, <2>2 DEF HasReason
<1> QED BY <1>1, <1>2, <1>3, <1>4, <1>5, <1>6, <1>7

(* A step of one handler that touches no image.                            *)
LEMMA OneImageQuiet ==
  ASSUME TypeOK, ImageInv, UNCHANGED <<image, s3, registered>>, NEW h \in Handlers, NEW w,
         handler' = [handler EXCEPT ![h] = w],
         w.step \notin {"upload", "write", "rollback", "cleanup"},
         ~Live(h) \/ Doing(h, "upload") \/ (Doing(h, "write") /\ New(h) = NoImage)
  PROVE  ImageInv'
<1>1. handler'[h] = w /\ \A g \in Handlers \ {h} : handler'[g] = handler[g]
  BY Steps
<1>2. ~Live(h)'
  BY <1>1 DEF Live
<1>3. \A g \in Handlers : Live(g)' => handler'[g] = handler[g]
  BY <1>1, <1>2
<1>4. \A g \in Handlers : Live(g) =>
        handler'[g] = handler[g] \/ Doing(g, "upload") \/ (Doing(g, "write") /\ New(g) = NoImage)
  BY <1>1
<1> QED BY <1>3, <1>4, ImageQuiet

LEMMA BeginKeepsImages ==
  ASSUME TypeOK, ImageInv, UNCHANGED <<image, s3, registered>>, NEW h \in Handlers, ~Live(h),
         NEW w \in Writing, handler' = [handler EXCEPT ![h] = w], w.step \in {"upload", "write"},
         w.old = image[w.mover], w.new = NoImage,
         w.step = "upload" => w.change = "replace" /\ w.kind \in {"create", "update"}
  PROVE  ImageInv'
<1> USE DEF ImageInv, Live, Old, New, Doing
<1>0. /\ UNCHANGED <<image, bucket, uploads, orphans, torn, registered>>
      /\ handler'[h] = w /\ w.mover \in Movers
      /\ \A g \in Handlers \ {h} : handler'[g] = handler[g]
  BY Steps DEF s3, Writing
<1>1. Numbered'
  BY <1>0, ImagesAreNumbers DEF Numbered
<1>2. OneOwner'
  BY <1>0 DEF OneOwner
<1>3. UploadedIsNew'
  BY <1>0 DEF UploadedIsNew
<1>4. ReplacedIsGone' /\ RolledBackIsFree'
  BY <1>0 DEF ReplacedIsGone, RolledBackIsFree
<1>5. Uploaders'
  BY <1>0 DEF Uploaders
<1>6. ImagesExist'
  BY <1>0 DEF ImagesExist
<1>7. Accounted'
  BY <1>0 DEF Accounted, HasReason
<1> QED BY <1>1, <1>2, <1>3, <1>4, <1>5, <1>6, <1>7

LEMMA UploadKeepsImages ==
  ASSUME TypeOK, TypeOK', ImageInv, NEW h \in Handlers, Upload(h)
  PROVE  ImageInv'
<1> USE DEF ImageInv, Live, Old, New, Doing
<1> DEFINE w == [handler[h] EXCEPT !.step = "write", !.new = uploads']
<1>1. handler[h] \in Writing /\ Doing(h, "upload")
  BY LiveIsWriting DEF Upload
<1>2. /\ w \in Writing \/ uploads' \notin Images
      /\ w.step = "write" /\ w.new = uploads' /\ w.old = Old(h) /\ w.kind = handler[h].kind
      /\ w.mover = handler[h].mover /\ w.change = handler[h].change
  BY <1>1 DEF Writing
<1>3. handler' = [handler EXCEPT ![h] = w]
  BY DEF Upload
<1> HIDE DEF w
<1>4. handler'[h] = w /\ \A g \in Handlers \ {h} : handler'[g] = handler[g]
  BY <1>3, Steps
<1>5. /\ uploads' = uploads + 1 /\ bucket' = bucket \cup {uploads'}
      /\ UNCHANGED <<image, orphans, torn, registered>>
  BY DEF Upload, rows
<1>6. uploads \in Nat /\ uploads' \in Nat /\ uploads' # NoImage
  BY <1>5 DEF TypeOK, NoImage
<1>7. /\ \A m \in Movers : image[m] # uploads'
      /\ \A g \in Handlers : Live(g) => Old(g) # uploads' /\ New(g) # uploads'
  BY <1>5, <1>6, ImagesAreNumbers, LiveIsWriting DEF Numbered
<1>8. Numbered'
  <2>1. /\ \A m \in Movers : image[m] <= uploads'
        /\ \A i \in bucket' : i <= uploads'
        /\ \A g \in Handlers : Live(g) => Old(g) <= uploads' /\ New(g) <= uploads'
    BY <1>5, <1>6, ImagesAreNumbers, LiveIsWriting DEF Numbered
  <2> QED BY <1>1, <1>2, <1>4, <1>5, <1>6, <2>1 DEF Numbered
<1>9. OneOwner'
  BY <1>1, <1>2, <1>4, <1>5 DEF OneOwner
<1>10. UploadedIsNew'
  <2>1. ASSUME NEW g \in Handlers, Doing(g, "write")', New(g)' # NoImage
        PROVE  /\ New(g)' \in bucket' /\ Old(g)' # New(g)'
               /\ \A m \in Movers : image'[m] # New(g)'
               /\ \A f \in Handlers \ {g} : Live(f)' => Old(f)' # New(g)' /\ New(f)' # New(g)'
    <3>1. CASE g = h
      BY <1>1, <1>2, <1>4, <1>5, <1>7, <3>1
    <3>2. CASE g # h
      <4>1. /\ New(g) \in bucket /\ Old(g) # New(g) /\ \A m \in Movers : image[m] # New(g)
            /\ \A f \in Handlers \ {g} : Live(f) => Old(f) # New(g) /\ New(f) # New(g)
        BY <1>4, <2>1, <3>2 DEF UploadedIsNew
      <4> QED BY <1>1, <1>2, <1>4, <1>5, <1>7, <2>1, <3>2, <4>1
    <3> QED BY <3>1, <3>2
  <2> QED BY <2>1 DEF UploadedIsNew
<1>11. ReplacedIsGone' /\ RolledBackIsFree'
  BY <1>2, <1>4, <1>5 DEF ReplacedIsGone, RolledBackIsFree
<1>12. Uploaders'
  BY <1>1, <1>2, <1>4, <1>5 DEF Uploaders
<1>13. ImagesExist'
  BY <1>5 DEF ImagesExist
<1>14. Accounted'
  <2> SUFFICES ASSUME NEW i \in bucket'
               PROVE  HasReason(i)'
    BY DEF Accounted
  <2>1. CASE i = uploads'
    BY <1>2, <1>4, <2>1 DEF HasReason
  <2>2. CASE i \in bucket
    BY <1>1, <1>4, <1>5, <2>2 DEF Accounted, HasReason
  <2> QED BY <1>5, <2>1, <2>2
<1> QED BY <1>8, <1>9, <1>10, <1>11, <1>12, <1>13, <1>14

(* An image that was stored although its upload failed.                    *)
LEMMA LostUploadKeepsImages ==
  ASSUME TypeOK, ImageInv, NEW h \in Handlers, Doing(h, "upload"), Finish(h),
         uploads' = uploads + 1, bucket' = bucket \cup {uploads'},
         orphans' = orphans \cup {uploads'}, UNCHANGED <<image, torn, registered>>
  PROVE  ImageInv'
<1> USE DEF ImageInv, Live, Old, New, Doing
<1>1. /\ handler'[h].step = "idle" /\ \A g \in Handlers \ {h} : handler'[g] = handler[g]
      /\ \A g \in Handlers : Live(g)' => Live(g) /\ handler'[g] = handler[g]
  <2>1. handler'[h] = Idle /\ \A g \in Handlers \ {h} : handler'[g] = handler[g]
    BY Steps DEF Finish
  <2>2. handler'[h].step = "idle"
    BY <2>1 DEF Idle
  <2> QED BY <2>1, <2>2
<1>2. uploads \in Nat /\ uploads' \in Nat
  BY DEF TypeOK
<1>3. Numbered'
  <2>1. /\ \A m \in Movers : image[m] <= uploads'
        /\ \A i \in bucket' : i <= uploads'
        /\ \A g \in Handlers : Live(g) => Old(g) <= uploads' /\ New(g) <= uploads'
    BY <1>2, ImagesAreNumbers, LiveIsWriting DEF Numbered
  <2> QED BY <1>1, <2>1 DEF Numbered
<1>4. OneOwner'
  BY <1>1 DEF OneOwner
<1>5. UploadedIsNew'
  BY <1>1 DEF UploadedIsNew
<1>6. ReplacedIsGone' /\ RolledBackIsFree'
  BY <1>1 DEF ReplacedIsGone, RolledBackIsFree
<1>7. Uploaders' /\ ImagesExist'
  BY <1>1 DEF Uploaders, ImagesExist
<1>8. Accounted'
  <2> SUFFICES ASSUME NEW i \in bucket'
               PROVE  HasReason(i)'
    BY DEF Accounted
  <2>1. CASE i = uploads'
    BY <2>1 DEF HasReason
  <2>2. CASE i \in bucket
    BY <1>1, <2>2 DEF Accounted, HasReason
  <2> QED BY <2>1, <2>2
<1> QED BY <1>3, <1>4, <1>5, <1>6, <1>7, <1>8

(* What becomes of the names when a profile is written.                    *)
LEMMA Saves ==
  ASSUME TypeOK, ImageInv, NEW h \in Handlers, Doing(h, "write"),
         handler[h].kind \in {"create", "update"},
         handler[h].kind = "update" \/ handler[h].mover \notin registered, Saved(h)
  PROVE  LET m == handler[h].mover
         IN  /\ m \in Movers /\ registered' = registered \cup {m}
             /\ \A n \in Movers \ {m} : image'[n] = image[n]
             /\ image'[m] = New(h) \/ (image'[m] = image[m] /\ New(h) = NoImage)
             /\ \/ image[m] \in {NoImage, image'[m]} \cup Overwritten(h)
                \/ Replaces(h) /\ image[m] = Old(h)
             /\ Replaces(h) => Old(h) # NoImage /\ \A n \in Movers : image'[n] # Old(h)
<1> DEFINE m == handler[h].mover
<1>1. Live(h) /\ handler[h] \in Writing /\ m \in Movers /\ handler[h].change \in Changes
  BY LiveIsWriting DEF Live, Doing, Writing
<1>2. image' = IF handler[h].kind = "update" /\ handler[h].change = "keep"
               THEN image ELSE [image EXCEPT ![m] = New(h)]
  BY DEF Saved, New
<1>3. (\A n \in Movers \ {m} : image'[n] = image[n])
  BY <1>1, <1>2 DEF TypeOK
<1>4. CASE handler[h].kind = "update" /\ handler[h].change = "keep"
  <2>1. New(h) = NoImage
    BY <1>4 DEF ImageInv, Uploaders
  <2> QED BY <1>1, <1>2, <1>3, <1>4, <2>1 DEF Saved, Replaces
<1>5. CASE ~(handler[h].kind = "update" /\ handler[h].change = "keep")
  <2>1. image'[m] = New(h)
    BY <1>1, <1>2, <1>5 DEF TypeOK
  <2>2. Overwritten(h) = {image[m]} \ ({image'[m], Old(h)} \cup {NoImage})
    BY DEF Overwritten, Old
  <2>3. Replaces(h) <=> handler[h].change # "keep" /\ Old(h) \notin {NoImage, New(h)}
    BY DEF Replaces, Old, New
  <2>4. New(h) # NoImage => Old(h) # New(h)
    BY DEF ImageInv, UploadedIsNew
  <2>5. handler[h].change = "keep" => image[m] = NoImage
    BY <1>1, <1>5 DEF ImageInv, Uploaders
  <2>6. \/ image[m] \in {NoImage, image'[m]} \cup Overwritten(h)
        \/ Replaces(h) /\ image[m] = Old(h)
    BY <2>1, <2>2, <2>3, <2>4, <2>5
  <2>7. Replaces(h) => Old(h) # NoImage /\ \A n \in Movers : image'[n] # Old(h)
    BY <1>1, <1>3, <2>1, <2>3 DEF ImageInv, OneOwner
  <2> QED BY <1>1, <1>3, <2>1, <2>6, <2>7 DEF Saved
<1> QED BY <1>4, <1>5

LEMMA SavedKeepsImages ==
  ASSUME TypeOK, TypeOK', ImageInv, NEW h \in Handlers, Doing(h, "write"),
         handler[h].kind \in {"create", "update"},
         handler[h].kind = "update" \/ handler[h].mover \notin registered, Saved(h),
         UNCHANGED <<bucket, uploads>>, torn \subseteq torn',
         orphans \cup Overwritten(h) \subseteq orphans',
         handler'[h].step \in {"cleanup", "invalidate", "rollback"},
         handler'[h].old = Old(h), handler'[h].new = New(h), handler'[h].mover = handler[h].mover,
         \A g \in Handlers \ {h} : handler'[g].step = handler[g].step,
         \A g \in Handlers \ {h} : Live(g) => handler'[g] = handler[g],
         handler'[h].step = "cleanup" => Replaces(h),
         Replaces(h) => handler'[h].step = "cleanup" \/ Old(h) \in orphans',
         handler'[h].step = "rollback" => New(h) \in torn' \cup {NoImage}
  PROVE  ImageInv'
<1> DEFINE m == handler[h].mover
<1>1. /\ m \in Movers /\ registered' = registered \cup {m}
      /\ \A n \in Movers \ {m} : image'[n] = image[n]
      /\ image'[m] = New(h) \/ (image'[m] = image[m] /\ New(h) = NoImage)
      /\ \/ image[m] \in {NoImage, image'[m]} \cup Overwritten(h)
         \/ Replaces(h) /\ image[m] = Old(h)
      /\ Replaces(h) => Old(h) # NoImage /\ \A n \in Movers : image'[n] # Old(h)
  BY Saves
<1>2. /\ Live(h) /\ Old(h)' = Old(h) /\ New(h)' = New(h)
      /\ New(h) # NoImage =>
           /\ New(h) \in bucket /\ \A n \in Movers : image[n] # New(h)
           /\ \A g \in Handlers \ {h} : Live(g) => Old(g) # New(h) /\ New(g) # New(h)
  BY DEF ImageInv, UploadedIsNew, Live, Doing, Old, New
<1>3. \A g \in Handlers \ {h} :
        /\ Live(g)' <=> Live(g)
        /\ Live(g) => Old(g)' = Old(g) /\ New(g)' = New(g) /\ handler'[g] = handler[g]
        /\ Doing(g, "write")' => Doing(g, "write") /\ Live(g)
        /\ Doing(g, "upload")' => Doing(g, "upload") /\ Live(g)
        /\ Doing(g, "cleanup")' <=> Doing(g, "cleanup")
        /\ Doing(g, "rollback")' <=> Doing(g, "rollback")
        /\ Doing(g, "write")' <=> Doing(g, "write")
        /\ Doing(g, "cleanup") \/ Doing(g, "rollback") \/ Doing(g, "write") => Live(g)
  BY DEF Live, Doing, Old, New
<1>4. ~Doing(h, "write")' /\ ~Doing(h, "upload")'
  BY DEF Doing
<1>5. \A n \in Movers : image'[n] = New(h) \/ image'[n] = image[n]
  BY <1>1
<1> HIDE DEF m
<1>6. Numbered'
  <2>1. \A n \in Movers : image'[n] <= uploads
    BY <1>2, <1>5 DEF ImageInv, Numbered
  <2> QED BY <1>2, <1>3, <2>1 DEF ImageInv, Numbered
<1>7. OneOwner'
  <2>1. ASSUME NEW n \in Movers, NEW o \in Movers, n # o, image'[n] = image'[o]
        PROVE  image'[n] = NoImage
    BY <1>1, <1>2, <2>1 DEF ImageInv, OneOwner
  <2>2. ASSUME NEW g \in Handlers, Live(g)', Old(g)' # NoImage,
               NEW n \in Movers \ {handler'[g].mover}
        PROVE  image'[n] # Old(g)'
    <3>1. CASE g = h
      BY <1>1, <1>2, <2>2, <3>1 DEF ImageInv, OneOwner, m
    <3>2. CASE g # h
      <4>1. Live(g) /\ Old(g)' = Old(g) /\ handler'[g] = handler[g] /\ image[n] # Old(g)
        BY <1>3, <2>2, <3>2 DEF ImageInv, OneOwner
      <4> QED BY <1>1, <1>2, <2>2, <3>2, <4>1
    <3> QED BY <3>1, <3>2
  <2> QED BY <2>1, <2>2 DEF OneOwner
<1>8. UploadedIsNew'
  <2>1. ASSUME NEW g \in Handlers, Doing(g, "write")', New(g)' # NoImage
        PROVE  /\ New(g)' \in bucket' /\ Old(g)' # New(g)'
               /\ \A n \in Movers : image'[n] # New(g)'
               /\ \A f \in Handlers \ {g} : Live(f)' => Old(f)' # New(g)' /\ New(f)' # New(g)'
    <3>1. g # h /\ Doing(g, "write") /\ New(g)' = New(g) /\ Old(g)' = Old(g)
      BY <1>3, <1>4, <2>1
    <3>2. /\ New(g) \in bucket /\ Old(g) # New(g) /\ \A n \in Movers : image[n] # New(g)
          /\ \A f \in Handlers \ {g} : Live(f) => Old(f) # New(g) /\ New(f) # New(g)
      BY <2>1, <3>1 DEF ImageInv, UploadedIsNew
    <3>3. \A f \in Handlers \ {g} : Live(f)' => Old(f)' # New(g) /\ New(f)' # New(g)
      BY <1>2, <1>3, <3>1, <3>2
    <3>4. \A n \in Movers : image'[n] # New(g)
      BY <1>2, <1>5, <3>1, <3>2
    <3> QED BY <3>1, <3>2, <3>3, <3>4
  <2> QED BY <2>1 DEF UploadedIsNew
<1>9. ReplacedIsGone'
  <2>1. ASSUME NEW g \in Handlers, Doing(g, "cleanup")'
        PROVE  Old(g)' # NoImage /\ \A n \in Movers : image'[n] # Old(g)'
    <3>1. CASE g = h
      BY <1>1, <1>2, <2>1, <3>1 DEF Doing
    <3>2. CASE g # h
      BY <1>2, <1>3, <1>5, <2>1, <3>2 DEF ImageInv, ReplacedIsGone
    <3> QED BY <3>1, <3>2
  <2> QED BY <2>1 DEF ReplacedIsGone
<1>10. RolledBackIsFree'
  <2>1. ASSUME NEW g \in Handlers, Doing(g, "rollback")', New(g)' # NoImage
        PROVE  New(g)' \in torn' \/ \A n \in Movers : image'[n] # New(g)'
    <3>1. CASE g = h
      BY <1>2, <2>1, <3>1 DEF Doing
    <3>2. CASE g # h
      BY <1>2, <1>3, <1>5, <2>1, <3>2 DEF ImageInv, RolledBackIsFree
    <3> QED BY <3>1, <3>2
  <2> QED BY <2>1 DEF RolledBackIsFree
<1>11. Uploaders'
  <2>1. \A n \in Movers \ registered' : image'[n] = NoImage
    BY <1>1 DEF ImageInv, Uploaders
  <2> QED BY <1>3, <1>4, <2>1 DEF ImageInv, Uploaders
<1>12. ImagesExist'
  BY <1>2, <1>5 DEF ImageInv, ImagesExist
<1>13. Accounted'
  <2> SUFFICES ASSUME NEW i \in bucket
               PROVE  HasReason(i)'
    BY DEF Accounted
  <2>1. HasReason(i) /\ i # NoImage
    BY ImagesAreNumbers DEF ImageInv, Accounted
  <2>2. CASE \E n \in Movers : image[n] = i
    <3>1. CASE image[m] = i
      <4>1. CASE i \in orphans' \/ i = image'[m]
        BY <1>1, <4>1 DEF HasReason, m
      <4>2. CASE Replaces(h) /\ i = Old(h) /\ handler'[h].step = "cleanup"
        BY <1>2, <4>2 DEF HasReason, Doing
      <4> QED BY <1>1, <2>1, <3>1, <4>1, <4>2 DEF m
    <3>2. CASE image[m] # i
      BY <1>1, <2>2, <3>2 DEF HasReason, m
    <3> QED BY <3>1, <3>2
  <2>3. CASE i \in orphans
    BY <2>3 DEF HasReason
  <2>4. CASE \E g \in Handlers : (Doing(g, "write") \/ Doing(g, "rollback")) /\ New(g) = i
    <3>1. PICK g \in Handlers : (Doing(g, "write") \/ Doing(g, "rollback")) /\ New(g) = i
      BY <2>4
    <3>2. CASE g = h
      BY <1>1, <2>1, <3>1, <3>2 DEF HasReason, m
    <3>3. CASE g # h
      BY <1>3, <3>1, <3>3 DEF HasReason
    <3> QED BY <3>2, <3>3
  <2>5. CASE \E g \in Handlers : Doing(g, "cleanup") /\ Old(g) = i
    BY <1>3, <2>5 DEF HasReason, Doing
  <2> QED BY <2>1, <2>2, <2>3, <2>4, <2>5 DEF HasReason
<1> QED BY <1>6, <1>7, <1>8, <1>9, <1>10, <1>11, <1>12, <1>13 DEF ImageInv

LEMMA RefusalKeepsImages ==
  ASSUME TypeOK, ImageInv, UNCHANGED <<image, s3, registered>>, NEW h \in Handlers,
         Doing(h, "write"), Goto(h, "rollback")
  PROVE  ImageInv'
<1> USE DEF ImageInv, Live, Old, New, Doing
<1> DEFINE w == [handler[h] EXCEPT !.step = "rollback"]
<1>1. w.step = "rollback" /\ w.old = Old(h) /\ w.new = New(h) /\ w.mover = handler[h].mover
  BY LiveIsWriting, Goes
<1>2. handler' = [handler EXCEPT ![h] = w]
  BY DEF Goto
<1> HIDE DEF w
<1>0. /\ UNCHANGED <<image, bucket, uploads, orphans, torn, registered>>
      /\ handler'[h] = w
      /\ \A g \in Handlers \ {h} : handler'[g] = handler[g]
  BY <1>2, Steps DEF s3
<1>3. Numbered'
  BY <1>0, <1>1 DEF Numbered
<1>4. OneOwner'
  BY <1>0, <1>1 DEF OneOwner
<1>5. UploadedIsNew'
  BY <1>0, <1>1 DEF UploadedIsNew
<1>6. ReplacedIsGone' /\ RolledBackIsFree'
  BY <1>0, <1>1 DEF ReplacedIsGone, RolledBackIsFree, UploadedIsNew
<1>7. Uploaders'
  BY <1>0, <1>1 DEF Uploaders
<1>8. ImagesExist'
  BY <1>0 DEF ImagesExist
<1>9. Accounted'
  BY <1>0, <1>1 DEF Accounted, HasReason
<1> QED BY <1>3, <1>4, <1>5, <1>6, <1>7, <1>8, <1>9

(* An image that nobody names is deleted, or left behind.                  *)
LEMMA DiscardKeepsImages ==
  ASSUME TypeOK, ImageInv, NEW h \in Handlers, NEW img, NEW next \in {"idle", "invalidate"},
         Discard(h, img, next),
         \/ Doing(h, "rollback") /\ img = New(h)
         \/ Doing(h, "cleanup") /\ img = Old(h)
  PROVE  ImageInv'
<1> USE DEF ImageInv, Live, Old, New, Doing
<1>1. /\ Live(h) /\ handler[h] \in Writing /\ img \in Nat
      /\ UNCHANGED <<image, uploads, torn, registered>>
      /\ \/ bucket' = bucket \ {img} /\ orphans' = orphans
         \/ bucket' = bucket /\ orphans' = orphans \cup {img}
  BY LiveIsWriting DEF Discard, rows
<1>2. \A g \in Handlers \ {h} : handler'[g] = handler[g]
  BY Steps DEF Discard, Finish, Goto
<1>3. handler'[h].step \in {"idle", "invalidate"}
  <2>1. CASE Finish(h)
    BY <2>1, TypeParts DEF Types, Finish, Idle
  <2>2. CASE Goto(h, "invalidate")
    <3>1. handler'[h] = [handler[h] EXCEPT !.step = "invalidate"]
      BY <2>2, TypeParts DEF Types, Goto
    <3> QED BY <1>1, <3>1, Goes
  <2> QED BY <2>1, <2>2 DEF Discard
<1>4. img # NoImage => img \in torn \/ \A m \in Movers : image[m] # img
  BY DEF RolledBackIsFree, ReplacedIsGone
<1>5. \A g \in Handlers \ {h} : Doing(g, "write") /\ New(g) # NoImage => New(g) # img
  BY <1>1 DEF UploadedIsNew
<1>6. Numbered'
  BY <1>1, <1>2, <1>3 DEF Numbered
<1>7. OneOwner'
  BY <1>1, <1>2, <1>3 DEF OneOwner
<1>8. UploadedIsNew'
  <2>1. ASSUME NEW g \in Handlers, Doing(g, "write")', New(g)' # NoImage
        PROVE  /\ New(g)' \in bucket' /\ Old(g)' # New(g)'
               /\ \A n \in Movers : image'[n] # New(g)'
               /\ \A f \in Handlers \ {g} : Live(f)' => Old(f)' # New(g)' /\ New(f)' # New(g)'
    <3>1. g # h /\ Doing(g, "write") /\ New(g)' = New(g) /\ Old(g)' = Old(g)
      BY <1>2, <1>3, <2>1
    <3>2. New(g) \in bucket'
      BY <1>1, <1>5, <2>1, <3>1 DEF UploadedIsNew
    <3>3. \A f \in Handlers \ {g} : Live(f)' => f # h /\ handler'[f] = handler[f]
      BY <1>2, <1>3
    <3> QED BY <1>1, <2>1, <3>1, <3>2, <3>3 DEF UploadedIsNew
  <2> QED BY <2>1 DEF UploadedIsNew
<1>9. ReplacedIsGone' /\ RolledBackIsFree'
  BY <1>1, <1>2, <1>3 DEF ReplacedIsGone, RolledBackIsFree
<1>10. Uploaders'
  BY <1>1, <1>2, <1>3 DEF Uploaders
<1>11. ImagesExist'
  BY <1>1, <1>4 DEF ImagesExist
<1>12. Accounted'
  <2> SUFFICES ASSUME NEW i \in bucket'
               PROVE  HasReason(i)'
    BY DEF Accounted
  <2>1. HasReason(i) /\ (i = img => i \in orphans')
    BY <1>1 DEF Accounted
  <2>2. CASE i = img
    BY <2>1, <2>2 DEF HasReason
  <2>3. CASE i # img
    <3>1. ASSUME NEW g \in Handlers,
                 \/ (Doing(g, "write") \/ Doing(g, "rollback")) /\ New(g) = i
                 \/ Doing(g, "cleanup") /\ Old(g) = i
          PROVE  g # h
      BY <2>3, <3>1
    <3> QED BY <1>1, <1>2, <2>1, <3>1 DEF HasReason
  <2> QED BY <2>2, <2>3
<1> QED BY <1>6, <1>7, <1>8, <1>9, <1>10, <1>11, <1>12

LEMMA ImageStep ==
  ASSUME TypeOK, TypeOK', ImageInv, [Next]_vars
  PROVE  ImageInv'
<1>0. \A h \in Handlers : handler[h] \in States
  BY TypeParts DEF Types
(* A handler that is not at an image moves.                                *)
<1>a. ASSUME NEW h \in Handlers, NEW k \in Cursors, NEW mine \in BOOLEAN, Ask(h, k, mine)
      PROVE  ImageInv'
  <2> DEFINE w == [step |-> "query", cursor |-> k, mine |-> mine]
  <2>1. handler' = [handler EXCEPT ![h] = w] /\ w.step = "query"
    BY <1>a DEF Ask
  <2> HIDE DEF w
  <2> QED BY <1>a, <2>1, OneImageQuiet DEF Ask, Doing, Live, rows
<1>b. ASSUME NEW h \in Handlers, Query(h)
      PROVE  ImageInv'
  <2> DEFINE w == [step |-> "respond", cursor |-> handler[h].cursor, mine |-> handler[h].mine,
                   page |-> Stamped(CurrentPage(handler[h].cursor))]
  <2>1. handler' = [handler EXCEPT ![h] = w] /\ w.step = "respond"
    BY <1>b DEF Query
  <2> HIDE DEF w
  <2> QED BY <1>b, <2>1, OneImageQuiet DEF Query, Doing, Live, rows
<1>c. ASSUME NEW h \in Handlers, Finish(h), UNCHANGED <<image, s3, registered>>,
             ~Live(h) \/ Doing(h, "upload") \/ (Doing(h, "write") /\ New(h) = NoImage)
      PROVE  ImageInv'
  <2>1. handler' = [handler EXCEPT ![h] = Idle] /\ Idle.step = "idle"
    BY <1>c DEF Finish, Idle
  <2> QED BY <1>c, <2>1, OneImageQuiet
<1>d. ASSUME NEW h \in Handlers, Respond(h)
      PROVE  ImageInv'
  BY <1>c, <1>d DEF Respond, Doing, Live, rows
<1>e. CASE StartScroll \/ ScrollOnCached \/ \E k \in Cursors : Expire(k)
  BY <1>e, ImageQuiet DEF StartScroll, ScrollOnCached, Expire, rows
<1>f. ASSUME NEW h \in Handlers, NEW step \in {"upload", "write"}, NEW kind \in Kinds,
             NEW m \in Movers, NEW change \in Changes, Begin(h, step, kind, m, change),
             step = "upload" => change = "replace" /\ kind \in {"create", "update"}
      PROVE  ImageInv'
  <2> DEFINE w == [step |-> step, kind |-> kind, mover |-> m, change |-> change,
                   old |-> image[m], new |-> NoImage]
  <2>1. handler' = [handler EXCEPT ![h] = w] /\ UNCHANGED <<image, s3, registered>>
    BY <1>f DEF Begin, rows
  <2>2. /\ w \in Writing /\ w.step = step /\ w.old = image[w.mover] /\ w.new = NoImage
        /\ w.change = change /\ w.kind = kind
    BY DEF Writing, TypeOK
  <2>3. ~Live(h)
    BY <1>f DEF Begin, Doing, Live
  <2> HIDE DEF w
  <2> QED BY <1>f, <2>1, <2>2, <2>3, BeginKeepsImages
<1>g. ASSUME NEW h \in Handlers, NEW m \in Movers,
             \/ \E change \in Changes : StartCreate(h, m, change) \/ StartUpdate(h, m, change)
             \/ StartReview(h, m) \/ StartLike(h, m) \/ StartUnlike(h, m) \/ StartAccept(h, m)
             \/ StartAnswer(h, m)
      PROVE  ImageInv'
  <2>1. PICK step \in {"upload", "write"}, kind \in Kinds, change \in Changes :
          /\ Begin(h, step, kind, m, change)
          /\ step = "upload" => change = "replace" /\ kind \in {"create", "update"}
    BY <1>g DEF StartCreate, StartUpdate, StartReview, StartLike, StartUnlike, StartAccept, StartAnswer,
       FirstStep, Kinds, Changes
  <2> QED BY <1>f, <2>1
<1>h. ASSUME NEW h \in Handlers, NEW M \in SUBSET Movers, StartBulkUnlike(h, M)
      PROVE  ImageInv'
  <2> DEFINE w == [step |-> "deleteMany", movers |-> M]
  <2>1. handler' = [handler EXCEPT ![h] = w] /\ w.step = "deleteMany"
    BY <1>h DEF StartBulkUnlike
  <2> HIDE DEF w
  <2> QED BY <1>h, <2>1, OneImageQuiet DEF StartBulkUnlike, Doing, Live, rows
<1>i. ASSUME NEW h \in Handlers, UploadFails(h)
      PROVE  ImageInv'
  <2>1. CASE UNCHANGED <<bucket, uploads, orphans>>
    BY <1>c, <1>i, <2>1 DEF UploadFails, rows, s3
  <2>2. CASE /\ uploads' = uploads + 1 /\ bucket' = bucket \cup {uploads'}
             /\ orphans' = orphans \cup {uploads'}
    BY <1>i, <2>2, LostUploadKeepsImages DEF UploadFails, rows
  <2> QED BY <1>i, <2>1, <2>2 DEF UploadFails
(* A review, a like or an estimate is written; its handler has no image.   *)
<1>j. ASSUME NEW h \in Handlers, Doing(h, "write"), Effect(h)
      PROVE  New(h) = NoImage
  BY <1>j DEF Effect, ImageInv, Uploaders
<1>k. ASSUME NEW h \in Handlers, Write(h)
      PROVE  ImageInv'
  <2>1. handler[h] \in Writing /\ Doing(h, "write") /\ New(h) = NoImage
    BY <1>j, <1>k, LiveIsWriting DEF Write, Live, Doing
  <2> DEFINE w == [handler[h] EXCEPT !.step = "invalidate"]
  <2>2. handler' = [handler EXCEPT ![h] = w] /\ w.step = "invalidate"
    BY <1>k, <2>1, Goes DEF Write, Goto
  <2> HIDE DEF w
  <2> QED BY <1>k, <2>1, <2>2, OneImageQuiet DEF Write
<1>l. ASSUME NEW h \in Handlers, NEW w \in {Idle} \cup Writing, NEW n \in Nat,
             handler' = [g \in Handlers |-> IF g = h THEN w ELSE ExcusedHandler(g, n)]
      PROVE  /\ handler'[h] = w
             /\ \A g \in Handlers \ {h} : handler'[g].step = handler[g].step
             /\ \A g \in Handlers \ {h} : Live(g) => handler'[g] = handler[g]
  BY <1>l, ExcusesHandler DEF Live, Doing
<1>m. ASSUME NEW h \in Handlers, UNCHANGED <<image, s3, registered>>, NEW n \in Nat,
             handler' = [g \in Handlers |-> IF g = h THEN Idle ELSE ExcusedHandler(g, n)],
             ~Live(h) \/ Doing(h, "upload") \/ (Doing(h, "write") /\ New(h) = NoImage)
      PROVE  ImageInv'
  <2>1. /\ handler'[h] = Idle
        /\ \A g \in Handlers \ {h} : handler'[g].step = handler[g].step
        /\ \A g \in Handlers \ {h} : Live(g) => handler'[g] = handler[g]
    BY <1>l, <1>m
  <2>2. ~Live(h)' /\ \A g \in Handlers \ {h} : Live(g)' => Live(g)
    BY <2>1 DEF Live, Idle
  <2>3. \A g \in Handlers : Live(g)' => handler'[g] = handler[g]
    BY <2>1, <2>2
  <2>4. \A g \in Handlers : Live(g) =>
          handler'[g] = handler[g] \/ Doing(g, "upload") \/ (Doing(g, "write") /\ New(g) = NoImage)
    BY <1>m, <2>1
  <2> QED BY <1>m, <2>3, <2>4, ImageQuiet
<1>n. ASSUME NEW h \in Handlers, WriteFails(h)
      PROVE  ImageInv'
  <2>1. ~Live(h) \/ (Doing(h, "write") /\ New(h) = NoImage)
    BY <1>n DEF WriteFails, Live, Doing, ImageInv, Uploaders
  <2> QED BY <1>c, <1>n, <2>1 DEF WriteFails, rows
<1>x. ASSUME NEW h \in Handlers, WriteUnannounced(h)
      PROVE  ImageInv'
  <2>1. writes' \in Nat
    BY DEF TypeOK
  <2> QED BY <1>j, <1>m, <1>x, <2>1 DEF WriteUnannounced
<1>o. ASSUME NEW h \in Handlers, DeleteMany(h)
      PROVE  ImageInv'
  <2>1. handler[h] \in BulkUnliking
    BY <1>0, <1>o, StateOf DEF DeleteMany, Doing
  <2> DEFINE w == [handler[h] EXCEPT !.step = "invalidate"]
  <2>2. handler' = [handler EXCEPT ![h] = w] /\ w.step = "invalidate"
    BY <1>o, <2>1 DEF DeleteMany, Goto, BulkUnliking
  <2> HIDE DEF w
  <2> QED BY <1>o, <2>2, OneImageQuiet DEF DeleteMany, Doing, Live
<1>p. ASSUME NEW h \in Handlers, Invalidate(h)
      PROVE  ImageInv'
  <2>1. writes \in Nat /\ ~Live(h)
    BY <1>p DEF TypeOK, Invalidate, Live, Doing
  <2> QED BY <1>m, <1>p, <2>1 DEF Invalidate, rows
<1>q. ASSUME NEW h \in Handlers, SaveProfile(h)
      PROVE  ImageInv'
  <2>1. /\ handler[h] \in Writing /\ Doing(h, "write") /\ handler[h].kind \in {"create", "update"}
        /\ UNCHANGED <<bucket, uploads, torn>>
    BY <1>q, LiveIsWriting DEF SaveProfile, Live, Doing
  <2>2. CASE /\ handler[h].kind = "update" \/ handler[h].mover \notin registered
             /\ Saved(h) /\ orphans' = orphans \cup Overwritten(h)
             /\ Goto(h, IF Replaces(h) THEN "cleanup" ELSE "invalidate")
    <3> DEFINE step == IF Replaces(h) THEN "cleanup" ELSE "invalidate"
               w == [handler[h] EXCEPT !.step = step]
    <3>1. step \in {"cleanup", "invalidate"} /\ (step = "cleanup" <=> Replaces(h))
      OBVIOUS
    <3>2. handler' = [handler EXCEPT ![h] = w]
      BY <2>2 DEF Goto
    <3> HIDE DEF step
    <3>3. w.step = step /\ w.old = Old(h) /\ w.new = New(h) /\ w.mover = handler[h].mover
      BY <2>1, <3>1, Goes DEF Old, New
    <3> HIDE DEF w
    <3>4. handler'[h] = w /\ \A g \in Handlers \ {h} : handler'[g] = handler[g]
      BY <3>2, Steps
    <3> QED BY <2>1, <2>2, <3>1, <3>3, <3>4, SavedKeepsImages
  <2>3. CASE Goto(h, "rollback") /\ UNCHANGED <<rows, orphans, scroll, writes>>
    BY <2>1, <2>3, RefusalKeepsImages DEF rows, s3
  <2> QED BY <1>q, <2>2, <2>3 DEF SaveProfile
<1>r. ASSUME NEW h \in Handlers, SaveFails(h)
      PROVE  ImageInv'
  <2>1. /\ handler[h] \in Writing /\ Doing(h, "write") /\ handler[h].kind \in {"create", "update"}
        /\ UNCHANGED <<bucket, uploads>>
    BY <1>r, LiveIsWriting DEF SaveFails, Live, Doing
  <2>2. CASE Goto(h, "rollback") /\ UNCHANGED <<rows, orphans, torn, cache, scroll, writes>>
    BY <2>1, <2>2, RefusalKeepsImages DEF rows, s3
  <2>3. CASE /\ handler[h].kind = "update" \/ handler[h].mover \notin registered
             /\ Saved(h)
             /\ orphans' = orphans \cup Overwritten(h) \cup
                             (IF Replaces(h) THEN {handler[h].old} ELSE {})
             /\ torn' = torn \cup ({handler[h].new} \ {NoImage})
             /\ handler' = [g \in Handlers |->
                  IF g = h THEN [handler[h] EXCEPT !.step = "rollback"] ELSE ExcusedHandler(g, writes')]
    <3> DEFINE w == [handler[h] EXCEPT !.step = "rollback"]
    <3>1. /\ w \in Writing /\ w.step = "rollback" /\ w.old = Old(h) /\ w.new = New(h)
          /\ w.mover = handler[h].mover
      BY <2>1, Goes DEF Old, New
    <3>2. writes' \in Nat /\ handler' = [g \in Handlers |-> IF g = h THEN w ELSE ExcusedHandler(g, writes')]
      BY <2>3 DEF TypeOK
    <3> HIDE DEF w
    <3>3. /\ handler'[h] = w
          /\ \A g \in Handlers \ {h} : handler'[g].step = handler[g].step
          /\ \A g \in Handlers \ {h} : Live(g) => handler'[g] = handler[g]
      BY <1>l, <3>1, <3>2
    <3>4. /\ torn \subseteq torn' /\ orphans \cup Overwritten(h) \subseteq orphans'
          /\ Replaces(h) => Old(h) \in orphans'
          /\ New(h) \in torn' \cup {NoImage}
      BY <2>3 DEF Old, New
    <3> QED BY <2>1, <2>3, <3>1, <3>3, <3>4, SavedKeepsImages
  <2> QED BY <1>r, <2>2, <2>3 DEF SaveFails
<1>s. ASSUME NEW h \in Handlers, Rollback(h) \/ Cleanup(h)
      PROVE  ImageInv'
  BY <1>s, DiscardKeepsImages DEF Rollback, Cleanup, Old, New
<1>t. CASE Crash
  <2>1. /\ handler' = [h \in Handlers |-> Idle]
        /\ orphans' = orphans \cup ((UNION {InFlight(h) : h \in Handlers}) \ {image[m] : m \in Movers})
        /\ UNCHANGED <<image, registered, bucket, uploads, torn>>
    BY <1>t DEF Crash, rows
  <2>2. \A h \in Handlers : handler'[h].step = "idle"
    BY <2>1 DEF Idle
  <2>3. Accounted'
    <3> SUFFICES ASSUME NEW i \in bucket
                 PROVE  (\E m \in Movers : image[m] = i) \/ i \in orphans'
      BY <2>1 DEF Accounted, HasReason
    <3>1. HasReason(i) /\ i # NoImage
      BY ImagesAreNumbers DEF ImageInv, Accounted
    <3>2. ASSUME NEW h \in Handlers,
                 \/ (Doing(h, "write") \/ Doing(h, "rollback")) /\ New(h) = i
                 \/ Doing(h, "cleanup") /\ Old(h) = i
          PROVE  i \in InFlight(h)
      BY <3>1, <3>2 DEF InFlight, Doing, Old, New
    <3> DEFINE all == UNION {InFlight(h) : h \in Handlers}
    <3>3. CASE i \in UNION {InFlight(h) : h \in Handlers}
      <4>1. i \in all
        BY <3>3
      <4>2. orphans' = orphans \cup (all \ {image[m] : m \in Movers})
        BY <2>1
      <4> HIDE DEF all
      <4> QED BY <4>1, <4>2
    <3>4. CASE i \notin UNION {InFlight(h) : h \in Handlers}
      <4>1. \A h \in Handlers : i \notin InFlight(h)
        BY <3>4
      <4> QED BY <2>1, <3>1, <3>2, <4>1 DEF HasReason
    <3> QED BY <3>3, <3>4
  <2>4. /\ Numbered' /\ OneOwner' /\ UploadedIsNew' /\ ReplacedIsGone' /\ RolledBackIsFree'
    BY <2>1, <2>2 DEF ImageInv, Numbered, OneOwner, UploadedIsNew, ReplacedIsGone, RolledBackIsFree,
       Live, Doing
  <2>5. Uploaders' /\ ImagesExist'
    BY <2>1, <2>2 DEF ImageInv, Uploaders, ImagesExist, Doing
  <2> QED BY <2>3, <2>4, <2>5 DEF ImageInv
<1>u. CASE UNCHANGED vars
  BY <1>u, ImageQuiet DEF vars, rows
<1>v. ASSUME NEW h \in Handlers, ScrollOn(h) \/ \E k \in Cursors : Visit(h, k)
      PROVE  ImageInv'
  BY <1>a, <1>v, TypeParts DEF Types, ScrollType, Visit, ScrollOn
<1>w. ASSUME NEW h \in Handlers, Upload(h)
      PROVE  ImageInv'
  BY <1>w, UploadKeepsImages
<1> QED
  BY <1>b, <1>d, <1>e, <1>g, <1>h, <1>i, <1>k, <1>n, <1>o, <1>p, <1>q, <1>r, <1>s, <1>t,
     <1>u, <1>v, <1>w, <1>x DEF Next, Step

-----------------------------------------------------------------------------
(* The scroll.  Where the visitor stands: who is not on the screen comes   *)
(* after the cursor, and who is came before it; but for those that moved,  *)
(* and, of the second, unless some cursor had moved when it was used.      *)
Ahead(r, c, n) == c = Start \/ (c \in Movers /\ Before(r, c, n))

StandsAt(l, moved, j, r, c, seen) ==
  /\ \A n \in (l \ moved) \ seen : c # Done /\ Ahead(r, c, n)
  /\ c \in Movers => c \in seen
  /\ c = Start => seen = {}
  /\ ~j /\ c \notin moved =>
       \A n \in seen \ moved : c = Done \/ n = c \/ (c \in Movers /\ Before(r, n, c))

Standing(c, seen) == StandsAt(listed, scroll.moved, scroll.jumped, reviews, c, seen)

Mine(h) == handler[h].step \in {"query", "respond"} /\ handler[h].mine

(* The visitor asks for one page at a time.                                *)
OneAnswer ==
  /\ scroll.asking => scroll.next # Done
  /\ \A h \in Handlers : Mine(h) => scroll.asking /\ handler[h].cursor = scroll.next
  /\ \A g, h \in Handlers : Mine(g) /\ Mine(h) => g = h

Screen ==
  ~scroll.spoiled /\ (scroll.next # Done \/ scroll.seen # {}) =>
    /\ Standing(scroll.next, scroll.seen)
    /\ ~scroll.jumped => scroll.twice \subseteq scroll.moved

(* The page that is about to be shown leads to such a place again.         *)
LeadsAt(page, j) ==
  /\ StandsAt(listed, scroll.moved, j, reviews, page.next, scroll.seen \cup page.shown)
  /\ ~j => scroll.seen \cap page.shown \subseteq scroll.moved

Leads(page) == LeadsAt(page, scroll.jumped)

NextScreen ==
  \A h \in Handlers : Mine(h) /\ Doing(h, "respond") /\ ~scroll.spoiled => Leads(handler[h].page)

ScrollInv == OneAnswer /\ Screen /\ NextScreen

(* A page that is up to date leads on from where the visitor stands.       *)
LEMMA PageLeadsOn ==
  ASSUME TypeOK, scroll.next # Done, Standing(scroll.next, scroll.seen), ~Cut(scroll.next),
         NEW page, Same(page, CurrentPage(scroll.next)),
         NEW j, ~j => ~scroll.jumped /\ scroll.next \notin scroll.moved
  PROVE  LeadsAt(page, j)
<1> DEFINE k == scroll.next
           R == RowsAfter(listed, reviews, k)
           shown == page.shown
           next == page.next
           seen == scroll.seen
           moved == scroll.moved
<1>1. /\ reviews \in [Movers -> Nat] /\ listed \in SUBSET Movers /\ k \in Cursors
      /\ seen \subseteq Movers
  BY TypeParts DEF Types, ScrollType
<1>2. /\ shown \subseteq R /\ R \subseteq listed /\ next \in Movers \cup {Done}
      /\ next = Done => shown = R
      /\ next # Done =>
           /\ next \in shown
           /\ \A m \in shown : m = next \/ Before(reviews, m, next)
           /\ \A m \in R \ shown : Before(reviews, next, m)
  <2>1. shown = PageAt(listed, reviews, k).shown /\ next = PageAt(listed, reviews, k).next
    BY DEF Same, CurrentPage
  <2> HIDE DEF k, shown, next
  <2> QED BY <1>1, <2>1, PageHasNoGap DEF Page
<1>3. /\ k = Start => R = listed
      /\ k # Start => k \in listed /\ R = {m \in listed : Before(reviews, k, m)}
  BY <1>1 DEF Cut, RowsAfter
<1>4. /\ \A n \in (listed \ moved) \ seen : Ahead(reviews, k, n)
      /\ k = Start => seen = {}
      /\ ~j => \A n \in seen \ moved : n = k \/ (k \in Movers /\ Before(reviews, n, k))
  BY DEF Standing, StandsAt
<1>5. /\ \A m \in Movers : ~Before(reviews, m, m)
      /\ \A l, m, n \in Movers : Before(reviews, l, m) /\ Before(reviews, m, n) => Before(reviews, l, n)
  BY <1>1, BeforeIsTotal
<1>6. Start \notin Movers /\ Start # Done /\ Done \notin Movers
  BY ListAssumption
<1> HIDE DEF k, R, shown, next, seen, moved
<1>7. \A n \in (listed \ moved) \ (seen \cup shown) : next # Done /\ Ahead(reviews, next, n)
  <2> SUFFICES ASSUME NEW n \in (listed \ moved) \ (seen \cup shown)
               PROVE  next # Done /\ Ahead(reviews, next, n)
    OBVIOUS
  <2>1. n \in R
    BY <1>3, <1>4 DEF Ahead
  <2> QED BY <1>2, <2>1 DEF Ahead
<1>8. ~j => /\ \A n \in (seen \cup shown) \ moved :
                   next = Done \/ n = next \/ (next \in Movers /\ Before(reviews, n, next))
            /\ seen \cap shown \subseteq moved
  <2> SUFFICES ASSUME ~j
               PROVE  /\ \A n \in (seen \cup shown) \ moved :
                           next = Done \/ n = next \/ (next \in Movers /\ Before(reviews, n, next))
                      /\ seen \cap shown \subseteq moved
    OBVIOUS
  <2>1. ASSUME NEW n \in seen \ moved
        PROVE  /\ k # Start /\ k \in Movers /\ (n = k \/ Before(reviews, n, k))
               /\ \A m \in R : Before(reviews, k, m) /\ Before(reviews, n, m) /\ m # n
    <3>1. k # Start /\ k \in Movers /\ (n = k \/ Before(reviews, n, k))
      BY <1>1, <1>3, <1>4
    <3> QED BY <1>1, <1>2, <1>3, <1>5, <3>1
  <2>2. ASSUME NEW n \in seen \ moved, next # Done
        PROVE  next \in Movers /\ Before(reviews, n, next)
    BY <1>2, <2>1, <2>2
  <2> QED BY <1>2, <2>1, <2>2
<1>9. next \in Movers => next \in seen \cup shown
  BY <1>2, <1>6
<1>10. next # Start
  BY <1>2, <1>6
<1> QED BY <1>7, <1>8, <1>9, <1>10 DEF LeadsAt, StandsAt, shown, next, seen, moved

(* Writes move none but those they name.                                   *)
Moves ==
  /\ scroll.moved \subseteq scroll'.moved
  /\ \A n \in Movers : reviews'[n] >= reviews[n]
  /\ \A n \in Movers \ scroll'.moved : reviews'[n] = reviews[n] /\ (n \in listed' <=> n \in listed)

LEMMA StandingLasts ==
  ASSUME TypeOK, TypeOK', Moves, NEW c, NEW seen \in SUBSET Movers, Standing(c, seen)
  PROVE  StandsAt(listed', scroll'.moved, scroll.jumped, reviews', c, seen)
<1> DEFINE r == reviews
           q == reviews'
<1>1. /\ r \in [Movers -> Nat] /\ q \in [Movers -> Nat] /\ listed' \subseteq Movers
      /\ Movers \subseteq Nat
  BY ListAssumption DEF TypeOK
<1>2. ASSUME NEW n \in (listed' \ scroll'.moved) \ seen
      PROVE  c # Done /\ Ahead(q, c, n)
  <2>1. n \in (listed \ scroll.moved) \ seen /\ n \in Movers /\ q[n] = r[n]
    BY <1>1 DEF Moves
  <2>2. c # Done /\ Ahead(r, c, n)
    BY <2>1 DEF Standing, StandsAt
  <2>3. CASE c = Start
    BY <2>2, <2>3 DEF Ahead
  <2>4. CASE c \in Movers /\ Before(r, c, n)
    <3>1. q[c] >= r[c] /\ q[c] \in Nat /\ r[c] \in Nat /\ q[n] \in Nat
      BY <1>1, <2>1, <2>4 DEF Moves
    <3>2. Before(q, c, n)
      BY <2>1, <2>4, <3>1 DEF Before
    <3> QED BY <2>2, <2>4, <3>2 DEF Ahead
  <2> QED BY <2>2, <2>3, <2>4 DEF Ahead
<1>3. ASSUME ~scroll.jumped, c \notin scroll'.moved, NEW n \in seen \ scroll'.moved
      PROVE  c = Done \/ n = c \/ (c \in Movers /\ Before(q, n, c))
  <2>1. c \notin scroll.moved /\ n \notin scroll.moved
    BY <1>3 DEF Moves
  <2>2. c = Done \/ n = c \/ (c \in Movers /\ Before(r, n, c))
    BY <1>3, <2>1 DEF Standing, StandsAt
  <2>3. c \in Movers => q[c] = r[c] /\ q[n] = r[n]
    BY <1>3 DEF Moves, Standing, StandsAt
  <2> QED BY <2>2, <2>3 DEF Before
<1> QED BY <1>2, <1>3 DEF Standing, StandsAt

(* A step that leaves the visitor where they stand.                        *)
LEMMA ScrollQuiet ==
  ASSUME TypeOK, TypeOK', ScrollInv, Moves,
         scroll'.next = scroll.next, scroll'.seen = scroll.seen, scroll'.twice = scroll.twice,
         scroll'.jumped = scroll.jumped, scroll'.spoiled = scroll.spoiled,
         scroll'.asking => scroll.asking,
         \A h \in Handlers : Mine(h)' =>
           /\ Mine(h) /\ scroll'.asking
           /\ handler'[h].step = handler[h].step /\ handler'[h].cursor = handler[h].cursor
           /\ Doing(h, "respond") => /\ handler'[h].page.next = handler[h].page.next
                                     /\ handler'[h].page.shown = handler[h].page.shown
  PROVE  ScrollInv'
<1>1. scroll.seen \in SUBSET Movers
  BY TypeParts DEF Types, ScrollType
<1>2. OneAnswer'
  BY DEF ScrollInv, OneAnswer
<1>3. Screen'
  <2> SUFFICES ASSUME ~scroll.spoiled, scroll.next # Done \/ scroll.seen # {}
               PROVE  /\ StandsAt(listed', scroll'.moved, scroll.jumped, reviews', scroll.next, scroll.seen)
                      /\ ~scroll.jumped => scroll.twice \subseteq scroll'.moved
    BY DEF Screen, Standing
  <2>1. Standing(scroll.next, scroll.seen) /\ (~scroll.jumped => scroll.twice \subseteq scroll.moved)
    BY DEF ScrollInv, Screen
  <2> QED BY <1>1, <2>1, StandingLasts DEF Moves
<1>4. NextScreen'
  <2> SUFFICES ASSUME NEW h \in Handlers, Mine(h)', Doing(h, "respond")', ~scroll.spoiled
               PROVE  Leads(handler[h].page)'
    BY DEF NextScreen
  <2>1. Mine(h) /\ Doing(h, "respond") /\ Leads(handler[h].page)
    BY DEF ScrollInv, NextScreen, Doing
  <2> DEFINE d == handler[h].page.next
             T == handler[h].page.shown
             S == scroll.seen \cup T
  <2>2. d = handler'[h].page.next /\ T = handler'[h].page.shown /\ scroll.seen = scroll'.seen
    BY <2>1
  <2>3. T \subseteq Movers
    BY <2>1, TypeParts, StateOf DEF Types, Doing, Responding, StampedPage
  <2>4. Standing(d, S) /\ (~scroll.jumped => scroll.seen \cap T \subseteq scroll.moved)
    BY <2>1 DEF Leads, LeadsAt, Standing
  <2> HIDE DEF d, T
  <2>5. StandsAt(listed', scroll'.moved, scroll.jumped, reviews', d, S)
    BY <1>1, <2>3, <2>4, StandingLasts
  <2>6. ~scroll.jumped => scroll.seen \cap T \subseteq scroll'.moved
    BY <2>4 DEF Moves
  <2> QED BY <2>2, <2>5, <2>6 DEF Leads, LeadsAt
<1> QED BY <1>2, <1>3, <1>4 DEF ScrollInv

StaysPut ==
  /\ Moves
  /\ scroll'.next = scroll.next /\ scroll'.seen = scroll.seen /\ scroll'.twice = scroll.twice
  /\ scroll'.jumped = scroll.jumped /\ scroll'.spoiled = scroll.spoiled
  /\ scroll'.asking = scroll.asking

LEMMA StaysIfUnchanged ==
  ASSUME TypeOK, UNCHANGED <<listed, reviews, scroll>>
  PROVE  StaysPut
BY DEF TypeOK, StaysPut, Moves

(* Profiles and reviews that are written, and their mover is marked.       *)
LEMMA WritesMark ==
  ASSUME TypeOK, NEW h \in Handlers, handler[h] \in Writing, Saved(h) \/ (Effect(h) /\ listed' = listed)
  PROVE  StaysPut
<1> DEFINE m == handler[h].mover
<1>1. m \in Movers /\ reviews \in [Movers -> Nat] /\ scroll \in ScrollType
  BY TypeParts DEF Types, Writing
<1>2. /\ reviews' = reviews \/ reviews' = [reviews EXCEPT ![m] = @ + 1]
      /\ \A n \in Movers \ {m} : n \in listed' <=> n \in listed
      /\ (listed' = listed /\ reviews' = reviews) \/ Moving(m)
      /\ scroll' = scroll \/ Moving(m)
  BY DEF Saved, Effect, Unmoved
<1> HIDE DEF m
<1>3. \A n \in Movers : reviews'[n] >= reviews[n] /\ (n # m => reviews'[n] = reviews[n])
  BY <1>1, <1>2
<1>4. Moving(m) =>
        /\ scroll'.next = scroll.next /\ scroll'.seen = scroll.seen
        /\ scroll'.twice = scroll.twice /\ scroll'.spoiled = scroll.spoiled
        /\ scroll'.jumped = scroll.jumped
        /\ scroll'.asking = scroll.asking /\ scroll'.moved = scroll.moved \cup {m}
  BY <1>1 DEF Moving, ScrollType
<1>5. CASE Moving(m)
  BY <1>2, <1>3, <1>4, <1>5 DEF StaysPut, Moves
<1>6. CASE ~Moving(m)
  BY <1>1, <1>2, <1>6 DEF StaysPut, Moves
<1> QED BY <1>5, <1>6

LEMMA OneOther ==
  ASSUME TypeOK, TypeOK', ScrollInv, StaysPut, NEW h \in Handlers, NEW w,
         handler' = [handler EXCEPT ![h] = w],
         w.step \in {"query", "respond"} => w.mine = FALSE
  PROVE  ScrollInv'
<1>1. handler'[h] = w /\ \A g \in Handlers \ {h} : handler'[g] = handler[g]
  BY Steps
<1>2. \A g \in Handlers : Mine(g)' => Mine(g) /\ handler'[g] = handler[g] /\ scroll.asking
  BY <1>1 DEF Mine, ScrollInv, OneAnswer
<1> QED BY <1>2, ScrollQuiet DEF StaysPut

LEMMA OthersExcused ==
  ASSUME TypeOK, TypeOK', ScrollInv, StaysPut, NEW h \in Handlers, NEW w, NEW n \in Nat,
         handler' = [g \in Handlers |-> IF g = h THEN w ELSE ExcusedHandler(g, n)],
         w.step \notin {"query", "respond"}
  PROVE  ScrollInv'
<1>1. ~Mine(h)' /\ \A g \in Handlers \ {h} : handler'[g] = ExcusedHandler(g, n)
  BY DEF Mine
<1>2. ASSUME NEW g \in Handlers, Mine(g)'
      PROVE  /\ Mine(g) /\ scroll'.asking
             /\ handler'[g].step = handler[g].step /\ handler'[g].cursor = handler[g].cursor
             /\ Doing(g, "respond") => /\ handler'[g].page.next = handler[g].page.next
                                       /\ handler'[g].page.shown = handler[g].page.shown
  <2>1. g # h /\ handler'[g] = ExcusedHandler(g, n)
    BY <1>1, <1>2
  <2>2. CASE Doing(g, "respond")
    BY <1>2, <2>1, <2>2, ExcusesHandler DEF Mine, Doing, ScrollInv, OneAnswer, StaysPut
  <2>3. CASE ~Doing(g, "respond")
    BY <1>2, <2>1, <2>3, ExcusesHandler DEF Mine, ScrollInv, OneAnswer, StaysPut
  <2> QED BY <2>2, <2>3
<1> QED BY <1>2, ScrollQuiet DEF StaysPut

LEMMA QueryKeepsScroll ==
  ASSUME TypeOK, TypeOK', ScrollInv, NEW h \in Handlers, Query(h)
  PROVE  ScrollInv'
<1> DEFINE k == handler[h].cursor
           page == Stamped(CurrentPage(k))
           w == [step |-> "respond", cursor |-> k, mine |-> handler[h].mine, page |-> page]
<1>1. handler[h] \in Reading /\ k \in Cursors /\ handler[h].step = "query" /\ scroll \in ScrollType
  BY TypeParts, StateOf DEF Types, Query, Doing, Reading
<1>2. handler' = [handler EXCEPT ![h] = w] /\ UNCHANGED <<listed, reviews>>
  BY DEF Query, rows
<1>3. Same(page, CurrentPage(k))
  BY DEF Same, Stamped
<1>4. w.step = "respond" /\ w.cursor = k /\ w.mine = handler[h].mine /\ w.page = page
  OBVIOUS
<1> HIDE DEF w
<1>5. handler'[h] = w /\ \A g \in Handlers \ {h} : handler'[g] = handler[g]
  BY <1>2, Steps
<1>6. /\ scroll'.next = scroll.next /\ scroll'.seen = scroll.seen /\ scroll'.twice = scroll.twice
      /\ scroll'.asking = scroll.asking /\ scroll'.moved = scroll.moved
      /\ ~scroll'.spoiled => ~scroll.spoiled /\ ~(handler[h].mine /\ Cut(k))
      /\ ~scroll'.jumped => ~scroll.jumped /\ ~(handler[h].mine /\ k \in scroll.moved)
  BY <1>1 DEF Query, ScrollType
<1>7. \A g \in Handlers : /\ Mine(g)' <=> Mine(g)
                          /\ Mine(g) => handler'[g].cursor = handler[g].cursor
  BY <1>1, <1>4, <1>5 DEF Mine
<1>8. OneAnswer'
  BY <1>6, <1>7 DEF ScrollInv, OneAnswer
<1>9. Screen'
  BY <1>2, <1>6 DEF ScrollInv, Screen, Standing, StandsAt
<1>10. ASSUME NEW g \in Handlers, Mine(g)', Doing(g, "respond")', ~scroll'.spoiled
       PROVE  Leads(handler[g].page)'
  <2>1. ~scroll.spoiled
    BY <1>6, <1>10
  <2>2. CASE g = h
    <3>1. Mine(h) /\ scroll.next = k /\ k # Done /\ ~Cut(k)
      BY <1>6, <1>7, <1>10, <2>2 DEF ScrollInv, OneAnswer, Mine
    <3>2. Standing(scroll.next, scroll.seen)
      BY <2>1, <3>1 DEF ScrollInv, Screen
    <3> HIDE DEF k, page
    <3>3. LeadsAt(page, scroll'.jumped)
      BY <1>3, <1>6, <3>1, <3>2, PageLeadsOn DEF Mine
    <3> QED BY <1>2, <1>4, <1>5, <1>6, <2>2, <3>3 DEF Leads, LeadsAt
  <2>3. CASE g # h
    <3>1. Mine(g) /\ Doing(g, "respond") /\ handler'[g] = handler[g]
      BY <1>5, <1>7, <1>10, <2>3 DEF Doing
    <3>2. Leads(handler[g].page)
      BY <2>1, <3>1 DEF ScrollInv, NextScreen
    <3> QED BY <1>2, <1>6, <3>1, <3>2 DEF Leads, LeadsAt, StandsAt
  <2> QED BY <2>2, <2>3
<1> QED BY <1>8, <1>9, <1>10 DEF ScrollInv, NextScreen

(* A page is added to the screen.                                          *)
LEMMA PageIsAdded ==
  ASSUME TypeOK, TypeOK', ScrollInv, scroll.next # Done, NEW page,
         UNCHANGED <<listed, reviews>>,
         scroll'.next = page.next, scroll'.asking = FALSE, scroll'.moved = scroll.moved,
         scroll'.seen = scroll.seen \cup page.shown,
         scroll'.twice = scroll.twice \cup (scroll.seen \cap page.shown),
         scroll.jumped => scroll'.jumped,
         ~scroll'.spoiled => ~scroll.spoiled /\ LeadsAt(page, scroll'.jumped),
         \A h \in Handlers : ~Mine(h)'
  PROVE  ScrollInv'
<1>1. OneAnswer' /\ NextScreen'
  BY DEF OneAnswer, NextScreen
<1>2. ASSUME ~scroll'.spoiled
      PROVE  /\ Standing(scroll.next, scroll.seen)'
             /\ ~scroll'.jumped => scroll'.twice \subseteq scroll'.moved
  <2>1. LeadsAt(page, scroll'.jumped) /\ (~scroll.jumped => scroll.twice \subseteq scroll.moved)
    BY <1>2 DEF ScrollInv, Screen
  <2>2. Standing(scroll.next, scroll.seen)'
    BY <2>1 DEF LeadsAt, Standing
  <2>3. ~scroll'.jumped => scroll'.twice \subseteq scroll'.moved
    BY <2>1 DEF LeadsAt
  <2> QED BY <2>2, <2>3
<1> QED BY <1>1, <1>2 DEF ScrollInv, Screen

LEMMA ScrollStep ==
  ASSUME TypeOK, TypeOK', ScrollInv, [Next]_vars
  PROVE  ScrollInv'
<1>0. /\ \A h \in Handlers : handler[h] \in States
      /\ scroll \in ScrollType /\ writes' \in Nat
  BY TypeParts DEF Types, TypeOK
<1>a. ASSUME NEW h \in Handlers, NEW k \in Cursors, Visit(h, k)
      PROVE  ScrollInv'
  <2> DEFINE w == [step |-> "query", cursor |-> k, mine |-> FALSE]
  <2>1. handler' = [handler EXCEPT ![h] = w] /\ w.mine = FALSE
    BY <1>a DEF Visit, Ask
  <2>2. StaysPut
    BY <1>a, StaysIfUnchanged DEF Visit, Ask, rows
  <2> HIDE DEF w
  <2> QED BY <2>1, <2>2, OneOther
<1>b. ASSUME NEW h \in Handlers, ScrollOn(h)
      PROVE  ScrollInv'
  <2> DEFINE w == [step |-> "query", cursor |-> scroll.next, mine |-> TRUE]
  <2>1. /\ scroll.next # Done /\ ~scroll.asking /\ scroll' = [scroll EXCEPT !.asking = TRUE]
        /\ handler' = [handler EXCEPT ![h] = w] /\ UNCHANGED <<listed, reviews>>
    BY <1>b DEF ScrollOn, Ask, rows
  <2>2. w.step = "query" /\ w.cursor = scroll.next
    OBVIOUS
  <2> HIDE DEF w
  <2>3. handler'[h] = w /\ \A g \in Handlers \ {h} : handler'[g] = handler[g]
    BY <2>1, Steps
  <2>4. /\ scroll'.next = scroll.next /\ scroll'.seen = scroll.seen /\ scroll'.twice = scroll.twice
        /\ scroll'.moved = scroll.moved /\ scroll'.spoiled = scroll.spoiled /\ scroll'.asking
        /\ scroll'.jumped = scroll.jumped
    BY <1>0, <2>1 DEF ScrollType
  <2>5. \A g \in Handlers : ~Mine(g)
    BY <2>1 DEF ScrollInv, OneAnswer
  <2>6. \A g \in Handlers \ {h} : ~Mine(g)'
    BY <2>3, <2>5 DEF Mine
  <2>7. OneAnswer'
    BY <2>1, <2>2, <2>3, <2>4, <2>6 DEF OneAnswer
  <2>8. Screen'
    BY <2>1, <2>4 DEF ScrollInv, Screen, Standing
  <2>9. NextScreen'
    BY <2>2, <2>3, <2>6 DEF NextScreen, Doing
  <2> QED BY <2>7, <2>8, <2>9 DEF ScrollInv
<1>c. ASSUME NEW h \in Handlers, Query(h)
      PROVE  ScrollInv'
  BY <1>c, QueryKeepsScroll
<1>d. ASSUME NEW h \in Handlers, Respond(h)
      PROVE  ScrollInv'
  <2> DEFINE page == handler[h].page
  <2>1. /\ handler[h] \in Responding /\ Doing(h, "respond") /\ page \in StampedPage
        /\ handler' = [handler EXCEPT ![h] = Idle] /\ Idle.step = "idle"
        /\ UNCHANGED <<listed, reviews>>
    BY <1>0, <1>d, StateOf DEF Respond, Doing, Finish, rows, Responding, Idle
  <2>2. CASE ~handler[h].mine
    <3>1. StaysPut
      BY <1>d, <2>1, <2>2, StaysIfUnchanged DEF Respond
    <3> QED BY <2>1, <3>1, OneOther
  <2>3. CASE handler[h].mine
    <3>1. Mine(h) /\ scroll.next # Done
      BY <2>1, <2>3 DEF Mine, Doing, ScrollInv, OneAnswer
    <3>2. scroll' = Appended(scroll, page)
      BY <1>d, <2>3 DEF Respond
    <3>3. handler'[h] = Idle /\ \A g \in Handlers \ {h} : handler'[g] = handler[g]
      BY <2>1, Steps
    <3>4. \A g \in Handlers : ~Mine(g)'
      BY <2>1, <3>1, <3>3 DEF Mine, ScrollInv, OneAnswer
    <3>5. /\ scroll'.next = page.next /\ scroll'.asking = FALSE /\ scroll'.moved = scroll.moved
          /\ scroll'.seen = scroll.seen \cup page.shown
          /\ scroll'.twice = scroll.twice \cup (scroll.seen \cap page.shown)
          /\ scroll'.spoiled = scroll.spoiled /\ scroll'.jumped = scroll.jumped
      BY <1>0, <2>1, <3>2, AppendType DEF StampedPage
    <3>6. ~scroll.spoiled => LeadsAt(page, scroll.jumped)
      BY <2>1, <3>1 DEF ScrollInv, NextScreen, Leads
    <3> HIDE DEF page
    <3> QED BY <2>1, <3>1, <3>4, <3>5, <3>6, PageIsAdded
  <2> QED BY <2>2, <2>3
<1>e. CASE StartScroll
  <2>1. /\ scroll.next = Done /\ UNCHANGED <<listed, reviews, handler>>
        /\ scroll'.next = Start /\ scroll'.asking = FALSE /\ scroll'.seen = {}
        /\ scroll'.moved = {} /\ scroll'.twice = {} /\ scroll'.jumped = FALSE
    BY <1>e DEF StartScroll, rows
  <2>2. \A h \in Handlers : ~Mine(h)'
    BY <2>1 DEF Mine, ScrollInv, OneAnswer
  <2>3. StandsAt(listed, {}, FALSE, reviews, Start, {})
    BY ListAssumption DEF StandsAt, Ahead
  <2>4. OneAnswer' /\ NextScreen'
    BY <2>1, <2>2 DEF OneAnswer, NextScreen
  <2>5. Screen'
    BY <2>1, <2>3 DEF Screen, Standing
  <2> QED BY <2>4, <2>5 DEF ScrollInv
<1>f. CASE ScrollOnCached
  <2> DEFINE k == scroll.next
             page == cache[k]
             jumped == scroll.jumped \/ k \in scroll.moved
             spoiled == scroll.spoiled \/ ~Same(page, CurrentPage(k)) \/ Cut(k)
  <2>1. /\ k # Done /\ ~scroll.asking /\ page \in StampedPage
        /\ UNCHANGED <<listed, reviews, handler>>
    BY <1>0, <1>f, TypeParts DEF Types, ScrollOnCached, rows, ScrollType
  <2>2. scroll' = [Appended(scroll, page) EXCEPT !.jumped = jumped, !.spoiled = spoiled]
    <3>1. Appended(scroll, page).spoiled = scroll.spoiled /\ Appended(scroll, page).jumped = scroll.jumped
      BY <1>0, <2>1, AppendType DEF StampedPage
    <3> QED BY <1>f, <3>1 DEF ScrollOnCached
  <2>3. \A g \in Handlers : ~Mine(g)'
    BY <2>1 DEF Mine, ScrollInv, OneAnswer
  <2>4. page.shown \in SUBSET Movers /\ page.next \in Movers \cup {Done}
    BY <2>1 DEF StampedPage
  <2> HIDE DEF page, jumped, spoiled
  <2>5. /\ scroll'.next = page.next /\ scroll'.asking = FALSE /\ scroll'.moved = scroll.moved
        /\ scroll'.seen = scroll.seen \cup page.shown
        /\ scroll'.twice = scroll.twice \cup (scroll.seen \cap page.shown)
        /\ scroll'.jumped = jumped /\ scroll'.spoiled = spoiled
    BY <1>0, <2>2, <2>4, AppendType DEF ScrollType
  <2>6. ASSUME ~spoiled
        PROVE  ~scroll.spoiled /\ LeadsAt(page, jumped)
    <3>1. ~scroll.spoiled /\ Same(page, CurrentPage(k)) /\ ~Cut(k)
      BY <2>6 DEF spoiled
    <3>2. Standing(scroll.next, scroll.seen)
      BY <2>1, <3>1 DEF ScrollInv, Screen
    <3> QED BY <2>1, <3>1, <3>2, PageLeadsOn DEF jumped
  <2>7. scroll.jumped => jumped
    BY DEF jumped
  <2> QED BY <2>1, <2>3, <2>5, <2>6, <2>7, PageIsAdded
<1>g. ASSUME NEW k \in Cursors, Expire(k)
      PROVE  ScrollInv'
  <2>1. StaysPut /\ handler' = handler
    BY <1>g, StaysIfUnchanged DEF Expire, rows
  <2> QED BY <2>1, ScrollQuiet DEF StaysPut, Mine, ScrollInv, OneAnswer
(* The writers: none of them is the visitor's.                             *)
<1>h. ASSUME NEW h \in Handlers, NEW step \in {"upload", "write"}, NEW kind \in Kinds,
             NEW m \in Movers, NEW change \in Changes, Begin(h, step, kind, m, change)
      PROVE  ScrollInv'
  <2> DEFINE w == [step |-> step, kind |-> kind, mover |-> m, change |-> change,
                   old |-> image[m], new |-> NoImage]
  <2>1. handler' = [handler EXCEPT ![h] = w] /\ w.step = step /\ StaysPut
    BY <1>h, StaysIfUnchanged DEF Begin, rows
  <2> HIDE DEF w
  <2> QED BY <2>1, OneOther
<1>i. ASSUME NEW h \in Handlers, NEW m \in Movers,
             \/ \E change \in Changes : StartCreate(h, m, change) \/ StartUpdate(h, m, change)
             \/ StartReview(h, m) \/ StartLike(h, m) \/ StartUnlike(h, m) \/ StartAccept(h, m)
             \/ StartAnswer(h, m)
      PROVE  ScrollInv'
  <2>1. PICK step \in {"upload", "write"}, kind \in Kinds, c \in Changes : Begin(h, step, kind, m, c)
    BY <1>i DEF StartCreate, StartUpdate, StartReview, StartLike, StartUnlike, StartAccept, StartAnswer,
       FirstStep, Kinds, Changes
  <2> QED BY <1>h, <2>1
<1>j. ASSUME NEW h \in Handlers, NEW M \in SUBSET Movers, StartBulkUnlike(h, M)
      PROVE  ScrollInv'
  <2> DEFINE w == [step |-> "deleteMany", movers |-> M]
  <2>1. handler' = [handler EXCEPT ![h] = w] /\ w.step = "deleteMany" /\ StaysPut
    BY <1>j, StaysIfUnchanged DEF StartBulkUnlike, rows
  <2> HIDE DEF w
  <2> QED BY <2>1, OneOther
<1>k. ASSUME NEW h \in Handlers, Upload(h)
      PROVE  ScrollInv'
  <2> DEFINE w == [handler[h] EXCEPT !.step = "write", !.new = uploads']
  <2>1. handler[h] \in Writing
    BY <1>0, <1>k, StateOf DEF Upload, Doing
  <2>2. w.step = "write" /\ handler' = [handler EXCEPT ![h] = w] /\ StaysPut
    BY <1>k, <2>1, StaysIfUnchanged DEF Upload, Writing, rows
  <2> HIDE DEF w
  <2> QED BY <2>2, OneOther
(* A handler goes on, or ends.                                             *)
<1>l. ASSUME NEW h \in Handlers, StaysPut,
             \/ Finish(h)
             \/ /\ handler[h] \in Writing
                /\ \E step \in {"rollback", "cleanup", "invalidate"} : Goto(h, step)
      PROVE  ScrollInv'
  <2>1. CASE Finish(h)
    BY <1>l, <2>1, OneOther DEF Finish, Idle
  <2>2. CASE \E step \in {"rollback", "cleanup", "invalidate"} : Goto(h, step) /\ handler[h] \in Writing
    <3>1. PICK step \in {"rollback", "cleanup", "invalidate"} : Goto(h, step) /\ handler[h] \in Writing
      BY <2>2
    <3> DEFINE w == [handler[h] EXCEPT !.step = step]
    <3>2. w.step = step /\ handler' = [handler EXCEPT ![h] = w]
      BY <3>1, Goes DEF Goto
    <3> HIDE DEF w
    <3> QED BY <1>l, <3>2, OneOther
  <2> QED BY <1>l, <2>1, <2>2
<1>m. ASSUME NEW h \in Handlers, UploadFails(h) \/ Rollback(h) \/ Cleanup(h)
      PROVE  ScrollInv'
  <2>1. handler[h] \in Writing
    BY <1>0, <1>m, StateOf DEF UploadFails, Rollback, Cleanup, Doing
  <2>2. UNCHANGED <<listed, reviews, scroll>>
    BY <1>m DEF UploadFails, Rollback, Cleanup, Discard, rows
  <2>3. StaysPut
    BY <2>2, StaysIfUnchanged
  <2>4. Finish(h) \/ Goto(h, "invalidate")
    BY <1>m DEF UploadFails, Rollback, Cleanup, Discard
  <2> QED BY <1>l, <2>1, <2>3, <2>4
<1>n. ASSUME NEW h \in Handlers, SaveProfile(h)
      PROVE  ScrollInv'
  <2>1. handler[h] \in Writing
    BY <1>0, <1>n, StateOf DEF SaveProfile, Doing
  <2>2. StaysPut
    BY <1>n, <2>1, WritesMark, StaysIfUnchanged DEF SaveProfile, rows
  <2>3. \E step \in {"rollback", "cleanup", "invalidate"} : Goto(h, step)
    BY <1>n DEF SaveProfile
  <2> QED BY <1>l, <2>1, <2>2, <2>3
<1>o. ASSUME NEW h \in Handlers, SaveFails(h)
      PROVE  ScrollInv'
  <2>1. handler[h] \in Writing
    BY <1>0, <1>o, StateOf DEF SaveFails, Doing
  <2>2. StaysPut
    BY <1>o, <2>1, WritesMark, StaysIfUnchanged DEF SaveFails, rows
  <2>3. CASE Goto(h, "rollback")
    BY <1>l, <2>1, <2>2, <2>3
  <2>4. CASE handler' = [g \in Handlers |->
               IF g = h THEN [handler[h] EXCEPT !.step = "rollback"] ELSE ExcusedHandler(g, writes')]
    <3> DEFINE w == [handler[h] EXCEPT !.step = "rollback"]
    <3>1. w.step = "rollback"
      BY <2>1, Goes
    <3>2. handler' = [g \in Handlers |-> IF g = h THEN w ELSE ExcusedHandler(g, writes')]
      BY <2>4
    <3> HIDE DEF w
    <3> QED BY <1>0, <2>2, <3>1, <3>2, OthersExcused
  <2> QED BY <1>o, <2>3, <2>4 DEF SaveFails
<1>p. ASSUME NEW h \in Handlers, Write(h)
      PROVE  ScrollInv'
  <2>1. handler[h] \in Writing
    BY <1>0, <1>p, StateOf DEF Write, Doing
  <2>2. StaysPut
    BY <1>p, <2>1, WritesMark DEF Write
  <2> QED BY <1>l, <1>p, <2>1, <2>2 DEF Write
<1>q. ASSUME NEW h \in Handlers, WriteFails(h)
      PROVE  ScrollInv'
  <2>1. StaysPut
    BY <1>q, StaysIfUnchanged DEF WriteFails, rows
  <2> QED BY <1>l, <1>q, <2>1 DEF WriteFails
<1>v. ASSUME NEW h \in Handlers, WriteUnannounced(h)
      PROVE  ScrollInv'
  <2>1. handler[h] \in Writing /\ writes' \in Nat
    BY <1>0, <1>v, StateOf DEF WriteUnannounced, Doing, TypeOK
  <2>2. StaysPut
    BY <1>v, <2>1, WritesMark DEF WriteUnannounced
  <2> QED BY <1>v, <2>1, <2>2, OthersExcused DEF WriteUnannounced, Idle
<1>r. ASSUME NEW h \in Handlers, DeleteMany(h)
      PROVE  ScrollInv'
  <2>1. handler[h] \in BulkUnliking
    BY <1>0, <1>r, StateOf DEF DeleteMany, Doing
  <2> DEFINE w == [handler[h] EXCEPT !.step = "invalidate"]
  <2>2. w.step = "invalidate" /\ handler' = [handler EXCEPT ![h] = w] /\ StaysPut
    BY <1>r, <2>1, StaysIfUnchanged DEF DeleteMany, Goto, BulkUnliking
  <2> HIDE DEF w
  <2> QED BY <2>2, OneOther
<1>s. ASSUME NEW h \in Handlers, Invalidate(h)
      PROVE  ScrollInv'
  <2>1. StaysPut /\ writes \in Nat
    BY <1>s, StaysIfUnchanged DEF Invalidate, rows, TypeOK
  <2> QED BY <1>s, <2>1, OthersExcused DEF Invalidate, Idle
<1>t. CASE Crash
  <2>1. /\ scroll' = [scroll EXCEPT !.asking = FALSE] /\ UNCHANGED <<listed, reviews>>
        /\ \A h \in Handlers : ~Mine(h)'
    BY <1>t DEF Crash, rows, Mine, Idle
  <2>2. /\ scroll'.next = scroll.next /\ scroll'.seen = scroll.seen /\ scroll'.twice = scroll.twice
        /\ scroll'.moved = scroll.moved /\ scroll'.spoiled = scroll.spoiled /\ ~scroll'.asking
        /\ scroll'.jumped = scroll.jumped
    BY <1>0, <2>1 DEF ScrollType
  <2>3. Moves
    BY <2>1, <2>2 DEF Moves, TypeOK
  <2> QED BY <2>1, <2>2, <2>3, ScrollQuiet
<1>u. CASE UNCHANGED vars
  <2>1. StaysPut /\ handler' = handler
    BY <1>u, StaysIfUnchanged DEF vars, rows
  <2> QED BY <2>1, ScrollQuiet DEF StaysPut, Mine, ScrollInv, OneAnswer
<1> QED
  BY <1>a, <1>b, <1>c, <1>d, <1>e, <1>f, <1>g, <1>i, <1>j, <1>k, <1>m, <1>n, <1>o, <1>p, <1>q,
     <1>r, <1>s, <1>t, <1>u, <1>v DEF Next, Step

-----------------------------------------------------------------------------
Inv == TypeOK /\ CacheInv /\ ImageInv /\ ScrollInv

LEMMA Inductive == Spec => []Inv
<1>1. Init => Inv
  <2> SUFFICES ASSUME Init
               PROVE  Inv
    OBVIOUS
  <2>1. /\ handler = [h \in Handlers |-> Idle] /\ Idle.step = "idle"
        /\ cache = [k \in Cursors |-> Absent]
        /\ image = [m \in Movers |-> NoImage] /\ bucket = {} /\ orphans = {} /\ torn = {}
        /\ uploads = 0 /\ writes = 0 /\ budget \in Budgets
        /\ registered \subseteq Movers /\ listed = registered
        /\ reviews \in [Movers -> Nat] /\ liked = {} /\ confirmed = {}
    BY PageAssumption DEF Init, Idle
  <2>2. /\ scroll \in ScrollType /\ scroll.next = Done /\ scroll.seen = {} /\ ~scroll.asking
    BY DEF Init, ScrollType
  <2>3. Types
    <3>1. handler \in [Handlers -> States] /\ cache \in [Cursors -> StampedPage \cup {Absent}]
      BY <2>1 DEF States
    <3>2. image \in [Movers -> Images \cup {NoImage}]
      BY <2>1
    <3> QED BY <2>1, <2>2, <3>1, <3>2 DEF Types
  <2>4. \A h \in Handlers : handler[h].step = "idle"
    BY <2>1
  <2>5. CacheInv
    BY <2>1, <2>4 DEF CacheInv, Doing
  <2>6. ImageInv
    <3>1. \A m \in Movers : image[m] = NoImage /\ image[m] <= uploads
      BY <2>1 DEF NoImage
    <3>2. Numbered /\ OneOwner /\ Uploaders
      BY <2>1, <2>4, <3>1 DEF Numbered, OneOwner, Uploaders, Live, Doing
    <3>3. UploadedIsNew /\ ReplacedIsGone /\ RolledBackIsFree
      BY <2>4 DEF UploadedIsNew, ReplacedIsGone, RolledBackIsFree, Doing
    <3> QED BY <2>1, <3>1, <3>2, <3>3 DEF ImageInv, ImagesExist, Accounted
  <2>7. ScrollInv
    BY <2>2, <2>4 DEF ScrollInv, OneAnswer, Screen, NextScreen, Mine, Doing
  <2> QED BY <2>3, <2>5, <2>6, <2>7, TypeParts DEF Inv
<1>2. Inv /\ [Next]_vars => Inv'
  BY TypeStep, CacheStep, ImageStep, ScrollStep DEF Inv
<1> QED BY <1>1, <1>2, PTL DEF Spec

(* Every state of MoverPage is well typed.                                 *)
THEOREM TypeCorrect == Spec => []TypeOK
BY Inductive, PTL DEF Inv

(* A cached page is up to date, about to be deleted, or excused.           *)
THEOREM CurrentCache == Spec => []CacheIsCurrent
<1>1. Inv => CacheIsCurrent
  BY DEF Inv, CacheInv, CacheIsCurrent, Fresh
<1> QED BY Inductive, <1>1, PTL

(* No profile loses its image to an update that overlaps its own.          *)
THEOREM ExistingImages == Spec => []ImagesExist
<1>1. Inv => ImagesExist
  BY DEF Inv, ImageInv
<1> QED BY Inductive, <1>1, PTL

(* No image is left behind unless a failure, a crash or an overlap did it. *)
THEOREM NoForgottenImage == Spec => []NoImageIsForgotten
<1>1. ASSUME Inv
      PROVE  NoImageIsForgotten
  <2> SUFFICES ASSUME NEW i \in bucket
               PROVE  \/ \E m \in Movers : image[m] = i
                      \/ i \in orphans
                      \/ \E h \in Handlers : i \in InFlight(h)
    BY DEF NoImageIsForgotten
  <2>1. HasReason(i) /\ i # NoImage
    BY <1>1, ImagesAreNumbers DEF Inv, ImageInv, Accounted
  <2>2. ASSUME NEW h \in Handlers,
               \/ (Doing(h, "write") \/ Doing(h, "rollback")) /\ New(h) = i
               \/ Doing(h, "cleanup") /\ Old(h) = i
        PROVE  i \in InFlight(h)
    BY <2>1, <2>2 DEF InFlight, Doing, Old, New
  <2> QED BY <2>1, <2>2 DEF HasReason
<1>2. Inv => NoImageIsForgotten
  BY <1>1
<1> QED BY Inductive, <1>2, PTL

(* Whoever scrolls to the end has seen every mover that did not move and,  *)
(* unless a page was asked for after a mover that had, none of them twice, *)
(* whatever is written, cached and evicted meanwhile.                      *)
THEOREM ExactScroll == Spec => []ScrollIsExact
<1>1. ASSUME Inv
      PROVE  ScrollIsExact
  <2> SUFFICES ASSUME scroll.next = Done, ~scroll.spoiled, scroll.seen # {}
               PROVE  /\ listed \ scroll.moved \subseteq scroll.seen
                      /\ scroll.twice \subseteq scroll.moved \/ scroll.jumped
    BY DEF ScrollIsExact
  <2>1. /\ Standing(Done, scroll.seen)
        /\ ~scroll.jumped => scroll.twice \subseteq scroll.moved
    BY <1>1 DEF Inv, ScrollInv, Screen
  <2> QED BY <2>1 DEF Standing, StandsAt
<1>2. Inv => ScrollIsExact
  BY <1>1
<1> QED BY Inductive, <1>2, PTL
=============================================================================
