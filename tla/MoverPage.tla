------------------------------ MODULE MoverPage ------------------------------
(***************************************************************************)
(* The public list of movers behind its response cache in Redis, the       *)
(* writes that change what it shows (profiles, reviews, likes, confirmed   *)
(* estimates), the profile images in S3, and a visitor who scrolls through *)
(* the list page by page.                                                  *)
(*                                                                         *)
(* A reader asks the cache, then the database, then fills the cache; a     *)
(* writer commits, then deletes every cached page.  Nothing orders the     *)
(* two.  Redis may be down at any step, S3 and the database may fail, the  *)
(* server may crash.                                                       *)
(*                                                                         *)
(* writes, torn, orphans, the fields at and excused of a page and the      *)
(* fields moved, jumped, twice and spoiled of the scroll are history: only *)
(* the bound reads them.  ReplaceOnly, UndoOnFailure and DeleteQuietly are *)
(* plausible bugs; nothing uses them.                                      *)
(***************************************************************************)
EXTENDS MoverList

CONSTANTS
  Newcomers,   \* movers without a profile in the beginning
  Earlier,     \* the reviews each mover has then
  Handlers,
  Budgets      \* bounds: the writes (how many, of what, of whom), the uploads, and
               \* the requests for pages at once

Kinds == {"create", "update", "review", "like", "unlike", "accept", "answer"}

ASSUME PageAssumption ==
  /\ Newcomers \subseteq Movers /\ Earlier \in [Movers -> Nat]
  /\ Budgets \subseteq [writes : Nat, kinds : SUBSET Kinds, movers : SUBSET Movers,
                      images : Nat, readers : Nat]

VARIABLES
  registered,  \* movers with a profile
  listed,      \* those of them that match the visitor's filter
  reviews,     \* how many each mover has
  liked,       \* the movers one customer likes
  confirmed,   \* the movers one of whose estimates, contested, is ACCEPTED
  image,       \* the image each profile names
  bucket,      \* the images in S3
  uploads,     \* images uploaded so far: every key is new
  cache,       \* the cached page of each cursor
  handler,
  scroll,      \* the visitor
  writes,      \* committed writes that change a page
  orphans,     \* images left behind by a failure, a crash or an overlap
  torn,        \* images rolled back although the row had been written
  budget       \* what happens in this behaviour at most; it never changes

rows == <<registered, listed, reviews, liked, confirmed, image>>
s3 == <<bucket, uploads, orphans, torn>>
vars == <<rows, s3, cache, handler, scroll, writes, budget>>

NoImage == 0
Images == Nat \ {NoImage}

(* A page as it was after so many writes; excused if a write had come      *)
(* after them when the page was stored, or could not delete it.            *)
StampedPage == [shown : SUBSET Movers, next : Movers \cup {Done},
                at : Nat, excused : BOOLEAN]
Absent == [absent |-> TRUE]

Idle == [step |-> "idle"]
Reading == [step : {"query"}, cursor : Cursors, mine : BOOLEAN]
Responding == [step : {"respond"}, cursor : Cursors, mine : BOOLEAN,
               page : StampedPage]
Changes == {"keep", "remove", "replace"}
Writing == [step : {"upload", "write", "rollback", "cleanup", "invalidate"},
            kind : Kinds, mover : Movers, change : Changes,
            old : Images \cup {NoImage},   \* the image it read
            new : Images \cup {NoImage}]   \* the image it uploaded
BulkUnliking == [step : {"deleteMany", "invalidate"}, movers : SUBSET Movers]

TypeOK ==
  /\ registered \subseteq Movers /\ listed \subseteq registered
  /\ reviews \in [Movers -> Nat] /\ liked \subseteq Movers /\ confirmed \subseteq Movers
  /\ image \in [Movers -> Images \cup {NoImage}]
  /\ bucket \subseteq Images /\ orphans \subseteq Images /\ torn \subseteq Images
  /\ uploads \in Nat /\ writes \in Nat /\ budget \in Budgets
  /\ cache \in [Cursors -> StampedPage \cup {Absent}]
  /\ handler \in [Handlers -> Reading \cup Responding \cup Writing \cup BulkUnliking \cup {Idle}]
  /\ scroll \in [next : Cursors \cup {Done}, asking : BOOLEAN, seen : SUBSET Movers,
                 moved : SUBSET Movers, jumped : BOOLEAN, twice : SUBSET Movers,
                 spoiled : BOOLEAN]

Init ==
  /\ registered = Movers \ Newcomers /\ listed = registered
  /\ reviews = Earlier /\ liked = {} /\ confirmed = {}
  /\ image = [m \in Movers |-> NoImage]
  /\ bucket = {} /\ uploads = 0 /\ orphans = {} /\ torn = {}
  /\ cache = [k \in Cursors |-> Absent]
  /\ handler = [h \in Handlers |-> Idle]
  /\ scroll = [next |-> Done, asking |-> FALSE, seen |-> {}, moved |-> {},
               jumped |-> FALSE, twice |-> {}, spoiled |-> FALSE]
  /\ writes = 0 /\ budget \in Budgets

-----------------------------------------------------------------------------
Doing(h, step) == handler[h].step = step
Goto(h, step) == handler' = [handler EXCEPT ![h].step = step]
Finish(h) == handler' = [handler EXCEPT ![h] = Idle]

Readers == {h \in Handlers : handler[h].step \in {"query", "respond"}}

(* cacheResponse, when the cache has no page or Redis does not answer.     *)
Ask(h, k, mine) ==
  /\ Doing(h, "idle") /\ Cardinality(Readers) < budget.readers
  /\ handler' = [handler EXCEPT ![h] = [step |-> "query", cursor |-> k, mine |-> mine]]
  /\ UNCHANGED <<rows, s3, cache, writes>>

Stamped(page) == [shown |-> page.shown, next |-> page.next, at |-> writes, excused |-> FALSE]

CurrentPage(k) == PageAt(listed, reviews, k)

(* The mover the page starts after has left the list.                      *)
Cut(k) == k # Start /\ k \notin listed

Query(h) ==
  /\ Doing(h, "query")
  /\ handler' = [handler EXCEPT ![h] =
       [step |-> "respond", cursor |-> @.cursor, mine |-> @.mine,
        page |-> Stamped(CurrentPage(@.cursor))]]
  /\ scroll' = IF handler[h].mine
               THEN [scroll EXCEPT !.jumped = @ \/ handler[h].cursor \in scroll.moved,
                                   !.spoiled = @ \/ Cut(handler[h].cursor)]
               ELSE scroll
  /\ UNCHANGED <<rows, s3, cache, writes>>

(* The page is answered, and stored if Redis is there.  The visitor adds   *)
(* it to what is on the screen.                                            *)
Appended(s, page) ==
  [s EXCEPT !.next = page.next, !.asking = FALSE, !.seen = @ \cup page.shown,
            !.twice = @ \cup (s.seen \cap page.shown)]

Respond(h) ==
  LET r == handler[h] IN
  /\ Doing(h, "respond")
  /\ cache' \in {[cache EXCEPT ![r.cursor] = r.page], cache}
  /\ scroll' = IF r.mine THEN Appended(scroll, r.page) ELSE scroll
  /\ Finish(h)
  /\ UNCHANGED <<rows, s3, writes>>

Visit(h, k) == Ask(h, k, FALSE) /\ UNCHANGED scroll

StartScroll ==
  /\ scroll.next = Done /\ budget.readers > 0
  /\ scroll' = [next |-> Start, asking |-> FALSE, seen |-> {}, moved |-> {},
                jumped |-> FALSE, twice |-> {}, spoiled |-> FALSE]
  /\ UNCHANGED <<rows, s3, cache, handler, writes>>

ScrollOn(h) ==
  /\ scroll.next # Done /\ ~scroll.asking
  /\ scroll' = [scroll EXCEPT !.asking = TRUE]
  /\ Ask(h, scroll.next, TRUE)

Same(p, q) == p.shown = q.shown /\ p.next = q.next

ScrollOnCached ==
  LET page == cache[scroll.next] IN
  /\ scroll.next # Done /\ ~scroll.asking
  /\ page # Absent
  /\ scroll' = [Appended(scroll, page) EXCEPT
                  !.jumped = @ \/ scroll.next \in scroll.moved,
                  !.spoiled = @ \/ ~Same(page, CurrentPage(scroll.next)) \/ Cut(scroll.next)]
  /\ UNCHANGED <<rows, s3, cache, handler, writes>>

Expire(k) ==
  /\ cache[k] # Absent
  /\ cache' = [cache EXCEPT ![k] = Absent]
  /\ UNCHANGED <<rows, s3, handler, scroll, writes>>

-----------------------------------------------------------------------------
(* The writers.  Each reads first, and acts on what it read.               *)
Writers == {h \in Handlers : handler[h].step \notin {"idle", "query", "respond"}}

MayWrite(kind, m) ==
  /\ writes + Cardinality(Writers) < budget.writes
  /\ kind \in budget.kinds /\ m \in budget.movers

Begin(h, step, kind, m, change) ==
  /\ Doing(h, "idle") /\ MayWrite(kind, m)
  /\ handler' = [handler EXCEPT ![h] =
       [step |-> step, kind |-> kind, mover |-> m, change |-> change,
        old |-> image[m], new |-> NoImage]]
  /\ UNCHANGED <<rows, s3, cache, scroll, writes>>

FirstStep(change) == IF change = "replace" THEN "upload" ELSE "write"

StartCreate(h, m, change) ==
  /\ m \notin registered /\ change # "remove"
  /\ change = "replace" => uploads < budget.images
  /\ Begin(h, FirstStep(change), "create", m, change)

StartUpdate(h, m, change) ==
  /\ m \in registered
  /\ change = "replace" => uploads < budget.images
  /\ Begin(h, FirstStep(change), "update", m, change)

StartReview(h, m) == m \in registered /\ reviews[m] = Earlier[m] /\ Begin(h, "write", "review", m, "keep")
StartLike(h, m) == m \in registered \ liked /\ Begin(h, "write", "like", m, "keep")
StartUnlike(h, m) == m \in liked /\ Begin(h, "write", "unlike", m, "keep")
StartAccept(h, m) == m \in registered /\ Begin(h, "write", "accept", m, "keep")

(* A mover answers a request that, as it reads, has no estimate accepted.  *)
StartAnswer(h, m) == m \in registered \ confirmed /\ Begin(h, "write", "answer", m, "keep")

StartBulkUnlike(h, M) ==
  /\ M \subseteq liked /\ M # {}
  /\ Doing(h, "idle") /\ \A m \in M : MayWrite("unlike", m)
  /\ handler' = [handler EXCEPT ![h] = [step |-> "deleteMany", movers |-> M]]
  /\ UNCHANGED <<rows, s3, cache, scroll, writes>>

-----------------------------------------------------------------------------
Moving(m) == scroll' = [scroll EXCEPT !.moved = @ \cup {m}]
Unmoved == UNCHANGED scroll

(* Stale pages, stored or about to be, that no later step deletes.         *)
Excuse(page, n) == [page EXCEPT !.excused = @ \/ page.at # n]

ExcusedCache(n) ==
  [k \in Cursors |-> IF cache[k] = Absent THEN Absent ELSE Excuse(cache[k], n)]

ExcusedHandler(g, n) ==
  IF Doing(g, "respond") THEN [handler[g] EXCEPT !.page = Excuse(@, n)] ELSE handler[g]

(* The uploaded image has a key of its own.                                *)
Upload(h) ==
  /\ Doing(h, "upload") /\ uploads < budget.images
  /\ uploads' = uploads + 1
  /\ bucket' = bucket \cup {uploads'}
  /\ handler' = [handler EXCEPT ![h].step = "write", ![h].new = uploads']
  /\ UNCHANGED <<rows, orphans, torn, cache, scroll, writes>>

(* S3 refuses, or stores the image although its answer is lost: the        *)
(* handler ends either way.                                                *)
UploadFails(h) ==
  /\ Doing(h, "upload")
  /\ \/ UNCHANGED <<bucket, uploads, orphans>>
     \/ /\ uploads < budget.images
        /\ uploads' = uploads + 1
        /\ bucket' = bucket \cup {uploads'}
        /\ orphans' = orphans \cup {uploads'}
  /\ Finish(h)
  /\ UNCHANGED <<rows, torn, cache, scroll, writes>>

(* moverRepository.create and update.  The profile edited may match the    *)
(* visitor's filter or not.                                                *)
Saved(h) ==
  LET w == handler[h]
      m == w.mover
  IN  /\ registered' = registered \cup {m}
      /\ \/ listed' = listed \cup {m}
         \/ listed' = listed \ {m}
      /\ image' = IF w.kind = "update" /\ w.change = "keep" THEN image ELSE [image EXCEPT ![m] = w.new]
      /\ IF listed' = listed THEN Unmoved ELSE Moving(m)
      /\ writes' = writes + 1
      /\ UNCHANGED <<reviews, liked, confirmed>>

(* The image that the row named although this writer had not read it.      *)
Overwritten(h) ==
  LET w == handler[h] IN {image[w.mover]} \ ({image'[w.mover], w.old} \cup {NoImage})

ReplaceOnly(h) == handler[h].change = "replace" /\ handler[h].old \notin {NoImage, handler[h].new}

Replaces(h) == handler[h].change # "keep" /\ handler[h].old \notin {NoImage, handler[h].new}

SaveProfile(h) ==
  /\ Doing(h, "write") /\ handler[h].kind \in {"create", "update"}
  /\ \/ /\ handler[h].kind = "update" \/ handler[h].mover \notin registered
        /\ Saved(h)
        /\ orphans' = orphans \cup Overwritten(h)
        /\ Goto(h, IF Replaces(h) THEN "cleanup" ELSE "invalidate")
     \/ /\ handler[h].kind = "create" /\ handler[h].mover \in registered   \* P2002
        /\ Goto(h, "rollback")
        /\ UNCHANGED <<rows, orphans, scroll, writes>>
  /\ UNCHANGED <<bucket, uploads, torn, cache>>

(* The database answers with an error, or not at all although it has       *)
(* written: the handler takes both for a failure.                          *)
SaveFails(h) ==
  /\ Doing(h, "write") /\ handler[h].kind \in {"create", "update"}
  /\ \/ Goto(h, "rollback") /\ UNCHANGED <<rows, orphans, torn, cache, scroll, writes>>
     \/ /\ handler[h].kind = "update" \/ handler[h].mover \notin registered
        /\ Saved(h)
        /\ orphans' = orphans \cup Overwritten(h) \cup (IF Replaces(h) THEN {handler[h].old} ELSE {})
        /\ torn' = torn \cup ({handler[h].new} \ {NoImage})
        /\ cache' = ExcusedCache(writes')
        /\ handler' = [g \in Handlers |->
             IF g = h THEN [handler[h] EXCEPT !.step = "rollback"] ELSE ExcusedHandler(g, writes')]
  /\ UNCHANGED <<bucket, uploads>>

(* rollbackUploadedImage and cleanupPreviousImage swallow their errors.    *)
Discard(h, img, next) ==
  /\ \/ bucket' = bucket \ {img} /\ UNCHANGED orphans
     \/ img # NoImage /\ orphans' = orphans \cup {img} /\ UNCHANGED bucket
  /\ IF next = "idle" THEN Finish(h) ELSE Goto(h, next)
  /\ UNCHANGED <<rows, uploads, torn, cache, scroll, writes>>

Rollback(h) == Doing(h, "rollback") /\ Discard(h, handler[h].new, "idle")

UndoOnFailure(h) ==
  /\ Doing(h, "cleanup")
  /\ \/ Discard(h, handler[h].old, "invalidate")
     \/ Discard(h, handler[h].new, "idle")

Cleanup(h) == Doing(h, "cleanup") /\ Discard(h, handler[h].old, "invalidate")

(* Reviews, likes and confirmed estimates; one review of an estimate and   *)
(* one like of a customer and a mover, by unique indexes.  An answer of    *)
(* the mover that comes late is written over the ACCEPTED estimate.        *)
Effect(h) ==
  LET m == handler[h].mover IN
  \/ /\ handler[h].kind = "review" /\ reviews[m] = Earlier[m]
     /\ reviews' = [reviews EXCEPT ![m] = @ + 1] /\ Moving(m)
     /\ UNCHANGED <<liked, confirmed>>
  \/ /\ handler[h].kind = "like" /\ m \notin liked
     /\ liked' = liked \cup {m} /\ Unmoved /\ UNCHANGED <<reviews, confirmed>>
  \/ /\ handler[h].kind = "unlike" /\ m \in liked
     /\ liked' = liked \ {m} /\ Unmoved /\ UNCHANGED <<reviews, confirmed>>
  \/ /\ handler[h].kind = "accept"
     /\ confirmed' = confirmed \cup {m} /\ Unmoved /\ UNCHANGED <<reviews, liked>>
  \/ /\ handler[h].kind = "answer" /\ m \in confirmed
     /\ confirmed' = confirmed \ {m} /\ Unmoved /\ UNCHANGED <<reviews, liked>>

Write(h) ==
  /\ Doing(h, "write") /\ handler[h].kind # "answer"
  /\ Effect(h)
  /\ writes' = writes + 1
  /\ Goto(h, "invalidate")
  /\ UNCHANGED <<registered, listed, image, s3, cache>>

(* Nothing that a page shows is written: another request came first, and   *)
(* the unique index or the missing row refuses, the database fails, or no  *)
(* estimate was accepted before the mover answered.                        *)
WriteFails(h) ==
  /\ Doing(h, "deleteMany") \/ (Doing(h, "write") /\ handler[h].kind \notin {"create", "update"})
  /\ Finish(h)
  /\ UNCHANGED <<rows, s3, cache, scroll, writes>>

(* It is written and no page deleted: the database does not answer that it *)
(* has written; or the mover's late answer lowers the number of confirmed  *)
(* estimates, and only the acceptance of one deletes the pages.            *)
WriteUnannounced(h) ==
  /\ Doing(h, "write")
  /\ Effect(h)
  /\ writes' = writes + 1
  /\ cache' = ExcusedCache(writes')
  /\ handler' = [g \in Handlers |-> IF g = h THEN Idle ELSE ExcusedHandler(g, writes')]
  /\ UNCHANGED <<registered, listed, image, s3>>

DeleteQuietly(h) ==
  /\ Doing(h, "deleteMany")
  /\ liked' = liked \ handler[h].movers
  /\ writes' = writes + 1
  /\ Finish(h)
  /\ UNCHANGED <<registered, listed, reviews, confirmed, image, s3, cache, scroll>>

DeleteMany(h) ==
  /\ Doing(h, "deleteMany")
  /\ liked' = liked \ handler[h].movers
  /\ writes' = writes + 1
  /\ Goto(h, "invalidate")
  /\ UNCHANGED <<registered, listed, reviews, confirmed, image, s3, cache, scroll>>

(* deleteCacheByPrefix, after the commit.  It does nothing if Redis is     *)
(* down; what it does not delete, and the fills it comes too early for,    *)
(* stay stale until they expire.                                           *)
Invalidate(h) ==
  /\ Doing(h, "invalidate")
  /\ cache' \in {[k \in Cursors |-> Absent], ExcusedCache(writes)}
  /\ handler' = [g \in Handlers |-> IF g = h THEN Idle ELSE ExcusedHandler(g, writes)]
  /\ UNCHANGED <<rows, s3, scroll, writes>>

-----------------------------------------------------------------------------
InFlight(h) == IF handler[h].step \in {"upload", "write", "rollback", "cleanup"}
               THEN {handler[h].old, handler[h].new} \ {NoImage} ELSE {}

Committed(h) == Doing(h, "cleanup") \/ Doing(h, "invalidate")

(* The server ends and is started again.                                   *)
Crash ==
  /\ \E h \in Handlers : ~Doing(h, "idle")
  /\ orphans' = orphans \cup ((UNION {InFlight(h) : h \in Handlers}) \ {image[m] : m \in Movers})
  /\ cache' = IF \E h \in Handlers : Committed(h) THEN ExcusedCache(writes) ELSE cache
  /\ handler' = [h \in Handlers |-> Idle]
  /\ scroll' = [scroll EXCEPT !.asking = FALSE]
  /\ UNCHANGED <<rows, bucket, uploads, torn, writes>>

Step ==
  \/ \E h \in Handlers :
       \/ \E k \in Cursors : Visit(h, k)
       \/ ScrollOn(h)
       \/ Query(h)
       \/ Respond(h)
       \/ \E m \in Movers :
            \/ \E change \in Changes : StartCreate(h, m, change) \/ StartUpdate(h, m, change)
            \/ StartReview(h, m)
            \/ StartLike(h, m)
            \/ StartUnlike(h, m)
            \/ StartAccept(h, m)
            \/ StartAnswer(h, m)
       \/ \E M \in SUBSET Movers : StartBulkUnlike(h, M)
       \/ Upload(h)
       \/ UploadFails(h)
       \/ SaveProfile(h)
       \/ SaveFails(h)
       \/ Rollback(h)
       \/ Cleanup(h)
       \/ Write(h)
       \/ WriteFails(h)
       \/ WriteUnannounced(h)
       \/ DeleteMany(h)
       \/ Invalidate(h)
  \/ StartScroll
  \/ ScrollOnCached
  \/ \E k \in Cursors : Expire(k)
  \/ Crash

Next == Step /\ UNCHANGED budget

Spec == Init /\ [][Next]_vars
=============================================================================
