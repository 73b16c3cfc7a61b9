-------------------------- MODULE MoverPageProperties --------------------------
(***************************************************************************)
(* What is expected of MoverPage, whatever readers, writers, outages and   *)
(* crashes overlap.                                                        *)
(***************************************************************************)
EXTENDS MoverPage

(* A cached page is up to date, or the write that made it stale is about   *)
(* to delete it; a page stays stale only when that write was not answered, *)
(* crashed or met an outage of Redis, when it was a late answer of a mover *)
(* over an accepted estimate, which deletes nothing, or when the page was  *)
(* read before the write and stored after the deletion.                    *)
CacheIsCurrent ==
  \A k \in Cursors : cache[k] # Absent =>
    \/ cache[k].at = writes
    \/ cache[k].excused
    \/ \E h \in Handlers : Committed(h)

(* A visitor who has scrolled to the end has seen every mover of the list  *)
(* that no review or edit moved meanwhile.  Of those, none was shown       *)
(* twice, unless some page was asked for after a mover that had moved by   *)
(* then: a review may have lifted it past others on the screen, which are  *)
(* then shown again.  Nothing is promised when a page came stale from the  *)
(* cache, or when the mover a page was to start after had left the list.   *)
ScrollIsExact ==
  scroll.next = Done /\ scroll.seen # {} /\ ~scroll.spoiled =>
    /\ listed \ scroll.moved \subseteq scroll.seen
    /\ scroll.twice \subseteq scroll.moved \/ scroll.jumped

(* A profile names an image that exists, whatever updates of it overlap,   *)
(* unless a failed answer of the database hid that the row was written.    *)
ImagesExist ==
  \A m \in Movers : image[m] # NoImage => image[m] \in bucket \cup torn

(* Every image in S3 is named by a profile or in the hands of a handler,   *)
(* but for those that a failure, a crash or an overlapping update of the   *)
(* same profile left behind.                                               *)
NoImageIsForgotten ==
  bucket \subseteq {image[m] : m \in Movers} \cup orphans
                     \cup UNION {InFlight(h) : h \in Handlers}
=============================================================================
