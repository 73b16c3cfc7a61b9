------------------------------ MODULE MoverList ------------------------------
(***************************************************************************)
(* One page of GET /mover, sorted by reviewCount: the query of the         *)
(* repository and the cut of paginateByCursor, as a function of the movers *)
(* that match the filter and of their numbers of reviews.                  *)
(*                                                                         *)
(* WithoutTies is a plausible bug; nothing uses it.                        *)
(***************************************************************************)
EXTENDS Integers, FiniteSets

CONSTANTS
  Movers,   \* the movers' ids, in the order of the ids
  Start,    \* the cursor of the first page
  Done,     \* there is no next page
  Size      \* movers to a page

ASSUME ListAssumption == /\ Movers \subseteq Nat /\ IsFiniteSet(Movers)
                         /\ Start \notin Movers /\ Done \notin Movers /\ Start # Done
                         /\ Size \in Nat \ {0}

Cursors == Movers \cup {Start}
Page == [shown : SUBSET Movers, next : Movers \cup {Done}]

(* m comes before n: most reviews first, then the highest id.              *)
Before(reviews, m, n) ==
  \/ reviews[m] > reviews[n]
  \/ reviews[m] = reviews[n] /\ m > n

WithoutTies(listed, reviews, cursor) ==
  {m \in listed : cursor = Start \/ (cursor \in listed /\ reviews[cursor] > reviews[m])}

(* The rows after the cursor: none, when the cursor's mover is not itself  *)
(* among those that match the filter.                                      *)
RowsAfter(listed, reviews, cursor) ==
  {m \in listed : \/ cursor = Start
                  \/ cursor \in listed /\ Before(reviews, cursor, m)}

Position(rows, reviews, m) == Cardinality({n \in rows : Before(reviews, n, m)})

(* The first Size of them, and the last of these if there are more.        *)
PageAt(listed, reviews, cursor) ==
  LET rows == RowsAfter(listed, reviews, cursor)
      items == {m \in rows : Position(rows, reviews, m) < Size}
  IN  [shown |-> items,
       next |-> IF Cardinality(rows) > Size
                THEN CHOOSE m \in items : Position(rows, reviews, m) = Size - 1
                ELSE Done]
=============================================================================
