----------------------------- MODULE MCMatching -----------------------------
(* Small instances of Matching.  Requests of one customer compete for the  *)
(* one open place; those of a neighbour are worked on beside them.         *)
EXTENDS MatchingProperties, TLC

CONSTANTS theCustomer, theNeighbour, NeighboursRequests

MCCustomers == {theCustomer, theNeighbour}
MCOwnerOf == [r \in Requests |-> IF r \in NeighboursRequests THEN theNeighbour
                                 ELSE theCustomer]

(* The bounds of a run: requests ever opened, how many of them are         *)
(* contended, and estimates ever written beside a contended request.       *)
TwoRequests == Cardinality({r \in Requests : request[r] # "NONE"}) <= 2
OneContended == Cardinality(contended) <= 1
TwoEstimates ==
  contended # {} => Cardinality({e \in Estimates : estimate[e] # "NONE"}) <= 2

Symmetry == Permutations(Movers) \cup Permutations(Handlers)
              \cup Permutations(Instances)
              \cup Permutations(Requests \ NeighboursRequests)
=============================================================================
