------------------------- MODULE MatchingProperties -------------------------
(***************************************************************************)
(* What is expected of Matching.  The first part is about the requests     *)
(* that no two handlers or batches have ever had in hand at once, whatever *)
(* happens to the others; the second part is about every request; the      *)
(* third states what the code's comments say and the model refutes.        *)
(***************************************************************************)
EXTENDS Matching

Accepted(r) == {m \in Movers : estimate[<<r, m>>] = "ACCEPTED"}

-----------------------------------------------------------------------------
(* The requests worked on by one handler or batch at a time.  Beside them, *)
(* handlers and batches may race at other requests, of the same customer   *)
(* too.                                                                    *)
Uncontended == Requests \ contended

(* Exactly one estimate is ACCEPTED on a request that is or was CONFIRMED, *)
(* none on any other: what chat, payment and review rely on.               *)
OneAcceptedIffConfirmed ==
  \A r \in Uncontended :
    /\ request[r] \in {"CONFIRMED", "COMPLETED"} => \E m \in Movers : Accepted(r) = {m}
    /\ request[r] \notin {"CONFIRMED", "COMPLETED"} => Accepted(r) = {}

(* A request that is no longer PENDING carries no estimate still waiting   *)
(* for the customer: confirmation and expiry settle every proposal.        *)
NoProposalOutlivesRequest ==
  \A e \in Estimates :
    e[1] \in Uncontended /\ estimate[e] = "PROPOSED" => request[e[1]] = "PENDING"

(* The profile link and the request status, written by different           *)
(* statements, agree: a customer is linked to a request iff it is open.    *)
LinkedIffOpen ==
  \A r \in Uncontended : active[OwnerOf[r]] = r <=> request[r] \in Open

(* The advertised limits on open and on designated estimates.              *)
LimitsHold ==
  \A r \in Uncontended : /\ CountOf(r, FALSE) <= GENERAL_LIMIT
                         /\ CountOf(r, TRUE) <= DESIGNATED_LIMIT

(* TRANSITION_RULES: an estimate becomes PROPOSED, REJECTED or ACCEPTED    *)
(* from the status the table names, or as a new row.                       *)
FollowsRules(e) ==
  /\ estimate'[e] # estimate[e]
  /\ estimate'[e] \in Transitions
  => \/ estimate[e] = From(estimate'[e])
     \/ estimate[e] = "NONE" /\ e \notin isDesignated'

(* The status checked before the transaction is the one the write by id    *)
(* overwrites.                                                             *)
RulesUnlessContended ==
  [][\A e \in Estimates : e[1] \in Uncontended => FollowsRules(e)]_estimate

(* The service implements the life cycle it promises: the winner is the    *)
(* mover of the accepted estimate.                                         *)
Winner == [r \in Requests |-> IF Accepted(r) = {} THEN NoRequest
                              ELSE CHOOSE m \in Movers : m \in Accepted(r)]

Lifecycle == INSTANCE RequestLifecycle
               WITH status <- request, winner <- Winner, NoMover <- NoRequest

ImplementsLifecycle == Lifecycle!Spec

-----------------------------------------------------------------------------
(* Whatever overlaps.                                                      *)

(* A profile never points to a closed request, or to another customer's:   *)
(* the link cannot outlive the batch that closes the request.              *)
LinkPointsToOpen ==
  \A c \in Customers :
    active[c] # NoRequest => /\ OwnerOf[active[c]] = c
                             /\ request[active[c]] \in Open

(* Every offer a customer can accept, has accepted or has passed over has  *)
(* a price, so that its deposit can be computed.                           *)
OffersArePriced ==
  \A e \in Estimates :
    estimate[e] \in {"PROPOSED", "ACCEPTED", "NOT_SELECTED"} => e \in priced

(* How far the limits, and the one winner of a request, can be overshot:   *)
(* handlers that all counted before any of them inserted, or all read the  *)
(* request PENDING before any of them accepted, and no further.            *)
OvershootBounded ==
  \A r \in Requests :
    /\ CountOf(r, FALSE) < GENERAL_LIMIT + Cardinality(Handlers)
    /\ CountOf(r, TRUE) < DESIGNATED_LIMIT + Cardinality(Handlers)
    /\ Cardinality(Accepted(r)) < 1 + Cardinality(Handlers)

(* What the service still promises when everything overlaps.               *)
Contested == INSTANCE ContestedLifecycle
               WITH status <- request,
                    accepted <- {e \in Estimates : estimate[e] = "ACCEPTED"}

ImplementsContested == Contested!Spec

(* A closed request that nobody has in hand is history: no step of any     *)
(* handler, of a later batch or of the clock takes it up again, changes    *)
(* its status or its estimates, or links it to its owner.                  *)
AtRest(r) == request[r] \in Closed /\ ~InHand(r)

StaysAtRest(r) ==
  /\ AtRest(r)'
  /\ request'[r] = request[r]
  /\ active'[OwnerOf[r]] # r
  /\ \A m \in Movers : /\ estimate'[<<r, m>>] = estimate[<<r, m>>]
                        /\ (<<r, m>> \in priced') = (<<r, m>> \in priced)

HistoryIsFinal == [][\A r \in Requests : AtRest(r) => StaysAtRest(r)]_vars

(* However late a handler or a batch writes, a request whose moving day    *)
(* has passed ends closed and unlinked for good.                           *)
ClosedForGood ==
  \A r \in Requests :
    (r \in past) ~> [](request[r] \in Closed /\ active[OwnerOf[r]] # r)

-----------------------------------------------------------------------------
(* Said by comments of the code.                                           *)

(* estimateService, TRANSITION_RULES: the status an estimate "must have"   *)
(* before it becomes PROPOSED, REJECTED or ACCEPTED.  On a contended       *)
(* request the status read is not the status overwritten.                  *)
TransitionRules == [][\A e \in Estimates : FollowsRules(e)]_estimate

(* estimateFilter: the statuses hidden from the customer are those of the  *)
(* rows without a price, so that every row shown has one.                  *)
ShownArePriced ==
  \A e \in Estimates :
    estimate[e] \notin {"NONE", "DESIGNATED", "REJECTED"} => e \in priced
=============================================================================
