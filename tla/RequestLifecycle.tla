-------------------------- MODULE RequestLifecycle --------------------------
(***************************************************************************)
(* What the estimate-request service promises, without handlers, estimates *)
(* or a batch: a request is opened, is awarded at most once, to one mover, *)
(* while it is pending, and ends completed if it was awarded and expired   *)
(* if it was not.  A customer has one open request at a time.              *)
(*                                                                         *)
(* A request may become contended at any time.  From then on nothing is    *)
(* promised of it but that its customer has no other open request; what    *)
(* becomes of it leaves the uncontended ones alone.                        *)
(***************************************************************************)
CONSTANTS Requests, Movers, Customers, OwnerOf, NoMover

VARIABLES status, winner, contended

lifecycle == <<status, winner, contended>>

IsLive(r) == status[r] \in {"PENDING", "CONFIRMED"}
OneLive == \A q, r \in Requests :
             OwnerOf[q] = OwnerOf[r] /\ IsLive(q) /\ IsLive(r) => q = r

Init ==
  /\ status = [r \in Requests |-> "NONE"]
  /\ winner = [r \in Requests |-> NoMover]
  /\ contended = {}

OpenRequest(r) ==
  /\ status[r] = "NONE"
  /\ status' = [status EXCEPT ![r] = "PENDING"]
  /\ UNCHANGED <<winner, contended>>

Award(r, m) ==
  /\ r \notin contended
  /\ status[r] = "PENDING"
  /\ status' = [status EXCEPT ![r] = "CONFIRMED"]
  /\ winner' = [winner EXCEPT ![r] = m]
  /\ UNCHANGED contended

(* One batch closes any number of requests, contended ones among them.     *)
(* With S empty, the step of a handler at a contended request.             *)
Close(S) ==
  /\ \A r \in S : IsLive(r)
  /\ \A r \in Requests \ contended :
       /\ status'[r] = IF r \notin S THEN status[r]
                       ELSE IF status[r] = "CONFIRMED" THEN "COMPLETED" ELSE "EXPIRED"
       /\ winner'[r] = winner[r]
  /\ contended \subseteq contended'

Next ==
  /\ \/ \E r \in Requests : OpenRequest(r) \/ \E m \in Movers : Award(r, m)
     \/ \E S \in SUBSET Requests : Close(S)
  /\ OneLive'

Spec == Init /\ [][Next]_lifecycle
=============================================================================
