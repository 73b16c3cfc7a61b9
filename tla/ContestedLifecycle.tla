------------------------- MODULE ContestedLifecycle -------------------------
(***************************************************************************)
(* What is left of RequestLifecycle when handlers and batches overlap at   *)
(* one request: several estimates may be accepted, an acceptance may be    *)
(* overwritten by an answer of the mover that was under way, and a closed  *)
(* request may be confirmed once more by a late acceptance.  What stays:   *)
(* a request is opened once and never pending again, a customer has one    *)
(* open request at a time, nothing is accepted before a request is         *)
(* confirmed, and what was never confirmed is never completed.             *)
(***************************************************************************)
CONSTANTS Requests, Movers, Customers, OwnerOf

VARIABLES status,    \* of each request
          accepted   \* the ACCEPTED estimates

contested == <<status, accepted>>

OpenStatus == {"PENDING", "CONFIRMED"}
Live(c) == {r \in Requests : OwnerOf[r] = c /\ status[r] \in OpenStatus}

Init ==
  /\ status = [r \in Requests |-> "NONE"]
  /\ accepted = {}

OpenRequest(r) ==
  /\ status[r] = "NONE"
  /\ Live(OwnerOf[r]) = {}
  /\ status' = [status EXCEPT ![r] = "PENDING"]
  /\ UNCHANGED accepted

Accept(r, m) ==
  /\ status[r] # "NONE"
  /\ Live(OwnerOf[r]) \subseteq {r}
  /\ status' = [status EXCEPT ![r] = "CONFIRMED"]
  /\ accepted' = accepted \cup {<<r, m>>}

Withdraw(e) ==
  /\ e \in accepted
  /\ accepted' = accepted \ {e}
  /\ UNCHANGED status

(* A batch completes the requests it once read as confirmed and expires    *)
(* those it read as pending, whatever has become of them.                  *)
Close(S, T) ==
  /\ \A r \in S : status[r] \notin {"NONE", "PENDING"}
  /\ \A r \in T : status[r] # "NONE"
  /\ status' = [r \in Requests |-> IF r \in S THEN "COMPLETED"
                                   ELSE IF r \in T THEN "EXPIRED" ELSE status[r]]
  /\ UNCHANGED accepted

Next ==
  \/ \E r \in Requests : OpenRequest(r) \/ \E m \in Movers : Accept(r, m)
  \/ \E e \in accepted : Withdraw(e)
  \/ \E S, T \in SUBSET Requests : Close(S, T)

Spec == Init /\ [][Next]_contested
=============================================================================
