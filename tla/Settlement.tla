----------------------------- MODULE Settlement -----------------------------
(***************************************************************************)
(* What the payment service promises about money, without rows, order ids  *)
(* or handlers.  A payment is granted while it is due: the deposit while   *)
(* the estimate is accepted, the balance while the move is completed.      *)
(* Only a granted payment is charged, or taken to wait for its transfer,   *)
(* and the balance only on top of a charged deposit.  The estimate and its *)
(* request change freely, so a payment may be charged that is due no more: *)
(* what the service promises is that it was due when it was granted.       *)
(***************************************************************************)
VARIABLES
  accepted, completed,  \* the estimate, and its request
  granted,              \* payments some confirmation under way found due
  waiting,              \* payments taken, and not yet charged
  charged

settlement == <<accepted, completed, granted, waiting, charged>>

Payments == {"DEPOSIT", "BALANCE"}
Due(t) == IF t = "DEPOSIT" THEN accepted ELSE completed
OnTop(t) == t = "BALANCE" => "DEPOSIT" \in charged

Init ==
  /\ accepted = FALSE /\ completed = FALSE
  /\ granted = {} /\ waiting = {} /\ charged = {}

EstimateChanges ==
  /\ accepted' \in BOOLEAN /\ completed' \in BOOLEAN
  /\ UNCHANGED <<granted, waiting, charged>>

Grant(t) ==
  /\ Due(t)
  /\ granted' = granted \cup {t}
  /\ UNCHANGED <<accepted, completed, waiting, charged>>

(* The confirmation that took the payment may have been the last one.      *)
MayEnd(t) == granted' \in {granted, granted \ {t}}

Charge(t) ==
  /\ t \in granted /\ OnTop(t)
  /\ charged' = charged \cup {t}
  /\ MayEnd(t)
  /\ UNCHANGED <<accepted, completed, waiting>>

Wait(t) ==
  /\ t \in granted /\ OnTop(t)
  /\ waiting' = waiting \cup {t}
  /\ MayEnd(t)
  /\ UNCHANGED <<accepted, completed, charged>>

EndWithoutCharge(t) ==
  /\ granted' = granted \ {t}
  /\ UNCHANGED <<accepted, completed, waiting, charged>>

(* The transfer arrives, or runs out.                                      *)
Settle(t) ==
  /\ t \in waiting
  /\ waiting' \in {waiting, waiting \ {t}}
  /\ charged' \in {charged, charged \cup {t}}
  /\ UNCHANGED <<accepted, completed, granted>>

Next ==
  \/ EstimateChanges
  \/ \E t \in Payments :
       Grant(t) \/ Charge(t) \/ Wait(t) \/ EndWithoutCharge(t) \/ Settle(t)

Spec == Init /\ [][Next]_settlement
=============================================================================
