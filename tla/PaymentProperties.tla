------------------------- MODULE PaymentProperties -------------------------
(***************************************************************************)
(* What is expected of Payment: first what holds whatever overlaps and     *)
(* fails, then what the code's comments say and the model refutes.         *)
(***************************************************************************)
EXTENDS Payment

DoneKeys(t) == {k \in Keys : toss[k].status = "DONE" /\ orders[toss[k].order] = t}

(* A row is PAID only with a key that Toss approved, for the amount of     *)
(* that kind and an order id of that kind: not by a stale read, a lookup   *)
(* of another payment or an answer that comes late.                        *)
PaidIsBacked ==
  \A t \in Kinds :
    IsPaid(t) => /\ rows[t].key \in DoneKeys(t)
                 /\ toss[rows[t].key].amount = Amount(t)

(* Money moves as Settlement allows, whatever the rows say, and however    *)
(* late the estimate is taken back or its request reopened: only what some *)
(* confirmation under way found due, and the balance on top of a deposit.  *)
WaitingKeys(t) == {k \in Keys : toss[k].status = "WAITING" /\ orders[toss[k].order] = t}
Confirming(t) ==
  {h \in Handlers : (At(h, "check") \/ At(h, "toss")) /\ handler[h].kind = t}

Charges == INSTANCE Settlement
             WITH granted <- {t \in Kinds : Confirming(t) # {}},
                  waiting <- {t \in Kinds : WaitingKeys(t) # {}},
                  charged <- {t \in Kinds : DoneKeys(t) # {}}

ImplementsSettlement == Charges!Spec

(* A late handler never turns a PAID row into a FAILED one, and never      *)
(* replaces the key it was paid with.                                      *)
KeepsPaidRecord ==
  \A t \in Kinds :
    IsPaid(t) => rows'[t].status # "FAILED" /\ rows'[t].key = rows[t].key

PaidRecordKept == [][KeepsPaidRecord]_rows

(* The key of a payment is never the key of the other one, so that the     *)
(* unique index never turns an approved payment into an error.             *)
KeysApart ==
  \A h \in Handlers : At(h, "paid") \/ At(h, "save") => ~KeyElsewhere(h)

-----------------------------------------------------------------------------
(* Said by comments of the code.                                           *)

(* paymentService: one payment of each kind, "the same orderId is the      *)
(* idempotency key, so a retry is not approved twice".                     *)
ChargedOnce == \A t \in Kinds : \A j, k \in DoneKeys(t) : j = k

(* paymentService: a READY row with a key waits for Toss's verdict on that *)
(* key, which confirm can look up under the row's order id.                *)
PendingKeyIsCurrent ==
  \A t \in Kinds : IsInProgress(t) => toss[rows[t].key].order = rows[t].order
=============================================================================
