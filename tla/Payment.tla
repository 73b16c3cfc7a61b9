------------------------------ MODULE Payment ------------------------------
(***************************************************************************)
(* The two payments of one estimate: a deposit once the estimate is        *)
(* ACCEPTED, the balance once the move is COMPLETED and the deposit is     *)
(* PAID.  There is one payment row of each kind.                           *)
(*                                                                         *)
(* A handler of createOrder or of confirm reads rows, decides, calls Toss  *)
(* and writes, outside any transaction: between two of its steps any other *)
(* handler may run, and it may stop after any of them.  The user and owner *)
(* checks are left out: every request here is the customer's own.          *)
(*                                                                         *)
(* Toss is external.  It is modelled as src/ relies on it: a payment key   *)
(* is approved at most once, an order at most by one key (the order id is  *)
(* the idempotency key), an answer may be lost after it took effect.       *)
(*                                                                         *)
(* A definition with a plausible bug stands before the one it distorts:    *)
(* RowsAllowAnyBalance, MatchesAnyAmount, LookUpStatusOnly and             *)
(* MarkFailedBlindly.  Nothing uses them.                                  *)
(***************************************************************************)
EXTENDS Integers, Sequences

CONSTANTS
  Handlers,   \* HTTP handlers in flight at once
  Keys,       \* payment keys Toss hands out
  NoKey,      \* a paymentKey column that is null
  Price,      \* the price of the estimate
  Amounts,    \* bound: amounts a browser names
  Verdicts,   \* what Toss makes of a payment: without "WAITING", cards only
  MaxOrders   \* bound: order ids generated

ASSUME KeyAssumption == NoKey \notin Keys
ASSUME PriceAssumption == Price \in Nat
ASSUME AmountsAssumption == Amounts \subseteq Nat
ASSUME VerdictsAssumption == Verdicts \subseteq {"DONE", "WAITING", "FINAL"}
ASSUME OrdersAssumption == MaxOrders \in Nat

VARIABLES
  accepted,   \* the status of the estimate is ACCEPTED
  completed,  \* the status of its request is COMPLETED
  rows,       \* the payment row of each kind
  orders,     \* orders[o]: the kind the order id o was generated for
  toss,       \* what Toss knows of each payment key
  handler     \* what each handler is about to do

estimateVars == <<accepted, completed>>
vars == <<accepted, completed, rows, orders, toss, handler>>

Kinds == {"DEPOSIT", "BALANCE"}
OrderIds == 0 .. MaxOrders

(* calculateAmounts                                                        *)
DepositAmount == Price \div 10
Amount(t) == IF t = "DEPOSIT" THEN DepositAmount ELSE Price - DepositAmount

Absent == [status |-> "NONE", order |-> 0, key |-> NoKey]
Unopened == [status |-> "NONE", order |-> 0, amount |-> 0]
Idle == [pc |-> "idle"]

Steps == {"order", "create", "reset", "check", "toss", "lookup", "paid", "failed", "save"}

Row == [status : {"NONE", "READY", "PAID", "FAILED"}, order : OrderIds,
        key : Keys \cup {NoKey}]
TossPayment == [status : {"NONE", "IN_PROGRESS", "WAITING", "DONE", "FINAL"},
                order : OrderIds, amount : Amounts \cup {0}]
Working == [pc : Steps, kind : Kinds, order : OrderIds, key : Keys \cup {NoKey}]

TypeOK ==
  /\ accepted \in BOOLEAN /\ completed \in BOOLEAN
  /\ rows \in [Kinds -> Row]
  /\ orders \in Seq(Kinds) /\ Len(orders) <= MaxOrders
  /\ toss \in [Keys -> TossPayment]
  /\ handler \in [Handlers -> Working \cup {Idle}]

Init ==
  /\ accepted = FALSE /\ completed = FALSE
  /\ rows = [t \in Kinds |-> Absent]
  /\ orders = <<>>
  /\ toss = [k \in Keys |-> Unopened]
  /\ handler = [h \in Handlers |-> Idle]

-----------------------------------------------------------------------------
(* The estimate and its request, as ContestedLifecycle lets module         *)
(* Matching change them.  confirmAndCloseOthers accepts the estimate and   *)
(* confirms the request; an answer of the mover that was under way writes  *)
(* over the ACCEPTED status; the batch completes a request that was        *)
(* confirmed, by this estimate or another; a late acceptance of another    *)
(* estimate, or a batch that had read it PENDING, changes it back.         *)
AcceptEstimate ==
  /\ accepted' = TRUE /\ completed' = FALSE
  /\ UNCHANGED <<rows, orders, toss, handler>>

WithdrawEstimate ==
  /\ accepted
  /\ accepted' = FALSE
  /\ UNCHANGED <<completed, rows, orders, toss, handler>>

CompleteMove ==
  /\ completed' = TRUE
  /\ UNCHANGED <<accepted, rows, orders, toss, handler>>

ReopenRequest ==
  /\ completed
  /\ completed' = FALSE
  /\ UNCHANGED <<accepted, rows, orders, toss, handler>>

-----------------------------------------------------------------------------
IsPaid(t) == rows[t].status = "PAID"

(* A READY row with a payment key waits for Toss's verdict.                *)
IsInProgress(t) == rows[t].status = "READY" /\ rows[t].key # NoKey

(* canPay with ignoreInProgress looks at the estimate and its request, as  *)
(* the handler's first read found them, and at the rows of its second.     *)
Payable(t) == IF t = "DEPOSIT" THEN accepted ELSE completed

RowsAllowAnyBalance(t) == ~IsPaid(t)
RowsAllow(t) == ~IsPaid(t) /\ (t = "BALANCE" => IsPaid("DEPOSIT"))

At(h, pc) == handler[h] # Idle /\ handler[h].pc = pc
GoTo(h, pc) == handler' = [handler EXCEPT ![h].pc = pc]
Reply(h) == handler' = [handler EXCEPT ![h] = Idle]

(* createOrder, its first read.                                            *)
OrderRequest(h, t) ==
  /\ handler[h] = Idle
  /\ Payable(t)
  /\ Amount(t) > 0
  /\ handler' = [handler EXCEPT ![h] =
                   [pc |-> "order", kind |-> t, order |-> 0, key |-> NoKey]]
  /\ UNCHANGED <<estimateVars, rows, orders, toss>>

(* createOrder, its second read: an absent row will be created, a FAILED   *)
(* one opened again; a READY one is answered as it is and changes nothing. *)
CheckOrder(h) ==
  LET t == handler[h].kind IN
  /\ At(h, "order")
  /\ \/ /\ RowsAllow(t)
        /\ \/ rows[t].status = "NONE" /\ GoTo(h, "create")
           \/ rows[t].status = "FAILED" /\ GoTo(h, "reset")
     \/ /\ ~RowsAllow(t) \/ rows[t].status = "READY"
        /\ Reply(h)
  /\ UNCHANGED <<estimateVars, rows, orders, toss>>

(* newOrderId                                                              *)
NewOrder(t) ==
  /\ Len(orders) < MaxOrders
  /\ orders' = Append(orders, t)

(* createOrGet: an upsert that leaves an existing row alone.               *)
CreateOrGet(h) ==
  LET t == handler[h].kind IN
  /\ At(h, "create")
  /\ \/ /\ rows[t].status = "NONE"
        /\ NewOrder(t)
        /\ rows' = [rows EXCEPT ![t] = [status |-> "READY", order |-> Len(orders'),
                                        key |-> NoKey]]
     \/ /\ rows[t].status # "NONE"
        /\ UNCHANGED <<rows, orders>>
  /\ Reply(h)
  /\ UNCHANGED <<estimateVars, toss>>

(* resetForRetry: whatever the row has become since it was read; the       *)
(* payment key stays.                                                      *)
ResetForRetry(h) ==
  LET t == handler[h].kind IN
  /\ At(h, "reset")
  /\ NewOrder(t)
  /\ rows' = [rows EXCEPT ![t].status = "READY", ![t].order = Len(orders')]
  /\ Reply(h)
  /\ UNCHANGED <<estimateVars, toss>>

-----------------------------------------------------------------------------
(* The customer pays in Toss's window, for an order and an amount the      *)
(* browser names.                                                          *)
OpenWidget(k, o, a) ==
  /\ toss[k].status = "NONE"
  /\ o \in DOMAIN orders
  /\ toss' = [toss EXCEPT ![k] = [status |-> "IN_PROGRESS", order |-> o, amount |-> a]]
  /\ UNCHANGED <<estimateVars, rows, orders, handler>>

(* confirm, its first read: the row that has this order id now, unless it  *)
(* is paid, costs something else or waits for another key, with the        *)
(* estimate and its request.                                               *)
ConfirmRequest(h, k, o, a, t) ==
  /\ handler[h] = Idle
  /\ toss[k].status # "NONE"
  /\ rows[t].status # "NONE" /\ rows[t].order = o
  /\ ~IsPaid(t)
  /\ a = Amount(t)
  /\ IsInProgress(t) => rows[t].key = k
  /\ Payable(t)
  /\ handler' = [handler EXCEPT ![h] =
                   [pc |-> "check", kind |-> t, order |-> o, key |-> k]]
  /\ UNCHANGED <<estimateVars, rows, orders, toss>>

(* confirm, its second read.                                               *)
CheckRows(h) ==
  /\ At(h, "check")
  /\ \/ RowsAllow(handler[h].kind) /\ GoTo(h, "toss")
     \/ ~RowsAllow(handler[h].kind) /\ Reply(h)
  /\ UNCHANGED <<estimateVars, rows, orders, toss>>

MatchesAnyAmount(h) == toss[handler[h].key].order = handler[h].order

(* The key was opened for the order and the amount that are confirmed; the *)
(* amount confirmed is the row's, since confirm compared them.             *)
Matches(h) ==
  /\ toss[handler[h].key].order = handler[h].order
  /\ toss[handler[h].key].amount = Amount(handler[h].kind)

(* The step confirm goes on with, by the status of Toss's payment.         *)
After(status) == CASE status = "DONE" -> "paid"
                   [] status = "FINAL" -> "failed"
                   [] OTHER -> "save"

OrderTaken(o) == \E k \in Keys : toss[k].order = o /\ toss[k].status \in {"WAITING", "DONE"}

(* Toss takes the confirmation of an open key: it approves, waits for a    *)
(* bank transfer or refuses.  The answer arrives, or is lost and the       *)
(* handler answers 503.                                                    *)
TossDecides(h) ==
  LET k == handler[h].key IN
  /\ At(h, "toss")
  /\ toss[k].status = "IN_PROGRESS"
  /\ Matches(h)
  /\ ~OrderTaken(handler[h].order)
  /\ \E verdict \in Verdicts :
       /\ toss' = [toss EXCEPT ![k].status = verdict]
       /\ GoTo(h, After(verdict)) \/ Reply(h)
  /\ UNCHANGED <<estimateVars, rows, orders>>

(* A key of another order or amount, or an order another key has taken: a  *)
(* 4xx that changes nothing at Toss.                                       *)
TossRefuses(h) ==
  /\ At(h, "toss")
  /\ toss[handler[h].key].status = "IN_PROGRESS"
  /\ ~Matches(h) \/ OrderTaken(handler[h].order)
  /\ GoTo(h, "failed")
  /\ UNCHANGED <<estimateVars, rows, orders, toss>>

(* ALREADY_PROCESSED_PAYMENT.                                              *)
TossAlreadyProcessed(h) ==
  /\ At(h, "toss")
  /\ toss[handler[h].key].status # "IN_PROGRESS"
  /\ GoTo(h, "lookup")
  /\ UNCHANGED <<estimateVars, rows, orders, toss>>

(* getPayment: a payment of another order or amount changes nothing.       *)
LookUpStatusOnly(h) ==
  /\ At(h, "lookup")
  /\ GoTo(h, After(toss[handler[h].key].status))
  /\ UNCHANGED <<estimateVars, rows, orders, toss>>

LookUp(h) ==
  /\ At(h, "lookup")
  /\ \/ ~Matches(h) /\ Reply(h)
     \/ Matches(h) /\ GoTo(h, After(toss[handler[h].key].status))
  /\ UNCHANGED <<estimateVars, rows, orders, toss>>

(* The unique index on paymentKey.                                         *)
KeyElsewhere(h) ==
  \E t \in Kinds \ {handler[h].kind} : rows[t].key = handler[h].key

MarkPaid(h) ==
  LET t == handler[h].kind IN
  /\ At(h, "paid")
  /\ rows' = IF IsPaid(t) \/ KeyElsewhere(h) THEN rows
             ELSE [rows EXCEPT ![t].status = "PAID", ![t].key = handler[h].key]
  /\ Reply(h)
  /\ UNCHANGED <<estimateVars, orders, toss>>

MarkFailedBlindly(h) ==
  /\ At(h, "failed")
  /\ rows' = [rows EXCEPT ![handler[h].kind].status = "FAILED"]
  /\ Reply(h)
  /\ UNCHANGED <<estimateVars, orders, toss>>

MarkFailed(h) ==
  LET t == handler[h].kind IN
  /\ At(h, "failed")
  /\ rows' = IF IsPaid(t) THEN rows ELSE [rows EXCEPT ![t].status = "FAILED"]
  /\ Reply(h)
  /\ UNCHANGED <<estimateVars, orders, toss>>

SavePaymentKey(h) ==
  LET t == handler[h].kind IN
  /\ At(h, "save")
  /\ rows' = IF rows[t].status # "READY" \/ KeyElsewhere(h) THEN rows
             ELSE [rows EXCEPT ![t].key = handler[h].key]
  /\ Reply(h)
  /\ UNCHANGED <<estimateVars, orders, toss>>

(* No answer, a 5xx, a lost connection or a crash: the handler ends and    *)
(* writes nothing more.                                                    *)
GiveUp(h) ==
  /\ handler[h] # Idle
  /\ Reply(h)
  /\ UNCHANGED <<estimateVars, rows, orders, toss>>

(* A transfer arrives, or a payment that is not approved runs out: nothing *)
(* tells the server.                                                       *)
TossSettles(k) ==
  /\ \/ toss[k].status = "WAITING" /\ toss' = [toss EXCEPT ![k].status = "DONE"]
     \/ /\ toss[k].status \in {"WAITING", "IN_PROGRESS"}
        /\ toss' = [toss EXCEPT ![k].status = "FINAL"]
  /\ UNCHANGED <<estimateVars, rows, orders, handler>>

-----------------------------------------------------------------------------
Continue(h) ==
  \/ CheckOrder(h) \/ CreateOrGet(h) \/ ResetForRetry(h)
  \/ CheckRows(h)
  \/ TossDecides(h) \/ TossRefuses(h) \/ TossAlreadyProcessed(h) \/ LookUp(h)
  \/ MarkPaid(h) \/ MarkFailed(h) \/ SavePaymentKey(h)
  \/ GiveUp(h)

Next ==
  \/ AcceptEstimate \/ WithdrawEstimate \/ CompleteMove \/ ReopenRequest
  \/ \E h \in Handlers, t \in Kinds :
       \/ OrderRequest(h, t)
       \/ \E k \in Keys, o \in 1 .. MaxOrders, a \in Amounts :
            ConfirmRequest(h, k, o, a, t)
  \/ \E h \in Handlers : Continue(h)
  \/ \E k \in Keys :
       \/ TossSettles(k)
       \/ \E o \in 1 .. MaxOrders, a \in Amounts : OpenWidget(k, o, a)

Spec == Init /\ [][Next]_vars
=============================================================================
