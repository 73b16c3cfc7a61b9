--------------------------- MODULE PaymentProofs ---------------------------
(***************************************************************************)
(* Proofs about Payment for any number of handlers, payment keys and       *)
(* orders, any price and any verdicts of Toss; and, at the end, about      *)
(* Quote for any prices and handlers.                                      *)
(***************************************************************************)
EXTENDS PaymentProperties, Quote, TLAPS

(* The estimate or its request changes.                                    *)
EstimateStep == AcceptEstimate \/ WithdrawEstimate \/ CompleteMove \/ ReopenRequest

LEMMA HandlerFields ==
  ASSUME TypeOK, NEW h \in Handlers, handler[h] # Idle
  PROVE  /\ handler[h] \in Working
         /\ handler[h].kind \in Kinds
         /\ handler[h].order \in OrderIds
         /\ handler[h].key \in Keys \cup {NoKey}
BY DEF TypeOK, Working

(* A new order id is the next index of orders, and the others stay.        *)
LEMMA NewOrderFacts ==
  ASSUME TypeOK, NEW t \in Kinds, NewOrder(t)
  PROVE  /\ orders' \in Seq(Kinds)
         /\ Len(orders') = Len(orders) + 1
         /\ Len(orders') \in OrderIds /\ Len(orders) \in Nat
         /\ Len(orders') <= MaxOrders
         /\ orders'[Len(orders')] = t
         /\ \A o \in 1 .. Len(orders) : orders'[o] = orders[o]
BY OrdersAssumption DEF TypeOK, NewOrder, OrderIds

(* Updating one field of a row, of a Toss payment or of a handler.         *)
LEMMA RowUpdates ==
  ASSUME NEW r \in Row
  PROVE  /\ \A s \in {"READY", "PAID", "FAILED"} : [r EXCEPT !.status = s] \in Row
         /\ \A k \in Keys \cup {NoKey} : [r EXCEPT !.key = k] \in Row
         /\ \A k \in Keys \cup {NoKey} :
              [r EXCEPT !.status = "PAID", !.key = k] \in Row
         /\ \A o \in OrderIds :
              [r EXCEPT !.status = "READY", !.order = o] \in Row
BY DEF Row

LEMMA OtherUpdates ==
  /\ \A w \in Working, pc \in Steps : [w EXCEPT !.pc = pc] \in Working
  /\ \A p \in TossPayment, s \in {"DONE", "WAITING", "FINAL"} :
       [p EXCEPT !.status = s] \in TossPayment
BY DEF Working, TossPayment

(* Every step keeps the types.                                             *)
LEMMA TypeStep == TypeOK /\ [Next]_vars => TypeOK'
<1> SUFFICES ASSUME TypeOK, [Next]_vars PROVE TypeOK'
  OBVIOUS
<1>1. CASE UNCHANGED vars
  BY <1>1 DEF vars, TypeOK
<1>2. CASE EstimateStep
  BY <1>2 DEF EstimateStep, AcceptEstimate, WithdrawEstimate, CompleteMove,
     ReopenRequest, TypeOK
<1>3. ASSUME NEW h \in Handlers, NEW t \in Kinds, OrderRequest(h, t)
      PROVE  TypeOK'
  BY <1>3, OrdersAssumption
     DEF OrderRequest, TypeOK, estimateVars, Working, Steps, OrderIds
<1>4. ASSUME NEW h \in Handlers, NEW t \in Kinds, NEW k \in Keys,
             NEW o \in 1 .. MaxOrders, NEW a \in Amounts,
             ConfirmRequest(h, k, o, a, t)
      PROVE  TypeOK'
  BY <1>4, OrdersAssumption
     DEF ConfirmRequest, TypeOK, estimateVars, Working, Steps, OrderIds
<1>5. ASSUME NEW h \in Handlers, Continue(h) PROVE TypeOK'
  <2> DEFINE t == handler[h].kind
             k == handler[h].key
             HandlerOK == handler' \in [Handlers -> Working \cup {Idle}]
  <2>1. handler[h] # Idle
    BY <1>5 DEF Continue, CheckOrder, CreateOrGet, ResetForRetry, CheckRows, TossDecides,
       TossRefuses, TossAlreadyProcessed, LookUp, MarkPaid, MarkFailed,
       SavePaymentKey, GiveUp, At
  <2>2. /\ Reply(h) => HandlerOK
        /\ \A pc \in Steps : GoTo(h, pc) => HandlerOK
    BY <2>1, HandlerFields, OtherUpdates DEF TypeOK, Reply, GoTo
  <2>3. t \in Kinds /\ k \in Keys \cup {NoKey} /\ rows[t] \in Row
    BY <2>1, HandlerFields DEF TypeOK
  <2>4. \A status : After(status) \in Steps
    BY DEF After, Steps
  <2> HIDE DEF t, k, HandlerOK
  <2>5. ASSUME UNCHANGED <<estimateVars, toss, orders>>, HandlerOK,
               \/ rows' = rows
               \/ rows' = [rows EXCEPT ![t].status = "PAID", ![t].key = k]
               \/ rows' = [rows EXCEPT ![t].status = "FAILED"]
               \/ rows' = [rows EXCEPT ![t].key = k]
        PROVE  TypeOK'
    <3>1. PICK r \in Row : rows' = [rows EXCEPT ![t] = r]
      <4>1. CASE rows' = rows
        BY <2>3, <4>1 DEF TypeOK
      <4>2. CASE rows' = [rows EXCEPT ![t].status = "PAID", ![t].key = k]
        BY <2>3, <4>2, RowUpdates DEF TypeOK
      <4>3. CASE rows' = [rows EXCEPT ![t].status = "FAILED"]
        BY <2>3, <4>3, RowUpdates DEF TypeOK
      <4>4. CASE rows' = [rows EXCEPT ![t].key = k]
        BY <2>3, <4>4, RowUpdates DEF TypeOK
      <4> QED
        BY <2>5, <4>1, <4>2, <4>3, <4>4
    <3> QED
      BY <2>5, <3>1 DEF TypeOK, HandlerOK, estimateVars
  <2>6. ASSUME UNCHANGED <<estimateVars, toss>>, HandlerOK, NewOrder(t),
               \/ rows' = [rows EXCEPT ![t] = [status |-> "READY",
                                              order |-> Len(orders'), key |-> NoKey]]
               \/ rows' = [rows EXCEPT ![t].status = "READY", ![t].order = Len(orders')]
        PROVE  TypeOK'
    <3>1. Len(orders') \in OrderIds
      BY <2>3, <2>6, NewOrderFacts
    <3>2. [status |-> "READY", order |-> Len(orders'), key |-> NoKey] \in Row
      BY <3>1 DEF Row
    <3>3. PICK r \in Row : rows' = [rows EXCEPT ![t] = r]
      <4>1. CASE rows' = [rows EXCEPT ![t] = [status |-> "READY",
                                              order |-> Len(orders'), key |-> NoKey]]
        BY <3>2, <4>1
      <4>2. CASE rows' = [rows EXCEPT ![t].status = "READY", ![t].order = Len(orders')]
        BY <2>3, <3>1, <4>2, RowUpdates DEF TypeOK
      <4> QED
        BY <2>6, <4>1, <4>2
    <3> QED
      BY <2>3, <2>6, <3>3, NewOrderFacts DEF TypeOK, HandlerOK, estimateVars
  <2>7. CASE CreateOrGet(h)
    BY <2>2, <2>5, <2>6, <2>7 DEF CreateOrGet, t
  <2>8. CASE ResetForRetry(h)
    BY <2>2, <2>6, <2>8 DEF ResetForRetry, t
  <2>9. CASE CheckOrder(h) \/ CheckRows(h) \/ TossRefuses(h)
             \/ TossAlreadyProcessed(h) \/ LookUp(h) \/ GiveUp(h)
    <3>1. HandlerOK /\ UNCHANGED <<estimateVars, rows, orders, toss>>
      BY <2>2, <2>4, <2>9 DEF CheckOrder, CheckRows, TossRefuses, TossAlreadyProcessed,
         LookUp, GiveUp, Steps
    <3> QED
      BY <2>5, <3>1
  <2>10. CASE TossDecides(h)
    <3>1. PICK verdict \in Verdicts :
            /\ toss' = [toss EXCEPT ![k].status = verdict]
            /\ HandlerOK /\ UNCHANGED <<estimateVars, rows, orders>>
      BY <2>2, <2>4, <2>10 DEF TossDecides, k
    <3>2. toss' \in [Keys -> TossPayment]
      BY <3>1, VerdictsAssumption, OtherUpdates DEF TypeOK
    <3> QED
      BY <3>1, <3>2 DEF TypeOK, HandlerOK, estimateVars
  <2>11. CASE MarkPaid(h)
    BY <2>2, <2>5, <2>11 DEF MarkPaid, t, k
  <2>12. CASE MarkFailed(h)
    BY <2>2, <2>5, <2>12 DEF MarkFailed, t
  <2>13. CASE SavePaymentKey(h)
    BY <2>2, <2>5, <2>13 DEF SavePaymentKey, t, k
  <2> QED
    BY <1>5, <2>7, <2>8, <2>9, <2>10, <2>11, <2>12, <2>13 DEF Continue
<1>6. ASSUME NEW k \in Keys, TossSettles(k) PROVE TypeOK'
  <2>1. PICK s \in {"DONE", "FINAL"} : toss' = [toss EXCEPT ![k].status = s]
    BY <1>6 DEF TossSettles
  <2>2. toss' \in [Keys -> TossPayment]
    BY <2>1, OtherUpdates DEF TypeOK
  <2> QED
    BY <1>6, <2>2 DEF TossSettles, TypeOK, estimateVars
<1>7. ASSUME NEW k \in Keys, NEW o \in 1 .. MaxOrders, NEW a \in Amounts,
             OpenWidget(k, o, a)
      PROVE  TypeOK'
  BY <1>7, OrdersAssumption DEF OpenWidget, TypeOK, estimateVars, TossPayment, OrderIds
<1> QED
  BY <1>1, <1>2, <1>3, <1>4, <1>5, <1>6, <1>7 DEF Next, EstimateStep

LEMMA InitTypes == Init => TypeOK
<1> SUFFICES ASSUME Init PROVE TypeOK
  OBVIOUS
<1>1. accepted \in BOOLEAN /\ completed \in BOOLEAN
  BY DEF Init
<1>2. /\ orders \in Seq(Kinds) /\ Len(orders) <= MaxOrders
      /\ rows \in [Kinds -> Row]
  BY OrdersAssumption DEF Init, Absent, OrderIds, Row
<1>3. /\ toss \in [Keys -> TossPayment]
      /\ handler \in [Handlers -> Working \cup {Idle}]
  BY OrdersAssumption DEF Init, Unopened, OrderIds, TossPayment
<1> QED
  BY <1>1, <1>2, <1>3 DEF TypeOK

(* Type correctness of the payment service.                                *)
THEOREM TypeCorrect == Spec => []TypeOK
<1> QED
  BY InitTypes, TypeStep, PTL DEF Spec

-----------------------------------------------------------------------------
(* What makes the money properties inductive, of a handler, a row and a    *)
(* payment key.                                                            *)

Issued(o, t) == o \in 1 .. Len(orders) /\ orders[o] = t

KeyOf(t, k) == /\ k \in Keys
               /\ toss[k].status # "NONE"
               /\ toss[k].amount = Amount(t)
               /\ orders[toss[k].order] = t

OnDeposit(t) == t = "BALANCE" => DoneKeys("DEPOSIT") # {}

InConfirm(h) == handler[h] # Idle /\ handler[h].pc \notin {"order", "create", "reset"}

(* A handler of confirm works on an order id generated for its kind and on *)
(* an opened key; a verdict it carries is Toss's, on that order; and what  *)
(* canPay found of the rows stays true while Toss is asked.                *)
HandlerInv(h) ==
  InConfirm(h) =>
    /\ Issued(handler[h].order, handler[h].kind)
    /\ handler[h].key \in Keys
    /\ toss[handler[h].key].status # "NONE"
    /\ rows[handler[h].kind].status # "NONE"
    /\ handler[h].pc \in {"paid", "save"} => Matches(h)
    /\ handler[h].pc = "paid" => toss[handler[h].key].status = "DONE"
    /\ handler[h].pc = "toss" => OnDeposit(handler[h].kind)

(* A row's order id was generated for its kind; a key it keeps was opened  *)
(* for its kind and amount, and approved if the row is PAID.               *)
RowInv(t) ==
  /\ rows[t].status # "NONE" => Issued(rows[t].order, t)
  /\ rows[t].key # NoKey => KeyOf(t, rows[t].key)
  /\ IsPaid(t) => KeyOf(t, rows[t].key) /\ toss[rows[t].key].status = "DONE"

(* Toss works on generated order ids; it takes a balance on a deposit.     *)
TossInv(k) ==
  /\ toss[k].status # "NONE" => toss[k].order \in 1 .. Len(orders)
  /\ toss[k].status \in {"WAITING", "DONE"} => OnDeposit(orders[toss[k].order])

MoneyInv ==
  /\ TypeOK
  /\ \A h \in Handlers : HandlerInv(h)
  /\ \A t \in Kinds : RowInv(t)
  /\ \A k \in Keys : TossInv(k)

(* What no step undoes: an order id keeps its kind, a key that was opened  *)
(* keeps its order and amount, and an approved key stays approved.         *)
Grows ==
  /\ Len(orders) <= Len(orders')
  /\ \A o \in 1 .. Len(orders) : orders'[o] = orders[o]
  /\ \A k \in Keys : toss[k].status # "NONE" =>
       /\ toss'[k].status # "NONE"
       /\ toss'[k].order = toss[k].order
       /\ toss'[k].amount = toss[k].amount
  /\ \A k \in Keys : toss[k].status = "DONE" => toss'[k].status = "DONE"

LEMMA GrowsStep == TypeOK /\ [Next]_vars => Grows
<1> SUFFICES ASSUME TypeOK, [Next]_vars PROVE Grows
  OBVIOUS
<1>0. Len(orders) \in Nat
  BY DEF TypeOK
<1>1. CASE UNCHANGED <<estimateVars, orders, toss>>
  BY <1>0, <1>1 DEF Grows
<1>2. CASE EstimateStep
  BY <1>0, <1>2 DEF EstimateStep, AcceptEstimate, WithdrawEstimate, CompleteMove,
     ReopenRequest, Grows
<1>3. ASSUME NEW k \in Keys, NEW s \in {"DONE", "WAITING", "FINAL"},
             toss[k].status # "NONE", toss[k].status # "DONE",
             toss' = [toss EXCEPT ![k].status = s], UNCHANGED <<estimateVars, orders>>
      PROVE  Grows
  BY <1>0, <1>3 DEF Grows, TypeOK, TossPayment
<1>4. ASSUME NEW h \in Handlers, Continue(h) PROVE Grows
  <2>1. handler[h] # Idle =>
          handler[h].kind \in Kinds /\ handler[h].key \in Keys \cup {NoKey}
    BY HandlerFields
  <2>2. CASE CreateOrGet(h) \/ ResetForRetry(h)
    <3>1. CASE NewOrder(handler[h].kind)
      <4>1. UNCHANGED <<estimateVars, toss>>
        BY <2>2 DEF CreateOrGet, ResetForRetry
      <4> QED
        BY <1>0, <2>1, <2>2, <3>1, <4>1, NewOrderFacts
           DEF CreateOrGet, ResetForRetry, At, Grows
    <3> QED
      BY <1>1, <2>2, <3>1 DEF CreateOrGet, ResetForRetry
  <2>3. CASE TossDecides(h)
    <3>1. PICK verdict \in Verdicts :
            toss' = [toss EXCEPT ![handler[h].key].status = verdict]
      BY <2>3 DEF TossDecides
    <3>2. CASE handler[h].key \in Keys
      BY <1>3, <2>3, <3>1, <3>2, VerdictsAssumption DEF TossDecides
    <3>3. CASE handler[h].key \notin Keys
      <4>1. toss' = toss
        BY <3>1, <3>3 DEF TypeOK
      <4> QED
        BY <1>1, <2>3, <4>1 DEF TossDecides
    <3> QED
      BY <3>2, <3>3
  <2> QED
    BY <1>1, <1>4, <2>2, <2>3
       DEF Continue, CheckOrder, CheckRows, TossRefuses, TossAlreadyProcessed, LookUp,
           MarkPaid, MarkFailed, SavePaymentKey, GiveUp
<1>5. ASSUME NEW k \in Keys, TossSettles(k) PROVE Grows
  BY <1>3, <1>5 DEF TossSettles
<1>6. ASSUME NEW k \in Keys, NEW o \in 1 .. MaxOrders, NEW a \in Amounts,
             OpenWidget(k, o, a)
      PROVE  Grows
  BY <1>0, <1>6 DEF OpenWidget, Grows, TypeOK
<1>7. ASSUME NEW h \in Handlers, NEW t \in Kinds,
             \/ OrderRequest(h, t)
             \/ \E k \in Keys, o \in 1 .. MaxOrders, a \in Amounts :
                  ConfirmRequest(h, k, o, a, t)
      PROVE  Grows
  BY <1>1, <1>7 DEF OrderRequest, ConfirmRequest
<1> QED
  BY <1>1, <1>2, <1>4, <1>5, <1>6, <1>7 DEF Next, vars, EstimateStep, estimateVars

(* What growth keeps.                                                      *)
LEMMA Kept ==
  ASSUME MoneyInv, Grows
  PROVE  /\ Len(orders) \in Nat
         /\ \A o, t : Issued(o, t) => Issued(o, t)'
         /\ \A t, k : KeyOf(t, k) => KeyOf(t, k)'
         /\ \A t : DoneKeys(t) \subseteq DoneKeys(t)'
         /\ \A t : OnDeposit(t) => OnDeposit(t)'
<1>1. Len(orders) \in Nat
  BY DEF MoneyInv, TypeOK
<1>2. \A k \in Keys : toss[k].status # "NONE" => toss[k].order \in 1 .. Len(orders)
  BY DEF MoneyInv, TossInv
<1>3. \A t : DoneKeys(t) \subseteq DoneKeys(t)'
  BY <1>1, <1>2 DEF DoneKeys, Grows
<1> QED
  BY <1>1, <1>2, <1>3 DEF Issued, KeyOf, OnDeposit, Grows

LEMMA HandlerKept ==
  ASSUME MoneyInv, Grows, NEW h \in Handlers,
         handler'[h] = handler[h] \/ handler'[h] = Idle,
         \A t \in Kinds : rows[t].status # "NONE" => rows'[t].status # "NONE"
  PROVE  HandlerInv(h)'
<1>1. CASE ~InConfirm(h)'
  BY <1>1 DEF HandlerInv
<1>2. CASE InConfirm(h)'
  <2>1. handler'[h] = handler[h] /\ InConfirm(h)
    BY <1>2 DEF InConfirm
  <2>2. handler[h].kind \in Kinds
    BY <2>1, HandlerFields DEF InConfirm, MoneyInv
  <2>3. HandlerInv(h)
    BY DEF MoneyInv
  <2>4. Matches(h) => Matches(h)'
    BY <2>1, <2>3 DEF HandlerInv, Matches, Grows
  <2> QED
    BY <2>1, <2>2, <2>3, <2>4, Kept DEF HandlerInv, Grows
<1> QED
  BY <1>1, <1>2

LEMMA RowKept ==
  ASSUME MoneyInv, Grows, NEW t \in Kinds, rows'[t] = rows[t]
  PROVE  RowInv(t)'
<1>1. RowInv(t)
  BY DEF MoneyInv
<1>2. IsPaid(t)' => IsPaid(t)
  BY DEF IsPaid
<1> QED
  BY <1>1, <1>2, Kept DEF RowInv, KeyOf, Grows

LEMMA TossKept ==
  ASSUME MoneyInv, Grows, NEW k \in Keys,
         \/ toss'[k] = toss[k]
         \/ toss[k].status # "NONE" /\ toss'[k].status \notin {"WAITING", "DONE"}
         \/ toss[k].status = "WAITING"
  PROVE  TossInv(k)'
<1>1. TossInv(k)
  BY DEF MoneyInv
<1>2. toss[k].status # "NONE" => /\ toss'[k].order = toss[k].order
                                 /\ toss[k].order \in 1 .. Len(orders)
                                 /\ orders'[toss[k].order] = orders[toss[k].order]
                                 /\ toss[k].order \in 1 .. Len(orders')
  BY <1>1, Kept DEF TossInv, Grows, TypeOK, MoneyInv
<1> QED
  BY <1>1, <1>2, Kept DEF TossInv

(* Steps that change no row and no handler: the clock and Toss.            *)
LEMMA OutsideStep ==
  ASSUME MoneyInv, Grows, TypeOK', UNCHANGED <<rows, handler>>,
         \/ UNCHANGED toss
         \/ \E k \in Keys : TossSettles(k)
         \/ \E k \in Keys, o \in 1 .. MaxOrders, a \in Amounts : OpenWidget(k, o, a)
  PROVE  MoneyInv'
<1>1. \A h \in Handlers : HandlerInv(h)'
  BY HandlerKept
<1>2. \A t \in Kinds : RowInv(t)'
  BY RowKept
<1>3. ASSUME NEW k \in Keys PROVE TossInv(k)'
  <2>1. CASE toss'[k] = toss[k]
    BY <2>1, TossKept
  <2>2. CASE \E j \in Keys : TossSettles(j)
    BY <2>1, <2>2, TossKept DEF TossSettles, MoneyInv, TypeOK, TossPayment
  <2>3. CASE \E j \in Keys, o \in 1 .. MaxOrders, a \in Amounts : OpenWidget(j, o, a)
    <3>1. PICK j \in Keys, o \in 1 .. MaxOrders, a \in Amounts : OpenWidget(j, o, a)
      BY <2>3
    <3>2. /\ toss' = [toss EXCEPT ![j] = [status |-> "IN_PROGRESS", order |-> o,
                                         amount |-> a]]
          /\ o \in 1 .. Len(orders') /\ orders' = orders
      BY <3>1 DEF OpenWidget, MoneyInv, TypeOK
    <3>3. CASE k = j
      BY <3>2, <3>3 DEF TossInv, MoneyInv, TypeOK
    <3> QED
      BY <2>1, <3>2, <3>3 DEF MoneyInv, TypeOK
  <2> QED
    BY <2>1, <2>2, <2>3
<1> QED
  BY <1>1, <1>2, <1>3 DEF MoneyInv

(* Steps of one handler that change neither rows nor Toss.                 *)
LEMMA HandlerStep ==
  ASSUME MoneyInv, Grows, TypeOK', UNCHANGED <<estimateVars, rows, orders, toss>>,
         NEW h \in Handlers, HandlerInv(h)',
         \A g \in Handlers \ {h} : handler'[g] = handler[g]
  PROVE  MoneyInv'
<1>1. \A g \in Handlers : HandlerInv(g)'
  BY HandlerKept
<1>2. \A t \in Kinds : RowInv(t)'
  BY RowKept
<1>3. \A k \in Keys : TossInv(k)'
  BY TossKept
<1> QED
  BY <1>1, <1>2, <1>3 DEF MoneyInv

(* Steps of one handler that write a row and answer.                       *)
LEMMA RowStep ==
  ASSUME MoneyInv, Grows, TypeOK', UNCHANGED <<estimateVars, toss>>,
         NEW h \in Handlers, Reply(h), NEW t \in Kinds, RowInv(t)',
         \A u \in Kinds \ {t} : rows'[u] = rows[u],
         rows[t].status # "NONE" => rows'[t].status # "NONE"
  PROVE  MoneyInv'
<1>1. \A g \in Handlers : HandlerInv(g)'
  <2>1. \A g \in Handlers : handler'[g] = handler[g] \/ handler'[g] = Idle
    BY DEF Reply, MoneyInv, TypeOK
  <2> QED
    BY <2>1, HandlerKept
<1>2. \A u \in Kinds : RowInv(u)'
  BY RowKept
<1>3. \A k \in Keys : TossInv(k)'
  BY TossKept
<1> QED
  BY <1>1, <1>2, <1>3 DEF MoneyInv

(* Toss decides: the verdict is carried, lost or both in turn.             *)
LEMMA TossDecidesStep ==
  ASSUME MoneyInv, Grows, TypeOK', NEW h \in Handlers, TossDecides(h)
  PROVE  MoneyInv'
<1> DEFINE k == handler[h].key
           t == handler[h].kind
<1>1. /\ Issued(handler[h].order, t) /\ k \in Keys /\ rows[t].status # "NONE"
      /\ Matches(h) /\ OnDeposit(t) /\ toss[k].status = "IN_PROGRESS"
  BY DEF TossDecides, At, MoneyInv, HandlerInv, InConfirm
<1>2. PICK verdict \in Verdicts :
        /\ toss' = [toss EXCEPT ![k].status = verdict]
        /\ GoTo(h, After(verdict)) \/ Reply(h)
        /\ UNCHANGED <<estimateVars, rows, orders>>
  BY DEF TossDecides
<1>3. /\ toss'[k].status = verdict /\ toss'[k].order = toss[k].order
      /\ toss'[k].amount = toss[k].amount
      /\ \A j \in Keys \ {k} : toss'[j] = toss[j]
  BY <1>1, <1>2 DEF MoneyInv, TypeOK, TossPayment
<1>4. ASSUME NEW g \in Handlers PROVE HandlerInv(g)'
  <2>1. CASE g # h \/ Reply(h)
    <3>1. handler'[g] = handler[g] \/ handler'[g] = Idle
      BY <1>2, <2>1 DEF GoTo, Reply, MoneyInv, TypeOK
    <3> QED
      BY <1>2, <3>1, HandlerKept
  <2>2. CASE g = h /\ GoTo(h, After(verdict))
    <3>1. /\ handler'[h] # Idle => handler'[h].kind = t
          /\ handler'[h] # Idle => handler'[h].key = k
          /\ handler'[h] # Idle => handler'[h].order = handler[h].order
          /\ handler'[h] # Idle => handler'[h].pc = After(verdict)
      BY <2>2, HandlerFields DEF GoTo, MoneyInv, TypeOK, TossDecides, At, Working
    <3>2. /\ verdict = "DONE" \/ After(verdict) # "paid"
          /\ verdict # "NONE" /\ After(verdict) # "toss"
      BY VerdictsAssumption DEF After
    <3>3. handler'[h] # Idle => Matches(h)'
      BY <1>1, <1>3, <3>1 DEF Matches
    <3> QED
      BY <1>1, <1>2, <1>3, <2>2, <3>1, <3>2, <3>3, Kept
         DEF HandlerInv, InConfirm
  <2> QED
    BY <1>2, <2>1, <2>2
<1>5. \A u \in Kinds : RowInv(u)'
  BY <1>2, RowKept
<1>6. ASSUME NEW j \in Keys PROVE TossInv(j)'
  <2>1. CASE j # k
    BY <1>3, <2>1, TossKept
  <2>2. CASE j = k
    <3>1. PICK o, u : o = handler[h].order /\ u = t
      OBVIOUS
    <3>2. Issued(o, u)' /\ OnDeposit(u)'
      BY <1>1, <3>1, Kept
    <3>3. toss'[j].order = o
      BY <1>1, <1>3, <2>2, <3>1 DEF Matches
    <3> QED
      BY <3>2, <3>3 DEF TossInv, Issued
  <2> QED
    BY <2>1, <2>2
<1> QED
  BY <1>4, <1>5, <1>6 DEF MoneyInv

(* MoneyInv is inductive.                                                  *)
LEMMA MoneyStep == MoneyInv /\ [Next]_vars => MoneyInv'
<1> SUFFICES ASSUME MoneyInv, [Next]_vars PROVE MoneyInv'
  OBVIOUS
<1>1. TypeOK /\ TypeOK' /\ Grows
  BY TypeStep, GrowsStep DEF MoneyInv
<1>2. CASE UNCHANGED vars \/ EstimateStep
  <2>1. UNCHANGED <<rows, handler, toss>>
    BY <1>2 DEF vars, EstimateStep, AcceptEstimate, WithdrawEstimate,
       CompleteMove, ReopenRequest
  <2> QED
    BY <1>1, <2>1, OutsideStep
<1>3. CASE \E k \in Keys :
              \/ TossSettles(k)
              \/ \E o \in 1 .. MaxOrders, a \in Amounts : OpenWidget(k, o, a)
  <2>1. UNCHANGED <<rows, handler>>
    BY <1>3 DEF TossSettles, OpenWidget
  <2> QED
    BY <1>1, <1>3, <2>1, OutsideStep
<1>4. ASSUME NEW h \in Handlers, NEW t \in Kinds, OrderRequest(h, t)
      PROVE  MoneyInv'
  <2>1. /\ UNCHANGED <<estimateVars, rows, orders, toss>>
        /\ \A g \in Handlers \ {h} : handler'[g] = handler[g]
        /\ handler'[h].pc = "order"
    BY <1>1, <1>4 DEF OrderRequest, TypeOK
  <2> QED
    BY <1>1, <2>1, HandlerStep DEF HandlerInv, InConfirm
<1>5. ASSUME NEW h \in Handlers, NEW t \in Kinds, NEW k \in Keys,
             NEW o \in 1 .. MaxOrders, NEW a \in Amounts,
             ConfirmRequest(h, k, o, a, t)
      PROVE  MoneyInv'
  <2>1. /\ UNCHANGED <<estimateVars, rows, orders, toss>>
        /\ \A g \in Handlers \ {h} : handler'[g] = handler[g]
        /\ handler'[h] = [pc |-> "check", kind |-> t, order |-> o, key |-> k]
    BY <1>1, <1>5 DEF ConfirmRequest, TypeOK
  <2>2. Issued(o, t) /\ toss[k].status # "NONE" /\ rows[t].status # "NONE"
    BY <1>5 DEF ConfirmRequest, MoneyInv, RowInv
  <2>3. Issued(o, t)'
    BY <1>1, <2>2, Kept
  <2>4. HandlerInv(h)'
    BY <2>1, <2>2, <2>3 DEF HandlerInv
  <2> QED
    BY <1>1, <2>1, <2>4, HandlerStep
<1>6. ASSUME NEW h \in Handlers, Continue(h) PROVE MoneyInv'
  <2>1. PICK t, k, o : t = handler[h].kind /\ k = handler[h].key /\ o = handler[h].order
    OBVIOUS
  <2>2. HandlerInv(h) /\ TypeOK /\ TypeOK' /\ Grows
    BY <1>1 DEF MoneyInv
  <2>3. handler[h] # Idle =>
          t \in Kinds /\ handler[h] \in Working /\ RowInv(t)
    BY <2>1, <2>2, HandlerFields DEF MoneyInv
  (* The handler goes on to another step.                                  *)
  <2>4. ASSUME UNCHANGED <<estimateVars, rows, orders, toss>>, NEW pc \in Steps,
               InConfirm(h), GoTo(h, pc), pc \notin {"create", "reset"},
               pc \in {"paid", "save"} => Matches(h),
               pc = "paid" => toss[k].status = "DONE",
               pc = "toss" => OnDeposit(t)
        PROVE  MoneyInv'
    <3>1. /\ handler'[h] = [handler[h] EXCEPT !.pc = pc]
          /\ \A g \in Handlers \ {h} : handler'[g] = handler[g]
      BY <2>2, <2>4 DEF GoTo, TypeOK
    <3>2. /\ handler'[h].kind = t /\ handler'[h].key = k /\ handler'[h].order = o
          /\ handler'[h].pc = pc
      BY <2>1, <2>3, <2>4, <3>1 DEF InConfirm, Working
    <3>3. Issued(o, t)' /\ (OnDeposit(t) => OnDeposit(t)')
      BY <1>1, <2>1, <2>2, <2>4, Kept DEF HandlerInv
    <3>4. Matches(h) => Matches(h)'
      BY <2>1, <2>4, <3>2 DEF Matches
    <3>5. HandlerInv(h)'
      BY <2>1, <2>2, <2>4, <3>2, <3>3, <3>4 DEF HandlerInv
    <3> QED
      BY <1>1, <2>4, <3>1, <3>5, HandlerStep
  (* The handler answers and changes nothing.                              *)
  <2>5. ASSUME UNCHANGED <<estimateVars, rows, orders, toss>>, Reply(h) PROVE MoneyInv'
    <3>1. handler'[h] = Idle /\ \A g \in Handlers \ {h} : handler'[g] = handler[g]
      BY <2>2, <2>5 DEF Reply, TypeOK
    <3>2. HandlerInv(h)'
      BY <3>1 DEF HandlerInv, InConfirm
    <3> QED
      BY <1>1, <2>5, <3>1, <3>2, HandlerStep
  (* The handler writes its row and answers.                               *)
  <2>6. ASSUME UNCHANGED <<estimateVars, toss>>, Reply(h), handler[h] # Idle,
               NEW r, rows' = [rows EXCEPT ![t] = r], r.status # "NONE",
               Issued(r.order, t)', r.key # NoKey => KeyOf(t, r.key),
               r.status = "PAID" => KeyOf(t, r.key) /\ toss[r.key].status = "DONE"
        PROVE  MoneyInv'
    <3>1. rows'[t] = r /\ \A u \in Kinds \ {t} : rows'[u] = rows[u]
      BY <2>2, <2>3, <2>6 DEF TypeOK
    <3>2. \A j : KeyOf(t, j) => KeyOf(t, j)'
      BY <1>1, Kept
    <3>3. RowInv(t)'
      BY <2>6, <3>1, <3>2 DEF RowInv, IsPaid
    <3> QED
      BY <1>1, <2>3, <2>6, <3>1, <3>3, RowStep
  <2>17. CASE CheckOrder(h)
    <3>1. ASSUME NEW pc \in {"create", "reset"}, GoTo(h, pc) PROVE MoneyInv'
      <4>1. /\ handler'[h] = [handler[h] EXCEPT !.pc = pc]
            /\ \A g \in Handlers \ {h} : handler'[g] = handler[g]
        BY <2>2, <3>1 DEF GoTo, TypeOK
      <4>2. handler'[h].pc = pc
        BY <2>3, <2>17, <4>1 DEF CheckOrder, At, Working
      <4>3. HandlerInv(h)'
        BY <4>2 DEF HandlerInv, InConfirm
      <4> QED
        BY <1>1, <2>17, <4>1, <4>3, HandlerStep DEF CheckOrder
    <3> QED
      BY <2>5, <2>17, <3>1 DEF CheckOrder
  <2>7. CASE CreateOrGet(h)
    <3>1. handler[h] # Idle /\ Reply(h) /\ UNCHANGED <<estimateVars, toss>>
      BY <2>7 DEF CreateOrGet, At
    <3>2. CASE UNCHANGED <<rows, orders>>
      BY <2>5, <3>1, <3>2
    <3>3. CASE NewOrder(t) /\ rows' = [rows EXCEPT ![t] =
                 [status |-> "READY", order |-> Len(orders'), key |-> NoKey]]
      <4>1. PICK n : n = Len(orders')
        OBVIOUS
      <4>2. Issued(n, t)'
        BY <2>2, <2>3, <3>1, <3>3, <4>1, NewOrderFacts DEF Issued, OrderIds
      <4>3. PICK r : r = [status |-> "READY", order |-> n, key |-> NoKey]
        OBVIOUS
      <4>4. /\ rows' = [rows EXCEPT ![t] = r]
            /\ r.status = "READY" /\ r.order = n /\ r.key = NoKey
        BY <3>3, <4>1, <4>3
      <4> QED
        BY <2>6, <3>1, <4>2, <4>4
    <3> QED
      BY <2>1, <2>7, <3>2, <3>3 DEF CreateOrGet
  <2>8. CASE ResetForRetry(h)
    <3>1. /\ handler[h] # Idle /\ Reply(h) /\ UNCHANGED <<estimateVars, toss>>
          /\ NewOrder(t)
          /\ rows' = [rows EXCEPT ![t].status = "READY", ![t].order = Len(orders')]
      BY <2>1, <2>8 DEF ResetForRetry, At
    <3>2. PICK n : n = Len(orders')
      OBVIOUS
    <3>3. Issued(n, t)'
      BY <2>2, <2>3, <3>1, <3>2, NewOrderFacts DEF Issued, OrderIds
    <3>4. PICK r : r = [rows[t] EXCEPT !.status = "READY", !.order = n]
      OBVIOUS
    <3>5. rows' = [rows EXCEPT ![t] = r]
      BY <2>2, <2>3, <3>1, <3>2, <3>4 DEF TypeOK
    <3>6. rows[t] \in Row
      BY <2>2, <2>3, <3>1 DEF TypeOK
    <3>7. r.status = "READY" /\ r.order = n /\ r.key = rows[t].key
      BY <3>4, <3>6 DEF Row
    <3> QED
      BY <2>3, <2>6, <3>1, <3>3, <3>5, <3>7 DEF RowInv
  <2>9. CASE CheckRows(h)
    <3>1. RowsAllow(t) => OnDeposit(t)
      BY DEF RowsAllow, OnDeposit, IsPaid, MoneyInv, RowInv, KeyOf, DoneKeys, Kinds
    <3> QED
      BY <2>1, <2>4, <2>5, <2>9, <3>1 DEF CheckRows, At, InConfirm, Steps
  <2>10. CASE TossDecides(h)
    BY <1>1, <2>10, TossDecidesStep
  <2>11. CASE TossRefuses(h) \/ TossAlreadyProcessed(h)
    BY <2>4, <2>11 DEF TossRefuses, TossAlreadyProcessed, At, InConfirm, Steps
  <2>12. CASE LookUp(h)
    <3>1. CASE Matches(h) /\ GoTo(h, After(toss[k].status))
      BY <2>4, <2>12, <3>1 DEF LookUp, At, InConfirm, After, Steps
    <3> QED
      BY <2>1, <2>5, <2>12, <3>1 DEF LookUp
  <2>13. CASE MarkPaid(h)
    <3>1. /\ handler[h] # Idle /\ Reply(h) /\ UNCHANGED <<estimateVars, orders, toss>>
          /\ rows' = rows \/ rows' = [rows EXCEPT ![t].status = "PAID", ![t].key = k]
          /\ KeyOf(t, k) /\ toss[k].status = "DONE" /\ rows[t].status # "NONE"
      BY <2>1, <2>2, <2>13
         DEF MarkPaid, At, HandlerInv, InConfirm, Matches, KeyOf, Issued
    <3>2. CASE rows' = [rows EXCEPT ![t].status = "PAID", ![t].key = k]
      <4>1. PICK r : r = [rows[t] EXCEPT !.status = "PAID", !.key = k]
        OBVIOUS
      <4>2. rows' = [rows EXCEPT ![t] = r]
        BY <2>2, <2>3, <3>1, <3>2, <4>1 DEF TypeOK
      <4>3. rows[t] \in Row
        BY <2>2, <2>3, <3>1 DEF TypeOK
      <4>4. r.status = "PAID" /\ r.order = rows[t].order /\ r.key = k
        BY <4>1, <4>3 DEF Row
      <4>5. Issued(r.order, t)'
        BY <2>3, <3>1, <4>4 DEF RowInv, Issued
      <4> QED
        BY <2>6, <3>1, <4>2, <4>4, <4>5
    <3> QED
      BY <2>5, <3>1, <3>2
  <2>14. CASE MarkFailed(h)
    <3>1. /\ handler[h] # Idle /\ Reply(h) /\ UNCHANGED <<estimateVars, orders, toss>>
          /\ rows' = rows \/ rows' = [rows EXCEPT ![t].status = "FAILED"]
          /\ rows[t].status # "NONE"
      BY <2>1, <2>2, <2>14 DEF MarkFailed, At, HandlerInv, InConfirm
    <3>2. CASE rows' = [rows EXCEPT ![t].status = "FAILED"]
      <4>1. PICK r : /\ rows' = [rows EXCEPT ![t] = r] /\ r.status = "FAILED"
                     /\ r.order = rows[t].order /\ r.key = rows[t].key
        BY <2>2, <2>3, <3>1, <3>2 DEF TypeOK, Row
      <4>2. Issued(r.order, t)'
        BY <2>3, <3>1, <4>1 DEF RowInv, Issued
      <4> QED
        BY <2>3, <2>6, <3>1, <4>1, <4>2 DEF RowInv
    <3> QED
      BY <2>5, <3>1, <3>2
  <2>15. CASE SavePaymentKey(h)
    <3>1. /\ handler[h] # Idle /\ Reply(h) /\ UNCHANGED <<estimateVars, orders, toss>>
          /\ \/ rows' = rows
             \/ rows[t].status = "READY" /\ rows' = [rows EXCEPT ![t].key = k]
          /\ KeyOf(t, k)
      BY <2>1, <2>2, <2>15
         DEF SavePaymentKey, At, HandlerInv, InConfirm, Matches, KeyOf, Issued
    <3>2. CASE rows[t].status = "READY" /\ rows' = [rows EXCEPT ![t].key = k]
      <4>1. PICK r : /\ rows' = [rows EXCEPT ![t] = r] /\ r.status = "READY"
                     /\ r.order = rows[t].order /\ r.key = k
        BY <2>2, <2>3, <3>1, <3>2 DEF TypeOK, Row
      <4>2. Issued(r.order, t)'
        BY <2>3, <3>1, <3>2, <4>1 DEF RowInv, Issued
      <4> QED
        BY <2>6, <3>1, <4>1, <4>2
    <3> QED
      BY <2>5, <3>1, <3>2
  <2>16. CASE GiveUp(h)
    BY <2>5, <2>16 DEF GiveUp
  <2> QED
    BY <1>6, <2>7, <2>8, <2>9, <2>10, <2>11, <2>12, <2>13, <2>14, <2>15, <2>16, <2>17
       DEF Continue
<1> QED
  BY <1>2, <1>3, <1>4, <1>5, <1>6 DEF Next, EstimateStep

LEMMA MoneyAlways == Spec => []MoneyInv
<1>1. Init => MoneyInv
  <2> SUFFICES ASSUME Init PROVE MoneyInv
    OBVIOUS
  <2>1. TypeOK
    BY InitTypes
  <2>2. \A h \in Handlers : HandlerInv(h)
    BY DEF Init, HandlerInv, InConfirm
  <2>3. \A t \in Kinds : RowInv(t)
    BY DEF Init, RowInv, IsPaid, Absent
  <2>4. \A k \in Keys : TossInv(k)
    BY DEF Init, TossInv, Unopened
  <2> QED
    BY <2>1, <2>2, <2>3, <2>4 DEF MoneyInv
<1> QED
  BY <1>1, MoneyStep, PTL DEF Spec

(* A PAID row is backed by a payment Toss approved, of its kind and its    *)
(* amount, however the handlers overlap and whatever answers are lost.     *)
THEOREM PaidBacked == Spec => []PaidIsBacked
<1>1. MoneyInv => PaidIsBacked
  BY DEF MoneyInv, RowInv, KeyOf, PaidIsBacked, DoneKeys
<1> QED
  BY <1>1, MoneyAlways, PTL

(* No handler, however late, turns a PAID row into a FAILED one or gives   *)
(* it another key.                                                         *)
THEOREM RecordKept == Spec => PaidRecordKept
<1>1. ASSUME TypeOK, [Next]_vars, NEW t \in Kinds, IsPaid(t)
      PROVE  rows'[t].status # "FAILED" /\ rows'[t].key = rows[t].key
  <2> USE <1>1 DEF IsPaid
  <2>1. CASE rows'[t] = rows[t]
    BY <2>1
  <2>2. ASSUME NEW h \in Handlers, Continue(h)
        PROVE  rows'[t].status # "FAILED" /\ rows'[t].key = rows[t].key
    <3>1. rows \in [Kinds -> Row] /\ rows[t] \in Row
      BY DEF TypeOK
    <3>2. CASE CreateOrGet(h)
      BY <2>1, <3>1, <3>2 DEF CreateOrGet
    <3>3. CASE ResetForRetry(h)
      <4>1. \/ rows'[t] = rows[t]
            \/ rows'[t] = [rows[t] EXCEPT !.status = "READY", !.order = Len(orders')]
        BY <3>1, <3>3 DEF ResetForRetry
      <4> QED
        BY <3>1, <4>1 DEF Row
    <3>4. CASE MarkPaid(h)
      BY <2>1, <3>1, <3>4 DEF MarkPaid
    <3>5. CASE MarkFailed(h)
      BY <2>1, <3>1, <3>5 DEF MarkFailed
    <3>6. CASE SavePaymentKey(h)
      BY <2>1, <3>1, <3>6 DEF SavePaymentKey
    <3> QED
      BY <2>1, <2>2, <3>2, <3>3, <3>4, <3>5, <3>6
         DEF Continue, CheckOrder, CheckRows, TossDecides, TossRefuses, TossAlreadyProcessed,
             LookUp, GiveUp
  <2> QED
    BY <2>1, <2>2 DEF Next, vars, AcceptEstimate, WithdrawEstimate, CompleteMove,
       ReopenRequest, OrderRequest,
       ConfirmRequest, TossSettles, OpenWidget
<1>2. TypeOK /\ [Next]_vars => [KeepsPaidRecord]_rows
  BY <1>1 DEF KeepsPaidRecord
<1> QED
  BY <1>2, TypeCorrect, PTL DEF Spec, PaidRecordKept

(* The unique index never refuses the key of an approved payment.          *)
THEOREM KeysStayApart == Spec => []KeysApart
<1>1. MoneyInv => KeysApart
  <2> SUFFICES ASSUME MoneyInv, NEW h \in Handlers, At(h, "paid") \/ At(h, "save"),
                      NEW t \in Kinds \ {handler[h].kind}, rows[t].key = handler[h].key
               PROVE  FALSE
    BY DEF KeysApart, KeyElsewhere
  <2>1. /\ handler[h].key \in Keys
        /\ orders[toss[handler[h].key].order] = handler[h].kind
    BY DEF MoneyInv, HandlerInv, InConfirm, At, Matches, Issued
  <2>2. orders[toss[handler[h].key].order] = t
    BY <2>1, KeyAssumption DEF MoneyInv, RowInv, KeyOf
  <2> QED
    BY <2>1, <2>2
<1> QED
  BY <1>1, MoneyAlways, PTL

-----------------------------------------------------------------------------
(* Refinement of Settlement.                                               *)
Granted == {t \in Kinds : Confirming(t) # {}}
Awaiting == {t \in Kinds : WaitingKeys(t) # {}}
Charged == {t \in Kinds : DoneKeys(t) # {}}

Asking(h) == At(h, "check") \/ At(h, "toss")
SettlementStep == Charges!Next \/ UNCHANGED <<estimateVars, Granted, Awaiting, Charged>>

LEMMA SamePayments ==
  ASSUME MoneyInv, Grows, UNCHANGED toss
  PROVE  UNCHANGED <<Awaiting, Charged>>
<1>1. \A k \in Keys : toss[k].status \in {"WAITING", "DONE"} =>
        orders'[toss[k].order] = orders[toss[k].order]
  BY DEF MoneyInv, TossInv, Grows
<1>2. \A t : DoneKeys(t)' = DoneKeys(t) /\ WaitingKeys(t)' = WaitingKeys(t)
  BY <1>1 DEF DoneKeys, WaitingKeys
<1> QED
  BY <1>2 DEF Charged, Awaiting

(* One key of a payment t moves at Toss.                                   *)
LEMMA KeyMoves ==
  ASSUME TypeOK, UNCHANGED orders, NEW k \in Keys, NEW t \in Kinds,
         \A j \in Keys \ {k} : toss'[j] = toss[j],
         \/ toss[k].status = "NONE" /\ toss'[k].status = "IN_PROGRESS"
         \/ toss'[k].order = toss[k].order /\ orders[toss[k].order] = t,
         toss[k].status # "DONE"
  PROVE  /\ Charged' = IF toss'[k].status = "DONE" THEN Charged \cup {t} ELSE Charged
         /\ toss'[k].status = "WAITING" => Awaiting' = Awaiting \cup {t}
         /\ toss'[k].status # "WAITING" => Awaiting' \in {Awaiting, Awaiting \ {t}}
         /\ toss[k].status # "WAITING" /\ toss'[k].status # "WAITING"
              => Awaiting' = Awaiting
<1>1. \A u \in Kinds \ {t} : /\ DoneKeys(u)' = DoneKeys(u)
                            /\ WaitingKeys(u)' = WaitingKeys(u)
  <2>1. ASSUME NEW u \in Kinds \ {t}, NEW j \in Keys
        PROVE  /\ (j \in DoneKeys(u)') <=> j \in DoneKeys(u)
               /\ (j \in WaitingKeys(u)') <=> j \in WaitingKeys(u)
    BY DEF DoneKeys, WaitingKeys
  <2>2. ASSUME NEW u \in Kinds \ {t} PROVE DoneKeys(u)' = DoneKeys(u)
    BY <2>1 DEF DoneKeys
  <2>3. ASSUME NEW u \in Kinds \ {t} PROVE WaitingKeys(u)' = WaitingKeys(u)
    BY <2>1 DEF WaitingKeys
  <2> QED
    BY <2>2, <2>3
<1>2. DoneKeys(t)' = IF toss'[k].status = "DONE" THEN DoneKeys(t) \cup {k} ELSE DoneKeys(t)
  BY DEF DoneKeys
<1>3. /\ toss'[k].status = "WAITING" => WaitingKeys(t)' # {}
      /\ toss'[k].status # "WAITING" => WaitingKeys(t)' \subseteq WaitingKeys(t)
      /\ toss[k].status # "WAITING" /\ toss'[k].status # "WAITING"
           => WaitingKeys(t)' = WaitingKeys(t)
  BY DEF WaitingKeys
<1>4. Charged' = IF toss'[k].status = "DONE" THEN Charged \cup {t} ELSE Charged
  BY <1>1, <1>2 DEF Charged
<1> QED
  BY <1>1, <1>3, <1>4 DEF Awaiting

(* One handler moves, and begins no confirmation.                          *)
LEMMA HandlerMoves ==
  ASSUME NEW h \in Handlers, \A g \in Handlers \ {h} : handler'[g] = handler[g],
         Asking(h)' => Asking(h) /\ handler'[h].kind = handler[h].kind
  PROVE  /\ Granted' \in {Granted, Granted \ {handler[h].kind}}
         /\ ~Asking(h) => Granted' = Granted
<1>1. \A t \in Kinds : Confirming(t)' \subseteq Confirming(t)
  BY DEF Confirming, Asking, At
<1>2. \A t \in Kinds : t # handler[h].kind \/ ~Asking(h) => Confirming(t)' = Confirming(t)
  <2> SUFFICES ASSUME NEW t \in Kinds, t # handler[h].kind \/ ~Asking(h)
               PROVE  Confirming(t) \subseteq Confirming(t)'
    BY <1>1
  <2> QED
    BY DEF Confirming, Asking, At
<1> QED
  BY <1>1, <1>2 DEF Granted

(* A handler that begins no confirmation, and asks Toss for nothing.       *)
LEMMA NothingCharged ==
  ASSUME MoneyInv, Grows, NEW h \in Handlers, handler[h] # Idle,
         UNCHANGED <<estimateVars, toss>>,
         Reply(h) \/ \E pc \in Steps : GoTo(h, pc) /\ (pc = "toss" => Asking(h))
                                                 /\ pc # "check"
  PROVE  SettlementStep
<1>1. \A g \in Handlers \ {h} : handler'[g] = handler[g]
  BY DEF Reply, GoTo, MoneyInv, TypeOK
<1>2. Asking(h)' => Asking(h) /\ handler'[h].kind = handler[h].kind
  BY HandlerFields DEF Reply, GoTo, MoneyInv, TypeOK, Asking, At, Working
<1>3. handler[h].kind \in Kinds
  BY HandlerFields DEF MoneyInv
<1>4. UNCHANGED <<Awaiting, Charged>>
  BY SamePayments
<1>5. Granted' \in {Granted, Granted \ {handler[h].kind}}
  BY <1>1, <1>2, HandlerMoves
<1> QED
  BY <1>3, <1>4, <1>5 DEF SettlementStep, Charges!Next, Charges!EndWithoutCharge,
     Charges!Payments, Kinds, Granted, Awaiting, Charged, estimateVars

LEMMA EstimateChanges ==
  ASSUME MoneyInv, MoneyInv', Grows, EstimateStep
  PROVE  SettlementStep
<1>1. UNCHANGED <<handler, toss>>
  BY DEF EstimateStep, AcceptEstimate, WithdrawEstimate, CompleteMove, ReopenRequest
<1>2. UNCHANGED <<Awaiting, Charged>>
  BY <1>1, SamePayments
<1>3. Granted' = Granted
  BY <1>1 DEF Granted, Confirming, At
<1>4. accepted' \in BOOLEAN /\ completed' \in BOOLEAN
  BY DEF MoneyInv, TypeOK
<1> QED
  BY <1>2, <1>3, <1>4 DEF SettlementStep, Charges!Next, Charges!EstimateChanges,
     Granted, Awaiting, Charged

LEMMA ConfirmGrants ==
  ASSUME MoneyInv, Grows, NEW h \in Handlers, NEW t \in Kinds, NEW k \in Keys,
         NEW o \in 1 .. MaxOrders, NEW a \in Amounts, ConfirmRequest(h, k, o, a, t)
  PROVE  SettlementStep
<1>1. /\ UNCHANGED <<estimateVars, toss>> /\ Payable(t) /\ handler[h] = Idle
      /\ \A g \in Handlers \ {h} : handler'[g] = handler[g]
      /\ handler'[h] = [pc |-> "check", kind |-> t, order |-> o, key |-> k]
  BY DEF ConfirmRequest, MoneyInv, TypeOK
<1>2. UNCHANGED <<Awaiting, Charged>>
  BY <1>1, SamePayments
<1>3. handler'[h] # Idle
  <2>1. handler'[h].pc = "check" /\ Idle.pc = "idle"
    BY <1>1 DEF Idle
  <2> QED
    BY <2>1
<1>4. \A u \in Kinds : Confirming(u)' = IF u = t THEN Confirming(u) \cup {h}
                                                 ELSE Confirming(u)
  BY <1>1, <1>3 DEF Confirming, At
<1>5. Granted' = Granted \cup {t}
  BY <1>4 DEF Granted
<1>6. Charges!Due(t)
  BY <1>1 DEF Charges!Due, Payable
<1> QED
  BY <1>1, <1>2, <1>5, <1>6 DEF SettlementStep, Charges!Next, Charges!Grant,
     Charges!Payments, Kinds, Granted, Awaiting, Charged, estimateVars

LEMMA DecisionCharges ==
  ASSUME MoneyInv, MoneyInv', Grows, NEW h \in Handlers, TossDecides(h)
  PROVE  SettlementStep
<1> DEFINE k == handler[h].key
           t == handler[h].kind
<1>1. /\ k \in Keys /\ t \in Kinds /\ toss[k].status = "IN_PROGRESS" /\ Asking(h)
      /\ orders[toss[k].order] = t /\ OnDeposit(t)
  BY HandlerFields DEF TossDecides, At, Asking, MoneyInv, HandlerInv, InConfirm,
     Matches, Issued
<1>2. PICK verdict \in Verdicts :
        /\ toss' = [toss EXCEPT ![k].status = verdict]
        /\ GoTo(h, After(verdict)) \/ Reply(h)
        /\ UNCHANGED <<estimateVars, orders>>
  BY DEF TossDecides
<1>3. /\ toss'[k].status = verdict /\ toss'[k].order = toss[k].order
      /\ \A j \in Keys \ {k} : toss'[j] = toss[j]
  BY <1>1, <1>2 DEF MoneyInv, TypeOK, TossPayment
<1>4. /\ Charged' = IF verdict = "DONE" THEN Charged \cup {t} ELSE Charged
      /\ Awaiting' = IF verdict = "WAITING" THEN Awaiting \cup {t} ELSE Awaiting
  BY <1>1, <1>2, <1>3, KeyMoves DEF MoneyInv
<1>5. \A g \in Handlers \ {h} : handler'[g] = handler[g]
  BY <1>2 DEF Reply, GoTo, MoneyInv, TypeOK
<1>6. ~Asking(h)'
  BY <1>1, <1>2, HandlerFields DEF Reply, GoTo, MoneyInv, TypeOK, Asking, At, Working, After
<1>7. Granted' \in {Granted, Granted \ {t}}
  BY <1>5, <1>6, HandlerMoves
<1>8. t \in Granted
  BY <1>1 DEF Granted, Confirming, Asking
<1>9. t = "BALANCE" => "DEPOSIT" \in Charged
  BY <1>1 DEF OnDeposit, Charged, Kinds
<1> HIDE DEF k, t
<1>10. CASE verdict = "DONE"
  BY <1>1, <1>2, <1>4, <1>7, <1>8, <1>9, <1>10
     DEF SettlementStep, Charges!Next, Charges!Charge, Charges!OnTop, Charges!MayEnd,
         Charges!Payments, Kinds, Granted, Awaiting, Charged, estimateVars
<1>11. CASE verdict = "WAITING"
  BY <1>1, <1>2, <1>4, <1>7, <1>8, <1>9, <1>11
     DEF SettlementStep, Charges!Next, Charges!Wait, Charges!OnTop, Charges!MayEnd,
         Charges!Payments, Kinds, Granted, Awaiting, Charged, estimateVars
<1>12. CASE verdict \notin {"DONE", "WAITING"}
  BY <1>1, <1>2, <1>4, <1>7, <1>12
     DEF SettlementStep, Charges!Next, Charges!EndWithoutCharge,
         Charges!Payments, Kinds, Granted, Awaiting, Charged, estimateVars
<1> QED
  BY <1>10, <1>11, <1>12

LEMMA TossMovesAlone ==
  ASSUME MoneyInv, Grows, NEW k \in Keys,
         \/ TossSettles(k)
         \/ \E o \in 1 .. MaxOrders, a \in Amounts : OpenWidget(k, o, a)
  PROVE  SettlementStep
<1>1. /\ UNCHANGED <<estimateVars, orders, handler>>
      /\ \A j \in Keys \ {k} : toss'[j] = toss[j]
  BY DEF TossSettles, OpenWidget, MoneyInv, TypeOK
<1>2. Granted' = Granted
  BY <1>1 DEF Granted, Confirming, At
<1>3. CASE TossSettles(k)
  <2>1. PICK t : t = orders[toss[k].order]
    OBVIOUS
  <2>2. toss[k].status \in {"WAITING", "IN_PROGRESS"}
    BY <1>3 DEF TossSettles
  <2>3. t \in Kinds
    BY <2>1, <2>2 DEF MoneyInv, TossInv, TypeOK
  <2>4. /\ toss'[k].status \in {"DONE", "FINAL"} /\ toss'[k].order = toss[k].order
        /\ toss[k].status = "IN_PROGRESS" => toss'[k].status = "FINAL"
    BY <1>3 DEF TossSettles, MoneyInv, TypeOK, TossPayment
  <2>5. /\ Charged' \in {Charged, Charged \cup {t}}
        /\ Awaiting' \in {Awaiting, Awaiting \ {t}}
        /\ toss[k].status = "IN_PROGRESS" => Charged' = Charged /\ Awaiting' = Awaiting
    BY <1>1, <2>1, <2>2, <2>3, <2>4, KeyMoves DEF MoneyInv
  <2>6. toss[k].status = "WAITING" => t \in Awaiting
    BY <2>1, <2>3 DEF Awaiting, WaitingKeys
  <2> QED
    BY <1>1, <1>2, <2>2, <2>3, <2>5, <2>6
       DEF SettlementStep, Charges!Next, Charges!Settle,
           Charges!Payments, Kinds, Granted, Awaiting, Charged, estimateVars
<1>4. CASE \E o \in 1 .. MaxOrders, a \in Amounts : OpenWidget(k, o, a)
  <2>1. toss[k].status = "NONE" /\ toss'[k].status = "IN_PROGRESS"
    BY <1>4 DEF OpenWidget, MoneyInv, TypeOK
  <2>2. "DEPOSIT" \in Kinds
    BY DEF Kinds
  <2>3. UNCHANGED <<Awaiting, Charged>>
    BY <1>1, <2>1, <2>2, KeyMoves DEF MoneyInv
  <2> QED
    BY <1>1, <1>2, <2>3 DEF SettlementStep
<1> QED
  BY <1>3, <1>4

(* The money moves as Settlement allows: only what a confirmation under    *)
(* way found due, the balance only on top of a charged deposit, and a      *)
(* transfer only after it was taken: whenever an answer of the mover takes *)
(* the estimate back, or a late acceptance reopens its request.            *)
THEOREM SettlementImplemented == Spec => ImplementsSettlement
<1>1. Init => Charges!Init
  BY DEF Init, Charges!Init, DoneKeys, WaitingKeys, Confirming, At, Unopened
<1>2. MoneyInv /\ MoneyInv' /\ [Next]_vars => [Charges!Next]_(Charges!settlement)
  <2> SUFFICES ASSUME MoneyInv, MoneyInv', [Next]_vars PROVE SettlementStep
    BY DEF SettlementStep, Charges!settlement, Granted, Awaiting, Charged, estimateVars
  <2>1. Grows
    BY GrowsStep DEF MoneyInv
  <2>2. CASE UNCHANGED <<estimateVars, toss, handler>>
    <3>1. UNCHANGED <<Awaiting, Charged>>
      BY <2>1, <2>2, SamePayments
    <3>2. Granted' = Granted
      BY <2>2 DEF Granted, Confirming, At
    <3> QED
      BY <2>2, <3>1, <3>2 DEF SettlementStep
  <2>3. ASSUME NEW h \in Handlers, NEW t \in Kinds, OrderRequest(h, t)
        PROVE  SettlementStep
    <3>1. /\ UNCHANGED <<estimateVars, toss>> /\ handler[h] = Idle
          /\ \A g \in Handlers \ {h} : handler'[g] = handler[g]
          /\ handler'[h].pc = "order"
      BY <2>3 DEF OrderRequest, MoneyInv, TypeOK
    <3>2. ~Asking(h) /\ ~Asking(h)'
      BY <3>1 DEF Asking, At
    <3>3. Granted' = Granted
      BY <3>1, <3>2, HandlerMoves
    <3>4. UNCHANGED <<Awaiting, Charged>>
      BY <2>1, <3>1, SamePayments
    <3> QED
      BY <3>1, <3>3, <3>4 DEF SettlementStep
  <2>4. ASSUME NEW h \in Handlers, Continue(h) PROVE SettlementStep
    <3>1. CASE TossDecides(h)
      BY <2>1, <3>1, DecisionCharges
    <3>2. CASE CheckOrder(h) \/ CheckRows(h) \/ TossRefuses(h)
               \/ TossAlreadyProcessed(h) \/ LookUp(h)
      BY <2>1, <3>2, NothingCharged
         DEF CheckOrder, CheckRows, TossRefuses, TossAlreadyProcessed, LookUp,
             After, Steps, Asking, At
    <3>3. CASE CreateOrGet(h) \/ ResetForRetry(h) \/ MarkPaid(h) \/ MarkFailed(h)
               \/ SavePaymentKey(h) \/ GiveUp(h)
      BY <2>1, <3>3, NothingCharged
         DEF CreateOrGet, ResetForRetry, MarkPaid, MarkFailed, SavePaymentKey,
             GiveUp, At
    <3> QED
      BY <2>4, <3>1, <3>2, <3>3 DEF Continue
  <2> QED
    BY <2>1, <2>2, <2>3, <2>4, EstimateChanges, ConfirmGrants, TossMovesAlone
       DEF Next, vars, EstimateStep, estimateVars
<1> QED
  BY <1>1, <1>2, MoneyAlways, PTL DEF Spec, ImplementsSettlement, Charges!Spec
-----------------------------------------------------------------------------
(* Quote, for any handlers and any prices.                                 *)
OnlyPrices == price \in Nat /\ agreed \in Nat

LEMMA SharesOfPrice ==
  ASSUME OnlyPrices
  PROVE  /\ \A share \in Shares : ShareOf(share) \in Nat
         /\ ShareOf("DEPOSIT") + ShareOf("BALANCE") = price
         /\ ShareOf("DEPOSIT") > 0 => price >= 10
BY DEF OnlyPrices, ShareOf, Shares

LEMMA PricesAreNumbers ==
  ASSUME QuoteTypeOK
  PROVE  OnlyPrices
BY PricesAssumption DEF QuoteTypeOK, OnlyPrices, NoPrice

LEMMA KindsOfWork ==
  ASSUME QuoteTypeOK, NEW h \in Callers
  PROVE  /\ caller[h].pc \in {"payments", "create", "reset"} => caller[h] \in OrderWork
         /\ caller[h].pc \in {"check", "toss"} => caller[h] \in ConfirmWork
         /\ caller[h].pc = "propose" => caller[h].price \in Prices
BY DEF QuoteTypeOK, OrderWork, ConfirmWork, EstimateWork, Resting

LEMMA QuoteTypeStep ==
  ASSUME QuoteTypeOK, [QuoteNext]_quoteVars
  PROVE  QuoteTypeOK'
<1> USE DEF QuoteTypeOK
<1>1. \A w \in OrderWork :
        /\ [w EXCEPT !.pc = "create"] \in OrderWork
        /\ [w EXCEPT !.pc = "reset"] \in OrderWork
  BY DEF OrderWork
<1>2. \A w \in ConfirmWork : [w EXCEPT !.pc = "toss"] \in ConfirmWork
  BY DEF ConfirmWork
<1>3. ASSUME NEW h \in Callers,
             \/ ReadForProposal(h) \/ ReadForRejection(h) \/ ReadForAcceptance(h)
             \/ ReadForAnother(h) \/ ReadTargets(h)
      PROVE  QuoteTypeOK'
  BY <1>3 DEF ReadForProposal, ReadForRejection, ReadForAcceptance, ReadForAnother, ReadTargets,
     Begin, EstimateWork, Estimate
<1>4. ASSUME NEW h \in Callers,
             \/ WritePrice(h) \/ WriteRejection(h) \/ WriteAcceptance(h)
             \/ WriteAnother(h) \/ CloseTargets(h)
      PROVE  QuoteTypeOK'
  <2>1. caller' \in [Callers -> OrderWork \cup ConfirmWork \cup EstimateWork \cup {Resting}]
    BY <1>4 DEF WritePrice, WriteRejection, WriteAcceptance, WriteAnother, CloseTargets, Rest
  <2>2. WritePrice(h) => price' \in Prices /\ repriced' \in BOOLEAN
    BY KindsOfWork DEF WritePrice, Does
  <2> QED BY <1>4, <2>1, <2>2 DEF WritePrice, WriteRejection, WriteAcceptance, WriteAnother, CloseTargets
<1>5. ASSUME NEW h \in Callers, NEW share \in Shares,
             ReadForOrder(h, share) \/ ReadForConfirm(h, share)
      PROVE  QuoteTypeOK'
  <2>1. ShareOf(share) \in Nat
    BY PricesAreNumbers, SharesOfPrice
  <2> QED BY <1>5, <2>1 DEF ReadForOrder, ReadForConfirm, Begin, OrderWork, ConfirmWork, Estimate
<1>6. ASSUME NEW h \in Callers, ReadPayments(h) \/ CheckPayments(h)
      PROVE  QuoteTypeOK'
  <2>1. caller' \in [Callers -> OrderWork \cup ConfirmWork \cup EstimateWork \cup {Resting}]
    <3>1. CASE ReadPayments(h)
      <4>1. caller[h] \in OrderWork
        BY <3>1, KindsOfWork DEF ReadPayments, Does
      <4>2. Rest(h) \/ Proceed(h, "create") \/ Proceed(h, "reset")
        BY <3>1 DEF ReadPayments
      <4> QED BY <1>1, <4>1, <4>2 DEF Rest, Proceed
    <3>2. CASE CheckPayments(h)
      <4>1. caller[h] \in ConfirmWork
        BY <3>2, KindsOfWork DEF CheckPayments, Does
      <4> QED BY <1>2, <3>2, <4>1 DEF CheckPayments, Rest, Proceed
    <3> QED BY <1>6, <3>1, <3>2
  <2> QED BY <1>6, <2>1 DEF ReadPayments, CheckPayments, Estimate
<1>7. ASSUME NEW h \in Callers, CreateInvoice(h) \/ ReopenInvoice(h) \/ TossAnswers(h)
      PROVE  QuoteTypeOK'
  <2>1. CASE CreateInvoice(h)
    <3>1. caller[h].amount \in Nat
      BY <2>1, KindsOfWork DEF CreateInvoice, Does, OrderWork
    <3> QED BY <2>1, <3>1 DEF CreateInvoice, Rest, Estimate
  <2>2. CASE ReopenInvoice(h)
    BY <2>2 DEF ReopenInvoice, Rest, Estimate
  <2>3. CASE TossAnswers(h)
    <3>1. PICK verdict \in {"PAID", "FAILED"} :
            \/ invoice' = invoice
            \/ invoice' = [invoice EXCEPT ![caller[h].share].status = verdict]
      BY <2>3 DEF TossAnswers
    <3>2. invoice' \in [Shares -> [status : {"NONE", "READY", "PAID", "FAILED"}, amount : Nat]]
      BY <3>1
    <3> QED BY <2>3, <3>2 DEF TossAnswers, Rest, Estimate
  <2> QED BY <1>7, <2>1, <2>2, <2>3
<1>8. ASSUME NEW h \in Callers, Stop(h)
      PROVE  QuoteTypeOK'
  BY <1>8 DEF Stop, Rest, Estimate
<1>9. CASE MoveDayPasses
  BY <1>9 DEF MoveDayPasses
<1>10. CASE UNCHANGED quoteVars
  BY <1>10 DEF quoteVars
<1> QED BY <1>3, <1>4, <1>5, <1>6, <1>7, <1>8, <1>9, <1>10 DEF QuoteNext

(* What makes the shares add up.  While no price is written over a deposit *)
(* that was asked for: what a handler carries and what a row holds is the  *)
(* share of the present price, which is the accepted one as soon as a      *)
(* deposit was ordered; and a balance is ordered on top of a deposit only. *)
Ordered(share) == invoice[share].status # "NONE"
Carries(h, share) == caller[h] \in OrderWork /\ caller[h].share = share

RowsHaveAmounts == \A share \in Shares : ~Ordered(share) => invoice[share] = NoInvoice
DepositFirst ==
  /\ Ordered("BALANCE") => Ordered("DEPOSIT")
  /\ \A h \in Callers : Carries(h, "BALANCE") /\ caller[h].pc # "payments" => Ordered("DEPOSIT")
OnARow(h) == caller[h].pc \in {"reset", "check", "toss"}
WorksOnRows == \A h \in Callers : OnARow(h) => Ordered(caller[h].share)
AcceptedAsPriced == offer = "ACCEPTED" => agreed = price
SharesArePresent ==
  ~repriced =>
    /\ \A share \in Shares : Ordered(share) =>
         invoice[share].amount = ShareOf(share) /\ ShareOf(share) > 0
    /\ \A h \in Callers, share \in Shares : Carries(h, share) =>
         caller[h].amount = ShareOf(share) /\ ShareOf(share) > 0
DepositIsAccepted ==
  ~repriced =>
    /\ Ordered("DEPOSIT") => agreed = price
    /\ \A h \in Callers : Carries(h, "DEPOSIT") => agreed = price

QuoteInv ==
  /\ QuoteTypeOK
  /\ RowsHaveAmounts /\ DepositFirst /\ WorksOnRows /\ AcceptedAsPriced
  /\ SharesArePresent /\ DepositIsAccepted

LEMMA SharesAddUp ==
  ASSUME QuoteInv
  PROVE  PaidAddsUp /\ SmallPricesStayUnpaid
<1>1. /\ ShareOf("DEPOSIT") + ShareOf("BALANCE") = price
      /\ ShareOf("DEPOSIT") > 0 => price >= 10
      /\ price \in Nat /\ agreed \in Nat
  BY PricesAreNumbers, SharesOfPrice DEF QuoteInv, OnlyPrices
<1>2. \A share \in Shares : invoice[share] # NoInvoice <=> Ordered(share)
  BY DEF QuoteInv, RowsHaveAmounts, Ordered, NoInvoice
<1>3. Ordered("BALANCE") => Ordered("DEPOSIT")
  BY DEF QuoteInv, DepositFirst
<1>4. ~repriced /\ Ordered("DEPOSIT") =>
        agreed = price /\ invoice["DEPOSIT"].amount = ShareOf("DEPOSIT") /\ ShareOf("DEPOSIT") > 0
  BY DEF QuoteInv, SharesArePresent, DepositIsAccepted, Shares
<1>5. ~repriced /\ Ordered("BALANCE") => invoice["BALANCE"].amount = ShareOf("BALANCE")
  BY DEF QuoteInv, SharesArePresent, Shares
<1>6. PaidAddsUp
  BY <1>1, <1>2, <1>4, <1>5 DEF PaidAddsUp, Shares
<1>7. SmallPricesStayUnpaid
  <2>1. ~repriced /\ agreed < 10 => ~Ordered("DEPOSIT")
    BY <1>1, <1>4
  <2> QED BY <1>2, <1>3, <2>1 DEF SmallPricesStayUnpaid, Shares
<1> QED BY <1>6, <1>7

(* A step that leaves the price and the rows alone, and in which no        *)
(* handler takes up an order.                                              *)
LEMMA QuietStep ==
  ASSUME QuoteInv, QuoteTypeOK', UNCHANGED <<price, invoice, agreed, repriced>>,
         offer' = "ACCEPTED" => offer = "ACCEPTED",
         \A h \in Callers : \/ caller'[h] = caller[h]
                            \/ /\ caller'[h] \notin OrderWork
                               /\ OnARow(h)' => Ordered(caller'[h].share)
  PROVE  QuoteInv'
<1>1. \A share \in Shares : Ordered(share)' = Ordered(share) /\ ShareOf(share)' = ShareOf(share)
  BY DEF Ordered, ShareOf
<1>2. \A h \in Callers, share \in Shares : Carries(h, share)' => Carries(h, share) /\ caller'[h] = caller[h]
  BY DEF Carries
<1>3. RowsHaveAmounts' /\ DepositFirst' /\ AcceptedAsPriced'
  BY <1>1, <1>2 DEF QuoteInv, RowsHaveAmounts, DepositFirst, AcceptedAsPriced, Shares
<1>5. WorksOnRows'
  BY DEF QuoteInv, WorksOnRows, OnARow, Ordered
<1>4. SharesArePresent' /\ DepositIsAccepted'
  BY <1>1, <1>2 DEF QuoteInv, SharesArePresent, DepositIsAccepted, Shares
<1> QED BY <1>3, <1>4, <1>5 DEF QuoteInv

LEMMA QuoteStep ==
  ASSUME QuoteInv, [QuoteNext]_quoteVars
  PROVE  QuoteInv'
<1>a. QuoteTypeOK /\ QuoteTypeOK'
  BY QuoteTypeStep DEF QuoteInv
<1>b. \A share \in Shares : share = "DEPOSIT" \/ share = "BALANCE"
  BY DEF Shares
<1>c. \A w \in EstimateWork \cup ConfirmWork \cup {Resting} : w \notin OrderWork
  BY DEF EstimateWork, ConfirmWork, OrderWork, Resting
<1>d. \A w \in EstimateWork \cup {Resting} :
        w \notin OrderWork /\ w.pc \notin {"reset", "check", "toss"}
  BY DEF EstimateWork, OrderWork, Resting
<1>e. ASSUME NEW h \in Callers, Rest(h)
      PROVE  \A g \in Callers : caller'[g] = caller[g] \/ caller'[g] = Resting
  BY <1>a, <1>e DEF Rest, QuoteTypeOK
<1>f. ASSUME NEW h \in Callers, Rest(h), \A share \in Shares : Ordered(share) => Ordered(share)'
      PROVE  WorksOnRows' /\ \A g \in Callers : caller'[g] \in OrderWork => caller'[g] = caller[g]
  <2>1. ASSUME NEW g \in Callers, OnARow(g)'
        PROVE  Ordered(caller[g].share)'
    <3>1. caller'[g] = caller[g]
      BY <1>d, <1>e, <1>f, <2>1 DEF OnARow
    <3>2. OnARow(g)
      BY <2>1, <3>1 DEF OnARow
    <3>3. caller[g].share \in Shares
      BY <1>a, <3>2, KindsOfWork DEF OnARow, OrderWork, ConfirmWork
    <3>4. Ordered(caller[g].share)
      BY <3>2 DEF QuoteInv, WorksOnRows
    <3> QED BY <1>f, <3>1, <3>3, <3>4 DEF Ordered
  <2> QED BY <1>d, <1>e, <1>f, <2>1 DEF WorksOnRows
<1>1. ASSUME NEW h \in Callers,
             \/ ReadForProposal(h) \/ ReadForRejection(h) \/ ReadForAcceptance(h)
             \/ ReadForAnother(h) \/ ReadTargets(h)
             \/ WriteRejection(h) \/ WriteAnother(h) \/ CloseTargets(h) \/ Stop(h)
      PROVE  QuoteInv'
  <2>1. \A g \in Callers : \/ caller'[g] = caller[g]
                           \/ caller'[g] \notin OrderWork /\ ~OnARow(g)'
    BY <1>a, <1>d, <1>1 DEF OnARow, ReadForProposal, ReadForRejection, ReadForAcceptance, ReadForAnother,
       ReadTargets, WriteRejection, WriteAnother, CloseTargets, Stop, Begin, Rest, EstimateWork, QuoteTypeOK
  <2> QED BY <1>a, <1>1, <2>1, QuietStep DEF ReadForProposal, ReadForRejection,
         ReadForAcceptance, ReadForAnother, ReadTargets, WriteRejection, WriteAnother, CloseTargets,
         Stop, Estimate
<1>2. ASSUME NEW h \in Callers, WritePrice(h)
      PROVE  QuoteInv'
  <2>1. \A g \in Callers : caller'[g] \in OrderWork => caller'[g] = caller[g]
    BY <1>2, <1>f DEF WritePrice, Ordered
  <2>2. RowsHaveAmounts' /\ DepositFirst' /\ WorksOnRows'
    <3>1. WorksOnRows'
      BY <1>2, <1>f DEF WritePrice, Ordered
    <3> QED BY <1>2, <2>1, <3>1 DEF QuoteInv, RowsHaveAmounts, DepositFirst, Ordered, Carries, WritePrice
  <2>3. AcceptedAsPriced'
    BY <1>2 DEF AcceptedAsPriced, WritePrice
  <2>4. ~repriced' =>
          /\ \A share \in Shares : ~Ordered(share)'
          /\ \A g \in Callers, share \in Shares : ~Carries(g, share)'
    <3>1. ~repriced' => ~DepositAskedFor
      BY <1>2 DEF WritePrice
    <3>2. ~DepositAskedFor => ~Ordered("DEPOSIT")
      BY DEF DepositAskedFor, Ordered, NoInvoice
    <3>3. ~Ordered("DEPOSIT") => ~Ordered("BALANCE")
      BY DEF QuoteInv, DepositFirst
    <3>4. \A share \in Shares : Ordered(share)' = Ordered(share)
      BY <1>2 DEF WritePrice, Ordered
    <3>5. ~DepositAskedFor => \A g \in Callers : caller'[g] \notin OrderWork
      BY <2>1 DEF DepositAskedFor
    <3> QED BY <1>b, <3>1, <3>2, <3>3, <3>4, <3>5 DEF Carries
  <2>5. SharesArePresent' /\ DepositIsAccepted'
    BY <2>4 DEF SharesArePresent, DepositIsAccepted, Shares
  <2> QED BY <1>a, <2>2, <2>3, <2>5 DEF QuoteInv
<1>3. ASSUME NEW h \in Callers, WriteAcceptance(h)
      PROVE  QuoteInv'
  <2>1. \A g \in Callers : caller'[g] \in OrderWork => caller'[g] = caller[g]
    BY <1>3, <1>f DEF WriteAcceptance, Ordered
  <2>2. /\ \A share \in Shares : Ordered(share)' = Ordered(share) /\ ShareOf(share)' = ShareOf(share)
        /\ \A g \in Callers, share \in Shares : Carries(g, share)' => Carries(g, share) /\ caller'[g] = caller[g]
    BY <1>3, <2>1 DEF WriteAcceptance, Ordered, ShareOf, Carries
  <2>3. RowsHaveAmounts' /\ DepositFirst' /\ WorksOnRows' /\ SharesArePresent'
    <3>1. WorksOnRows'
      BY <1>3, <1>f DEF WriteAcceptance, Ordered
    <3>2. RowsHaveAmounts' /\ DepositFirst'
      BY <1>3, <2>1, <2>2 DEF QuoteInv, RowsHaveAmounts, DepositFirst, WriteAcceptance, Shares
    <3>3. SharesArePresent'
      BY <1>3, <2>2 DEF QuoteInv, SharesArePresent, WriteAcceptance
    <3> QED BY <3>1, <3>2, <3>3
  <2>4. agreed' = price'
    BY <1>3 DEF WriteAcceptance
  <2> QED BY <1>a, <2>3, <2>4 DEF QuoteInv, AcceptedAsPriced, DepositIsAccepted
<1>4. CASE MoveDayPasses
  BY <1>a, <1>4, QuietStep DEF MoveDayPasses
<1>5. ASSUME NEW h \in Callers, NEW share \in Shares, ReadForConfirm(h, share)
      PROVE  QuoteInv'
  <2>1. Ordered(share)
    BY <1>5 DEF ReadForConfirm, Ordered
  <2>2. \A g \in Callers : \/ caller'[g] = caller[g]
                           \/ caller'[g] \notin OrderWork /\ caller'[g].share = share
    BY <1>a, <1>c, <1>5 DEF ReadForConfirm, Begin, ConfirmWork, QuoteTypeOK
  <2> QED BY <1>a, <1>5, <2>1, <2>2, QuietStep DEF ReadForConfirm, Estimate
<1>6. ASSUME NEW h \in Callers, CheckPayments(h)
      PROVE  QuoteInv'
  <2>1. caller[h] \in ConfirmWork
    BY <1>a, <1>6, KindsOfWork DEF CheckPayments, Does
  <2>2. [caller[h] EXCEPT !.pc = "toss"] \in ConfirmWork
    BY <2>1 DEF ConfirmWork
  <2>3. Ordered(caller[h].share)
    BY <1>6 DEF CheckPayments, Does, QuoteInv, WorksOnRows, OnARow
  <2>4. \A g \in Callers : \/ caller'[g] = caller[g]
                           \/ caller'[g] \notin OrderWork /\ OnARow(g)' => Ordered(caller'[g].share)
    <3>1. CASE Rest(h)
      BY <1>d, <1>e, <3>1 DEF OnARow
    <3>2. CASE Proceed(h, "toss")
      <4>1. caller'[h] = [caller[h] EXCEPT !.pc = "toss"] /\ \A g \in Callers \ {h} : caller'[g] = caller[g]
        BY <1>a, <3>2 DEF Proceed, QuoteTypeOK
      <4>2. caller'[h].share = caller[h].share
        BY <2>1, <4>1 DEF ConfirmWork
      <4> QED BY <1>c, <2>2, <2>3, <4>1, <4>2
    <3> QED BY <1>6, <3>1, <3>2 DEF CheckPayments
  <2>5. \A g \in Callers : caller'[g] = caller[g] \/ caller'[g] \notin OrderWork
    <3>1. CASE Rest(h)
      BY <1>d, <1>e, <3>1
    <3>2. CASE Proceed(h, "toss")
      BY <1>a, <1>c, <2>2, <3>2 DEF Proceed, QuoteTypeOK
    <3> QED BY <1>6, <3>1, <3>2 DEF CheckPayments
  <2> QED BY <1>a, <1>6, <2>4, <2>5, QuietStep DEF CheckPayments, Estimate
(* A step that leaves the estimate alone: what was carried or ordered is   *)
(* so already, or is of the present price.                                 *)
<1>7. ASSUME UNCHANGED <<Estimate, agreed, repriced>>, RowsHaveAmounts', DepositFirst', WorksOnRows',
             ~repriced =>
               /\ \A share \in Shares : Ordered(share)' =>
                    /\ invoice'[share].amount = ShareOf(share) /\ ShareOf(share) > 0
                    /\ share = "DEPOSIT" => agreed = price
               /\ \A g \in Callers, share \in Shares : Carries(g, share)' =>
                    /\ caller'[g].amount = ShareOf(share) /\ ShareOf(share) > 0
                    /\ share = "DEPOSIT" => agreed = price
      PROVE  QuoteInv'
  <2>1. \A share \in Shares : ShareOf(share)' = ShareOf(share)
    BY <1>7 DEF Estimate, ShareOf
  <2>2. AcceptedAsPriced'
    BY <1>7 DEF QuoteInv, AcceptedAsPriced, Estimate
  <2>3. SharesArePresent' /\ DepositIsAccepted'
    BY <1>7, <2>1 DEF SharesArePresent, DepositIsAccepted, Shares, Estimate
  <2> QED BY <1>a, <1>7, <2>2, <2>3 DEF QuoteInv
<1>8. ~repriced =>
        /\ \A share \in Shares : Ordered(share) =>
             /\ invoice[share].amount = ShareOf(share) /\ ShareOf(share) > 0
             /\ share = "DEPOSIT" => agreed = price
        /\ \A g \in Callers, share \in Shares : Carries(g, share) =>
             /\ caller[g].amount = ShareOf(share) /\ ShareOf(share) > 0
             /\ share = "DEPOSIT" => agreed = price
  BY DEF QuoteInv, SharesArePresent, DepositIsAccepted
<1>9. ASSUME NEW h \in Callers, NEW share \in Shares, ReadForOrder(h, share)
      PROVE  QuoteInv'
  <2>1. caller' = [caller EXCEPT ![h] = [pc |-> "payments", share |-> share, amount |-> ShareOf(share)]]
    BY <1>9 DEF ReadForOrder, Begin
  <2>2. UNCHANGED <<Estimate, invoice, agreed, repriced>>
    BY <1>9 DEF ReadForOrder
  <2>3. \A s \in Shares : Ordered(s)' = Ordered(s)
    BY <2>2 DEF Ordered
  <2>4. caller'[h].pc = "payments" /\ caller'[h].share = share /\ caller'[h].amount = ShareOf(share)
    BY <1>a, <2>1 DEF QuoteTypeOK
  <2>5. \A g \in Callers \ {h} : caller'[g] = caller[g]
    BY <1>a, <2>1 DEF QuoteTypeOK
  <2>6. \A g \in Callers, s \in Shares : Carries(g, s)' => (g = h /\ s = share) \/ (g # h /\ Carries(g, s))
    BY <2>4, <2>5 DEF Carries
  <2>7. ShareOf(share) > 0 /\ (share = "DEPOSIT" => agreed = price)
    BY <1>9 DEF ReadForOrder, Orderable, Due, QuoteInv, AcceptedAsPriced
  <2>8. RowsHaveAmounts'
    BY <2>2, <2>3 DEF QuoteInv, RowsHaveAmounts
  <2>9. DepositFirst' /\ WorksOnRows'
    <3>1. DepositFirst'
      BY <2>3, <2>4, <2>5, <2>6 DEF QuoteInv, DepositFirst, Shares
    <3>2. WorksOnRows'
      BY <2>2, <2>4, <2>5 DEF QuoteInv, WorksOnRows, OnARow, Ordered
    <3> QED BY <3>1, <3>2
  <2>10. ~repriced => \A g \in Callers, s \in Shares : Carries(g, s)' =>
             /\ caller'[g].amount = ShareOf(s) /\ ShareOf(s) > 0
             /\ s = "DEPOSIT" => agreed = price
    BY <1>8, <2>4, <2>5, <2>6, <2>7
  <2>11. ~repriced => \A s \in Shares : Ordered(s)' =>
             /\ invoice'[s].amount = ShareOf(s) /\ ShareOf(s) > 0
             /\ s = "DEPOSIT" => agreed = price
    BY <1>8, <2>2, <2>3
  <2> QED BY <1>7, <2>2, <2>8, <2>9, <2>10, <2>11
<1>10. ASSUME NEW h \in Callers, ReadPayments(h)
      PROVE  QuoteInv'
  <2>1. caller[h] \in OrderWork
    BY <1>a, <1>10, KindsOfWork DEF ReadPayments, Does
  <2>2. UNCHANGED <<Estimate, invoice, agreed, repriced>>
    BY <1>10 DEF ReadPayments
  <2>3. \A s \in Shares : Ordered(s)' = Ordered(s)
    BY <2>2 DEF Ordered
  <2>4. \/ Rest(h)
        \/ Proceed(h, "create") /\ Unpaid(caller[h].share)
        \/ Proceed(h, "reset") /\ Unpaid(caller[h].share) /\ Ordered(caller[h].share)
    BY <1>10 DEF ReadPayments, Ordered
  <2>5. \A g \in Callers \ {h} : caller'[g] = caller[g]
    BY <1>a, <2>4 DEF QuoteTypeOK, Rest, Proceed
  <2>6. caller'[h] \in OrderWork =>
          /\ caller'[h].share = caller[h].share /\ caller'[h].amount = caller[h].amount
          /\ caller[h].share = "BALANCE" => Ordered("DEPOSIT")
    <3>1. CASE Rest(h)
      BY <1>a, <1>c, <3>1 DEF Rest, QuoteTypeOK
    <3>2. CASE (Proceed(h, "create") \/ Proceed(h, "reset")) /\ Unpaid(caller[h].share)
      BY <1>a, <2>1, <3>2 DEF Proceed, Unpaid, Ordered, QuoteTypeOK, OrderWork
    <3> QED BY <2>4, <3>1, <3>2
  <2>7. \A g \in Callers, s \in Shares : Carries(g, s)' => Carries(g, s) /\ caller'[g].amount = caller[g].amount
    BY <2>1, <2>5, <2>6 DEF Carries
  <2>8. RowsHaveAmounts'
    BY <2>2, <2>3 DEF QuoteInv, RowsHaveAmounts
  <2>9. DepositFirst' /\ WorksOnRows'
    <3>1. DepositFirst'
      BY <2>3, <2>5, <2>6 DEF QuoteInv, DepositFirst, Shares, Carries
    <3>a. ASSUME Rest(h)
          PROVE  WorksOnRows'
      <4>1. \A s \in Shares : Ordered(s) => Ordered(s)'
        BY <2>3
      <4> QED BY <1>f, <3>a, <4>1
    <3>b. ASSUME NEW pc \in {"create", "reset"}, Proceed(h, pc)
          PROVE  caller'[h].pc = pc /\ caller'[h].share = caller[h].share
      BY <1>a, <2>1, <3>b DEF Proceed, QuoteTypeOK, OrderWork
    <3>c. ASSUME ~Rest(h)
          PROVE  WorksOnRows'
      <4>1. caller'[h].pc = "create" \/ (/\ caller'[h].pc = "reset" /\ Ordered(caller[h].share)
                                       /\ caller'[h].share = caller[h].share)
        BY <2>4, <3>b, <3>c
      <4>2. invoice' = invoice
        BY <2>2
      <4>3. ASSUME NEW g \in Callers, OnARow(g)'
            PROVE  Ordered(caller[g].share)' /\ caller'[g].share = caller[g].share
        BY <2>5, <4>1, <4>2, <4>3 DEF QuoteInv, WorksOnRows, OnARow, Ordered
      <4> QED BY <4>3 DEF WorksOnRows, Ordered
    <3>4. WorksOnRows'
      BY <3>a, <3>c
    <3> QED BY <3>1, <3>4
  <2>10. ~repriced => \A g \in Callers, s \in Shares : Carries(g, s)' =>
             /\ caller'[g].amount = ShareOf(s) /\ ShareOf(s) > 0
             /\ s = "DEPOSIT" => agreed = price
    BY <1>8, <2>7
  <2>11. ~repriced => \A s \in Shares : Ordered(s)' =>
             /\ invoice'[s].amount = ShareOf(s) /\ ShareOf(s) > 0
             /\ s = "DEPOSIT" => agreed = price
    BY <1>8, <2>2, <2>3
  <2> QED BY <1>7, <2>2, <2>8, <2>9, <2>10, <2>11
<1>11. ASSUME NEW h \in Callers, CreateInvoice(h) \/ ReopenInvoice(h) \/ TossAnswers(h)
      PROVE  QuoteInv'
  <2>1. UNCHANGED <<Estimate, agreed, repriced>> /\ Rest(h)
    BY <1>11 DEF CreateInvoice, ReopenInvoice, TossAnswers
  <2>2. \A g \in Callers : caller'[g] \in OrderWork => caller'[g] = caller[g]
    BY <1>d, <1>e, <2>1
  <2>3. \A g \in Callers, s \in Shares : Carries(g, s)' => Carries(g, s) /\ caller'[g] = caller[g]
    BY <2>2 DEF Carries
(* A row keeps its amount, or is made by a handler with what it carries.   *)
  <2>4. \A s \in Shares :
          /\ Ordered(s) => Ordered(s)' /\ invoice'[s].amount = invoice[s].amount
          /\ ~Ordered(s) => invoice'[s] = invoice[s] \/ (Carries(h, s) /\ caller[h].pc # "payments"
                                         /\ Ordered(s)' /\ invoice'[s].amount = caller[h].amount)
    <3>1. CASE CreateInvoice(h)
      <4>1. caller[h] \in OrderWork /\ caller[h].pc = "create"
        BY <1>a, <3>1, KindsOfWork DEF CreateInvoice, Does
      <4> QED BY <1>a, <3>1, <4>1 DEF CreateInvoice, Ordered, Carries, QuoteTypeOK, OrderWork
    <3>2. CASE ReopenInvoice(h)
      <4>1. caller[h] \in OrderWork /\ caller[h].pc = "reset"
        BY <1>a, <3>2, KindsOfWork DEF ReopenInvoice, Does
      <4>2. Ordered(caller[h].share)
        BY <4>1 DEF QuoteInv, WorksOnRows, OnARow
      <4> QED BY <1>a, <3>2, <4>1, <4>2 DEF ReopenInvoice, Ordered, Carries, QuoteTypeOK, OrderWork
    <3>3. CASE TossAnswers(h)
      <4>1. caller[h].share \in Shares
        BY <1>a, <3>3, KindsOfWork DEF TossAnswers, Does, ConfirmWork
      <4>2. Ordered(caller[h].share)
        BY <3>3 DEF TossAnswers, Does, QuoteInv, WorksOnRows, OnARow
      <4> QED BY <1>a, <3>3, <4>1, <4>2 DEF TossAnswers, Ordered, QuoteTypeOK
    <3> QED BY <1>11, <3>1, <3>2, <3>3
  <2>5. RowsHaveAmounts'
    BY <2>4 DEF QuoteInv, RowsHaveAmounts, Ordered, NoInvoice
  <2>6. DepositFirst' /\ WorksOnRows'
    <3>1. \A s \in Shares : Ordered(s) => Ordered(s)'
      BY <2>4
    <3>2. WorksOnRows'
      BY <1>f, <2>1, <3>1
    <3> QED BY <2>3, <2>4, <3>1, <3>2 DEF QuoteInv, DepositFirst, Shares, Ordered
  <2>7. ~repriced => \A g \in Callers, s \in Shares : Carries(g, s)' =>
             /\ caller'[g].amount = ShareOf(s) /\ ShareOf(s) > 0
             /\ s = "DEPOSIT" => agreed = price
    BY <1>8, <2>3
  <2>8. ~repriced => \A s \in Shares : Ordered(s)' =>
             /\ invoice'[s].amount = ShareOf(s) /\ ShareOf(s) > 0
             /\ s = "DEPOSIT" => agreed = price
    BY <1>8, <2>4 DEF Ordered
  <2> QED BY <1>7, <2>1, <2>5, <2>6, <2>7, <2>8
<1>12. CASE UNCHANGED quoteVars
  BY <1>a, <1>12, QuietStep DEF quoteVars
<1> QED BY <1>1, <1>2, <1>3, <1>4, <1>5, <1>6, <1>9, <1>10, <1>11, <1>12 DEF QuoteNext

LEMMA QuoteInitially == QuoteInit => QuoteInv
<1> SUFFICES ASSUME QuoteInit
             PROVE  QuoteInv
  OBVIOUS
<1>1. QuoteTypeOK
  BY DEF QuoteInit, QuoteTypeOK, NoInvoice
<1>2. \A h \in Callers : caller[h] \notin OrderWork /\ ~OnARow(h)
  BY DEF QuoteInit, OrderWork, OnARow, Resting
<1>3. \A share \in Shares : ~Ordered(share) /\ invoice[share] = NoInvoice
  BY DEF QuoteInit, Ordered, NoInvoice
<1>4. ~Ordered("DEPOSIT") /\ ~Ordered("BALANCE")
  BY <1>3 DEF Shares
<1>5. RowsHaveAmounts /\ DepositFirst /\ WorksOnRows /\ AcceptedAsPriced
  BY <1>2, <1>3, <1>4 DEF RowsHaveAmounts, DepositFirst, WorksOnRows, Carries, AcceptedAsPriced, QuoteInit
<1>6. SharesArePresent /\ DepositIsAccepted
  BY <1>2, <1>3, <1>4 DEF SharesArePresent, DepositIsAccepted, Carries
<1> QED BY <1>1, <1>5, <1>6 DEF QuoteInv

LEMMA QuoteAlways == QuoteSpec => []QuoteInv
<1>1. QuoteInv /\ [QuoteNext]_quoteVars => QuoteInv'
  BY QuoteStep
<1> QED BY QuoteInitially, <1>1, PTL DEF QuoteSpec

(* For any prices and handlers, deposit and balance add up to the accepted *)
(* price, unless a price is written when a deposit was asked for.          *)
THEOREM SharesAddUpToPrice == QuoteSpec => []PaidAddsUp
<1>1. QuoteInv => PaidAddsUp
  BY SharesAddUp
<1> QED BY QuoteAlways, <1>1, PTL

(* Whatever overlaps, no payment row is made for an estimate accepted at a *)
(* price below ten, under the same proviso.                                *)
THEOREM SmallPricesAreNeverPaid == QuoteSpec => []SmallPricesStayUnpaid
<1>1. QuoteInv => SmallPricesStayUnpaid
  BY SharesAddUp
<1> QED BY QuoteAlways, <1>1, PTL
=============================================================================
