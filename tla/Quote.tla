-------------------------------- MODULE Quote --------------------------------
(***************************************************************************)
(* The price of one estimate on its way from the mover to the two payment  *)
(* rows.  Matching knows only whether an estimate has a price, Payment has *)
(* one price for good; here the handlers of both meet: a proposal writes   *)
(* the price by id, an acceptance does not look at it, and createOrder     *)
(* copies a share of what it read into a row that keeps it.                *)
(*                                                                         *)
(* Each handler reads and later writes, and may stop in between.  Toss     *)
(* approves, refuses or does not answer; order ids and keys are Payment's. *)
(*                                                                         *)
(* agreed and repriced are history: no guard reads them.                   *)
(* RoundedShare and AnyAmount are plausible bugs; nothing uses them.       *)
(***************************************************************************)
EXTENDS Integers

CONSTANTS
  Callers,    \* HTTP handlers and batches in flight at once
  Prices      \* proposeEstimateSchema: any positive integer

ASSUME PricesAssumption == Prices \subseteq Nat \ {0}

VARIABLES
  price,      \* Estimate.price, 0 for null
  offer,      \* Estimate.status
  request,    \* EstimateRequest.status
  dayIsOver,  \* EstimateRequest.moveDate is past
  invoice,    \* the payment row of each share
  caller,     \* what each handler is about to do
  agreed,     \* the price when the estimate was last accepted
  repriced    \* a price was written when a deposit had been asked for

quoteVars == <<price, offer, request, dayIsOver, invoice, caller, agreed, repriced>>

Shares == {"DEPOSIT", "BALANCE"}
NoPrice == 0
NoInvoice == [status |-> "NONE", amount |-> 0]
Resting == [pc |-> "resting"]

OrderWork == [pc : {"payments", "create", "reset"}, share : Shares, amount : Nat]
ConfirmWork == [pc : {"check", "toss"}, share : Shares]
EstimateWork == [pc : {"propose"}, price : Prices] \cup
                [pc : {"reject", "accept", "other", "expire", "complete"}]

QuoteTypeOK ==
  /\ price \in Prices \cup {NoPrice} /\ agreed \in Prices \cup {NoPrice}
  /\ offer \in {"DESIGNATED", "PROPOSED", "REJECTED", "ACCEPTED", "NOT_SELECTED", "EXPIRED"}
  /\ request \in {"PENDING", "CONFIRMED", "COMPLETED", "EXPIRED"}
  /\ invoice \in [Shares -> [status : {"NONE", "READY", "PAID", "FAILED"}, amount : Nat]]
  /\ caller \in [Callers -> OrderWork \cup ConfirmWork \cup EstimateWork \cup {Resting}]
  /\ repriced \in BOOLEAN /\ dayIsOver \in BOOLEAN

(* A general estimate is created with its price, a designated one without. *)
QuoteInit ==
  /\ \/ price \in Prices /\ offer = "PROPOSED"
     \/ price = NoPrice /\ offer = "DESIGNATED"
  /\ request = "PENDING" /\ dayIsOver = FALSE
  /\ invoice = [s \in Shares |-> NoInvoice]
  /\ caller = [h \in Callers |-> Resting]
  /\ agreed = NoPrice /\ repriced = FALSE

Does(h, pc) == caller[h].pc = pc
Begin(h, work) == caller[h] = Resting /\ caller' = [caller EXCEPT ![h] = work]
Proceed(h, pc) == caller' = [caller EXCEPT ![h].pc = pc]
Rest(h) == caller' = [caller EXCEPT ![h] = Resting]

Estimate == <<price, offer, request, dayIsOver>>

-----------------------------------------------------------------------------
(* updateEstimateStatus: what is read decides, what is written is by id.   *)
Answerable == request = "PENDING" /\ ~dayIsOver

ReadForProposal(h) ==
  /\ offer = "DESIGNATED" /\ Answerable
  /\ \E p \in Prices : Begin(h, [pc |-> "propose", price |-> p])
  /\ UNCHANGED <<Estimate, invoice, agreed, repriced>>

ReadForRejection(h) ==
  /\ offer = "DESIGNATED" /\ Answerable
  /\ Begin(h, [pc |-> "reject"])
  /\ UNCHANGED <<Estimate, invoice, agreed, repriced>>

ReadForAcceptance(h) ==
  /\ offer = "PROPOSED" /\ Answerable
  /\ Begin(h, [pc |-> "accept"])
  /\ UNCHANGED <<Estimate, invoice, agreed, repriced>>

DepositAskedFor ==
  \/ invoice["DEPOSIT"] # NoInvoice
  \/ \E h \in Callers : caller[h] \in OrderWork

WritePrice(h) ==
  /\ Does(h, "propose")
  /\ price' = caller[h].price
  /\ offer' = "PROPOSED"
  /\ repriced' = (repriced \/ DepositAskedFor)
  /\ Rest(h)
  /\ UNCHANGED <<request, dayIsOver, invoice, agreed>>

WriteRejection(h) ==
  /\ Does(h, "reject")
  /\ offer' = "REJECTED"
  /\ Rest(h)
  /\ UNCHANGED <<price, request, dayIsOver, invoice, agreed, repriced>>

WriteAcceptance(h) ==
  /\ Does(h, "accept")
  /\ offer' = "ACCEPTED" /\ request' = "CONFIRMED"
  /\ agreed' = price
  /\ Rest(h)
  /\ UNCHANGED <<price, dayIsOver, invoice, repriced>>

(* The customer accepts another estimate of the request.                   *)
ReadForAnother(h) ==
  /\ Answerable
  /\ Begin(h, [pc |-> "other"])
  /\ UNCHANGED <<Estimate, invoice, agreed, repriced>>

WriteAnother(h) ==
  /\ Does(h, "other")
  /\ request' = "CONFIRMED"
  /\ offer' = IF offer = "PROPOSED" THEN "NOT_SELECTED" ELSE offer
  /\ Rest(h)
  /\ UNCHANGED <<price, dayIsOver, invoice, agreed, repriced>>

MoveDayPasses ==
  /\ ~dayIsOver /\ dayIsOver' = TRUE
  /\ UNCHANGED <<price, offer, request, invoice, caller, agreed, repriced>>

(* closePastEstimateRequests sorts the request by the status it read.      *)
ReadTargets(h) ==
  /\ dayIsOver
  /\ \/ request = "PENDING" /\ Begin(h, [pc |-> "expire"])
     \/ request = "CONFIRMED" /\ Begin(h, [pc |-> "complete"])
  /\ UNCHANGED <<Estimate, invoice, agreed, repriced>>

CloseTargets(h) ==
  /\ \/ /\ Does(h, "expire")
        /\ request' = "EXPIRED"
        /\ offer' = IF offer \in {"PROPOSED", "DESIGNATED"} THEN "EXPIRED" ELSE offer
     \/ Does(h, "complete") /\ request' = "COMPLETED" /\ UNCHANGED offer
  /\ Rest(h)
  /\ UNCHANGED <<price, dayIsOver, invoice, agreed, repriced>>

-----------------------------------------------------------------------------
(* calculateAmounts                                                        *)
RoundedShare(share) == IF share = "DEPOSIT" THEN price \div 10 ELSE (price * 9) \div 10

ShareOf(share) == IF share = "DEPOSIT" THEN price \div 10 ELSE price - price \div 10

(* canPay: what it asks of the estimate, and of the payments.              *)
Due(share) == IF share = "DEPOSIT" THEN offer = "ACCEPTED" ELSE request = "COMPLETED"

Unpaid(share) ==
  /\ invoice[share].status # "PAID"
  /\ share = "BALANCE" => invoice["DEPOSIT"].status = "PAID"

AnyAmount(share) == Due(share)

Orderable(share) == Due(share) /\ ShareOf(share) > 0

(* createOrder reads the estimate, then the payments.                      *)
ReadForOrder(h, share) ==
  /\ Orderable(share)
  /\ Begin(h, [pc |-> "payments", share |-> share, amount |-> ShareOf(share)])
  /\ UNCHANGED <<Estimate, invoice, agreed, repriced>>

ReadPayments(h) ==
  LET share == caller[h].share IN
  /\ Does(h, "payments")
  /\ \/ (~Unpaid(share) \/ invoice[share].status = "READY") /\ Rest(h)
     \/ Unpaid(share) /\ invoice[share].status = "NONE" /\ Proceed(h, "create")
     \/ Unpaid(share) /\ invoice[share].status = "FAILED" /\ Proceed(h, "reset")
  /\ UNCHANGED <<Estimate, invoice, agreed, repriced>>

CreateInvoice(h) ==
  LET share == caller[h].share IN
  /\ Does(h, "create")
  /\ invoice' = IF invoice[share].status # "NONE" THEN invoice
                ELSE [invoice EXCEPT ![share] = [status |-> "READY", amount |-> caller[h].amount]]
  /\ Rest(h)
  /\ UNCHANGED <<Estimate, agreed, repriced>>

(* resetForRetry: the amount stays, whatever the price has become.         *)
ReopenInvoice(h) ==
  /\ Does(h, "reset")
  /\ invoice' = [invoice EXCEPT ![caller[h].share].status = "READY"]
  /\ Rest(h)
  /\ UNCHANGED <<Estimate, agreed, repriced>>

(* confirm reads the row with its estimate, then the payments.             *)
ReadForConfirm(h, share) ==
  /\ invoice[share].status \in {"READY", "FAILED"}
  /\ Due(share)
  /\ Begin(h, [pc |-> "check", share |-> share])
  /\ UNCHANGED <<Estimate, invoice, agreed, repriced>>

CheckPayments(h) ==
  /\ Does(h, "check")
  /\ IF Unpaid(caller[h].share) THEN Proceed(h, "toss") ELSE Rest(h)
  /\ UNCHANGED <<Estimate, invoice, agreed, repriced>>

(* Toss has the amount of the row; markPaid and markFailed leave a PAID    *)
(* row as it is.                                                           *)
TossAnswers(h) ==
  LET share == caller[h].share IN
  /\ Does(h, "toss")
  /\ \E verdict \in {"PAID", "FAILED"} :
       invoice' = IF invoice[share].status = "PAID" THEN invoice
                  ELSE [invoice EXCEPT ![share].status = verdict]
  /\ Rest(h)
  /\ UNCHANGED <<Estimate, agreed, repriced>>

(* A transaction is rolled back, nobody answers or the process ends.       *)
Stop(h) ==
  /\ caller[h] # Resting
  /\ Rest(h)
  /\ UNCHANGED <<Estimate, invoice, agreed, repriced>>

QuoteNext ==
  \/ \E h \in Callers :
       \/ ReadForProposal(h) \/ WritePrice(h)
       \/ ReadForRejection(h) \/ WriteRejection(h)
       \/ ReadForAcceptance(h) \/ WriteAcceptance(h)
       \/ ReadForAnother(h) \/ WriteAnother(h)
       \/ ReadTargets(h) \/ CloseTargets(h)
       \/ \E share \in Shares : ReadForOrder(h, share) \/ ReadForConfirm(h, share)
       \/ ReadPayments(h) \/ CreateInvoice(h) \/ ReopenInvoice(h)
       \/ CheckPayments(h) \/ TossAnswers(h)
       \/ Stop(h)
  \/ MoveDayPasses

QuoteSpec == QuoteInit /\ [][QuoteNext]_quoteVars

-----------------------------------------------------------------------------
(* The deposit and the balance asked for add up to the price the customer  *)
(* accepted, however many proposals, rejections and acceptances were under *)
(* way; only a price written after the deposit was asked for breaks this.  *)
PaidAddsUp ==
  ~repriced /\ (\A share \in Shares : invoice[share] # NoInvoice) =>
    invoice["DEPOSIT"].amount + invoice["BALANCE"].amount = agreed

(* A tenth of a price below ten is nothing, and nothing cannot be ordered: *)
(* no money moves for such an estimate, not even the balance.              *)
SmallPricesStayUnpaid ==
  ~repriced /\ agreed < 10 => \A share \in Shares : invoice[share] = NoInvoice
=============================================================================
