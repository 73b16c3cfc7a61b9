--------------------------- MODULE MCPaymentQuote ---------------------------
(* Payment has one price, Quote makes it; they share no state here, and    *)
(* one of the two moves.                                                   *)
EXTENDS MCPayment, Quote

VARIABLE part

moneyVars == <<vars, quoteVars, part>>

MCInit ==
  /\ Init /\ QuoteInit
  /\ part \in {"payment", "quote"}
  /\ part = "payment" => price = NoPrice

MCNext ==
  /\ \/ part = "payment" /\ Next /\ UNCHANGED quoteVars
     \/ part = "quote" /\ QuoteNext /\ UNCHANGED vars
  /\ UNCHANGED part

MCSpec == MCInit /\ [][MCNext]_moneyVars
=============================================================================
