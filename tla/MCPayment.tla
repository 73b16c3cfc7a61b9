----------------------------- MODULE MCPayment -----------------------------
(* A small instance of Payment.                                            *)
EXTENDS PaymentProperties, TLC

Symmetry == Permutations(Keys) \cup Permutations(Handlers)
=============================================================================
