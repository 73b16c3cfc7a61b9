--------------------------- MODULE MCNotification ---------------------------
(* A customer and a mover of one confirmed estimate; the customer's tab.   *)
EXTENDS NotificationProperties, TLC

CONSTANTS customer, mover

MCRecipients == <<customer, mover>>
Symmetry == Permutations(Handlers)

MCStreamOf == [s \in Streams |-> customer]
=============================================================================
