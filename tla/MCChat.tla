------------------------------- MODULE MCChat -------------------------------
(* One request, two movers who may be accepted, and one browser tab, of    *)
(* whichever user opens it.                                                *)
EXTENDS ChatProperties, TLC

CONSTANT customer

MCCustomers == {customer}
MCOwnerOf == [r \in Requests |-> customer]

(* Images and receipts are taken one at a time, and a second message only  *)
(* without either and without a socket.                                    *)
Busy == {h \in Handlers : handler[h] # Idle}

Images ==
  \/ \E h \in Busy : handler[h].image
  \/ \E i \in DOMAIN message : message[i].image

Receipts ==
  \/ \E h \in Busy : handler[h].step \in {"mark", "receipt"}
  \/ \E i \in DOMAIN message : message[i].isRead

ImagesOrReceipts == ~Images \/ ~Receipts

SecondMessageAlone ==
  Len(message) > 1 => ~Images /\ ~Receipts /\ \A s \in Sockets : ~socket[s].online

(* A tab shows one room at a time.                                         *)
OneRoomOpen ==
  \A s \in Sockets :
    socket[s].online => Cardinality(socket[s].joining \cup socket[s].rooms) <= 1

Symmetry == Permutations(Handlers) \cup Permutations(Movers)
=============================================================================
