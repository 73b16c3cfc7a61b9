----------------------------- MODULE MCMoverPage -----------------------------
(***************************************************************************)
(* Three movers, one of them without a profile in the beginning, and pages *)
(* of one mover, so that a full scroll takes three of them.  Each budget   *)
(* is a small instance of its own; one more has a user of the AI search,   *)
(* which shares only Redis and the server with the rest, and moves alone.  *)
(***************************************************************************)
EXTENDS MoverPageProperties, AiQuota, TLC

Budget(w, K, M, i, v) == [writes |-> w, kinds |-> K, movers |-> M, images |-> i, readers |-> v]

Nothing == Budget(0, {}, {}, 0, 0)

MCBudgets ==
  {Budget(1, {"create", "update", "review"}, Movers, 0, 1),
   Budget(2, {"like", "unlike"}, {3}, 0, 1),
   Budget(1, {"accept"}, {3}, 0, 2),
   Budget(3, {"accept", "answer"}, {3}, 0, 1),
   Budget(3, {"review", "like"}, {3}, 0, 0),
   Budget(3, {"create", "update"}, {1}, 3, 0),
   Nothing}

MCEarlier == [m \in Movers |-> IF m = 2 THEN 1 ELSE 0]

MCInit == Init /\ AiInit

MCNext ==
  \/ budget # Nothing /\ Next /\ UNCHANGED aiVars
  \/ budget = Nothing /\ AiNext /\ UNCHANGED vars

MCSpec == MCInit /\ [][MCNext]_<<vars, aiVars>>

Symmetry == Permutations(Handlers) \cup Permutations(Searches)
=============================================================================
