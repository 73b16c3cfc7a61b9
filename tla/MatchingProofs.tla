--------------------------- MODULE MatchingProofs ---------------------------
(***************************************************************************)
(* Proofs about Matching for any number of customers, movers, requests,    *)
(* handlers and instances, and for any limits: all of them race.           *)
(***************************************************************************)
EXTENDS MatchingProperties, FiniteSetTheorems, TLAPS

-----------------------------------------------------------------------------
(* Every step keeps the types.                                             *)
LEMMA TypeStep == TypeOK /\ [Next]_vars => TypeOK'
<1> SUFFICES ASSUME TypeOK, [Next]_vars PROVE TypeOK'
  OBVIOUS
<1> USE DEF TypeOK, Estimates, RequestStatus, EstimateStatus
<1>1. CASE UNCHANGED vars
  BY <1>1 DEF vars
<1>2. ASSUME NEW r \in Requests, CreateEstimateRequest(r) PROVE TypeOK'
  BY <1>2, OwnerAssumption DEF CreateEstimateRequest
<1>3. ASSUME NEW r \in Requests, MoveDayPasses(r) PROVE TypeOK'
  BY <1>3 DEF MoveDayPasses
<1>4. ASSUME NEW h \in Handlers, NEW r \in Requests, NEW m \in Movers,
             NEW op \in Operations, Begin(h, op, r, m)
      PROVE  TypeOK'
  BY <1>4 DEF Begin, Working, TakenUp
<1>5. ASSUME NEW h \in Handlers, NEW r \in Requests, NEW m \in Movers,
             \/ ReadForDesignate(h, r, m)
             \/ ReadForGeneral(h, r, m)
             \/ \E action \in Transitions : ReadForTransition(h, action, r, m)
      PROVE  TypeOK'
  <2>1. PICK op \in Operations : Begin(h, op, r, m)
    BY <1>5 DEF ReadForDesignate, ReadForGeneral, ReadForTransition, Operations
  <2> QED
    BY <1>4, <2>1
<1>6. ASSUME NEW h \in Handlers, Write(h) PROVE TypeOK'
  <2>1. handler[h] # Idle =>
          /\ handler[h] \in Working
          /\ handler[h].req \in Requests
          /\ handler[h].mover \in Movers
          /\ Mine(h) \in Estimates
    BY DEF Working, Mine
  <2>2. ASSUME NEW op \in Operations, NEW insertOp \in Operations,
               NEW designated, NEW limit,
               CountFor(h, op, insertOp, designated, limit)
        PROVE  TypeOK'
    BY <2>1, <2>2 DEF CountFor, Doing, Working
  <2>3. CASE CountDesignated(h)
    BY <2>2, <2>3 DEF CountDesignated, Operations
  <2>4. CASE CountGeneral(h)
    BY <2>2, <2>4 DEF CountGeneral, Operations
  <2>5. CASE InsertDesignated(h)
    BY <2>1, <2>5 DEF InsertDesignated, Doing, Finish
  <2>6. CASE InsertGeneral(h)
    BY <2>1, <2>6 DEF InsertGeneral, Doing, Finish
  <2>7. CASE Propose(h)
    BY <2>1, <2>7 DEF Propose, Doing, Finish
  <2>8. CASE Reject(h)
    BY <2>1, <2>8 DEF Reject, Doing, Finish
  <2>9. CASE ConfirmAndCloseOthers(h)
    BY <2>1, <2>9 DEF ConfirmAndCloseOthers, Doing, Finish
  <2>10. CASE Abort(h)
    BY <2>10 DEF Abort, Finish
  <2> QED
    BY <1>6, <2>3, <2>4, <2>5, <2>6, <2>7, <2>8, <2>9, <2>10 DEF Write
<1>7. ASSUME NEW i \in Instances, ReadTargets(i) PROVE TypeOK'
  BY <1>7 DEF ReadTargets, Targets, TakenUp
<1>8. ASSUME NEW i \in Instances, CloseTargets(i) PROVE TypeOK'
  BY <1>8 DEF CloseTargets, Asleep
<1>9. ASSUME NEW i \in Instances, AbortBatch(i) PROVE TypeOK'
  BY <1>9 DEF AbortBatch, Asleep
<1> QED
  BY <1>1, <1>2, <1>3, <1>5, <1>6, <1>7, <1>8, <1>9 DEF Next

(* Type correctness of the matching service.                               *)
THEOREM TypeCorrect == Spec => []TypeOK
<1>1. Init => TypeOK
  BY DEF Init, TypeOK, Asleep, RequestStatus, EstimateStatus
<1> QED
  BY <1>1, TypeStep, PTL DEF Spec

-----------------------------------------------------------------------------
(* The only writes of handlers to the request, and to a request's link.    *)
LEMMA WriteOfRequest ==
  ASSUME NEW h \in Handlers, Write(h)
  PROVE  ConfirmAndCloseOthers(h) \/ UNCHANGED <<request, active>>
BY DEF Write, CountDesignated, InsertDesignated, CountGeneral, InsertGeneral,
       CountFor, Propose, Reject, Abort

(* A customer's profile never points to a closed request or to another     *)
(* customer's request, whatever handlers and batches overlap: every        *)
(* statement that closes a request unlinks it in the same transaction, and *)
(* no statement closes a request it does not unlink.                       *)
THEOREM LinkSafe == Spec => []LinkPointsToOpen
<1>1. Init => LinkPointsToOpen
  BY DEF Init, LinkPointsToOpen
<1>2. ASSUME TypeOK, LinkPointsToOpen, [Next]_vars PROVE LinkPointsToOpen'
  <2> USE <1>2 DEF LinkPointsToOpen
  <2>1. CASE UNCHANGED <<request, active>>
    BY <2>1
  <2>2. ASSUME NEW r \in Requests, CreateEstimateRequest(r)
        PROVE  LinkPointsToOpen'
    BY <2>2, OwnerAssumption DEF CreateEstimateRequest, TypeOK, Open
  <2>3. ASSUME NEW h \in Handlers, ConfirmAndCloseOthers(h)
        PROVE  LinkPointsToOpen'
    <3>1. /\ handler[h].req \in Requests
          /\ request' = [request EXCEPT ![handler[h].req] = "CONFIRMED"]
          /\ active' = active
      BY <2>3 DEF ConfirmAndCloseOthers, Doing, TypeOK, Working
    <3> QED
      BY <3>1 DEF TypeOK, Open
  <2>4. ASSUME NEW i \in Instances, CloseTargets(i) PROVE LinkPointsToOpen'
    <3>1. \A c \in Customers :
            active'[c] # NoRequest =>
              active'[c] = active[c] /\ active[c] \notin TargetsOf(i)
      BY <2>4 DEF CloseTargets, TypeOK
    <3>2. \A r \in Requests : r \notin TargetsOf(i) => request'[r] = request[r]
      BY <2>4 DEF CloseTargets, TargetsOf, TypeOK
    <3> QED
      BY <3>1, <3>2 DEF TypeOK
  <2>5. ASSUME NEW h \in Handlers, NEW r \in Requests, NEW m \in Movers,
               \/ ReadForDesignate(h, r, m)
               \/ ReadForGeneral(h, r, m)
               \/ \E action \in Transitions : ReadForTransition(h, action, r, m)
        PROVE  UNCHANGED <<request, active>>
    BY <2>5 DEF ReadForDesignate, ReadForGeneral, ReadForTransition, Begin
  <2> QED
    BY <2>1, <2>2, <2>3, <2>4, <2>5, WriteOfRequest
       DEF Next, vars, MoveDayPasses, ReadTargets, AbortBatch
<1> QED
  BY <1>1, <1>2, TypeCorrect, PTL DEF Spec

-----------------------------------------------------------------------------
(* What makes OffersArePriced inductive: an acceptance under way was read  *)
(* from a proposed estimate, and a price is never taken back.              *)
AcceptingPriced == \A h \in Handlers : Doing(h, "ACCEPTED") => Mine(h) \in priced

(* Every offer has a price, so that the payment module, which divides it   *)
(* into deposit and balance, never meets an accepted offer without one.    *)
THEOREM OffersPriced == Spec => []OffersArePriced
<1> DEFINE Inv == OffersArePriced /\ AcceptingPriced
<1>1. Init => Inv
  BY DEF Init, OffersArePriced, AcceptingPriced, Doing
<1>2. ASSUME TypeOK, Inv, [Next]_vars PROVE Inv'
  <2> USE <1>2 DEF OffersArePriced, AcceptingPriced, Doing, Mine, TypeOK, Estimates
  <2>1. CASE UNCHANGED <<estimate, priced, handler>>
    BY <2>1
  <2>2. ASSUME NEW h \in Handlers, NEW r \in Requests, NEW m \in Movers,
               ReadForDesignate(h, r, m) \/ ReadForGeneral(h, r, m)
        PROVE  Inv'
    <3>1. /\ UNCHANGED <<estimate, priced>> /\ handler'[h].op # "ACCEPTED"
          /\ \A k \in Handlers \ {h} : handler'[k] = handler[k]
      BY <2>2 DEF ReadForDesignate, ReadForGeneral, Begin
    <3> QED BY <3>1
  <2>3. ASSUME NEW h \in Handlers, NEW r \in Requests, NEW m \in Movers,
               NEW action \in Transitions, ReadForTransition(h, action, r, m)
        PROVE  Inv'
    BY <2>3 DEF ReadForTransition, Begin, From
  <2>4. ASSUME NEW h \in Handlers, Write(h) PROVE Inv'
    <3> USE DEF Finish, Idle
    <3>1. handler[h] # Idle => Mine(h) \in Estimates
      BY DEF Working
    <3>2. CASE CountDesignated(h)
      BY <3>2 DEF CountDesignated, CountFor
    <3>3. CASE CountGeneral(h)
      BY <3>3 DEF CountGeneral, CountFor
    <3>4. CASE InsertDesignated(h)
      BY <3>1, <3>4 DEF InsertDesignated
    <3>5. CASE InsertGeneral(h)
      BY <3>1, <3>5 DEF InsertGeneral
    <3>6. CASE Propose(h)
      BY <3>1, <3>6 DEF Propose
    <3>7. CASE Reject(h)
      BY <3>1, <3>7 DEF Reject
    <3>8. CASE ConfirmAndCloseOthers(h)
      BY <3>1, <3>8 DEF ConfirmAndCloseOthers
    <3>9. CASE Abort(h)
      BY <3>9 DEF Abort
    <3> QED
      BY <2>4, <3>2, <3>3, <3>4, <3>5, <3>6, <3>7, <3>8, <3>9 DEF Write
  <2>5. ASSUME NEW i \in Instances, CloseTargets(i) PROVE Inv'
    BY <2>5 DEF CloseTargets
  <2> QED
    BY <2>1, <2>2, <2>3, <2>4, <2>5
       DEF Next, vars, CreateEstimateRequest, MoveDayPasses, ReadTargets, AbortBatch
<1>3. Inv => OffersArePriced
  OBVIOUS
<1> QED
  BY <1>1, <1>2, <1>3, TypeCorrect, PTL DEF Spec

-----------------------------------------------------------------------------
(* The limits.  A handler that has counted and not yet inserted holds a    *)
(* place; d is TRUE for designated estimates, FALSE for open ones.         *)
Offered(r, d) == {m \in Movers : /\ estimate[<<r, m>>] # "NONE"
                                 /\ (<<r, m>> \in isDesignated) = d}
InsertOp(d) == IF d THEN "designate_insert" ELSE "general_insert"
Limit(d) == IF d THEN DESIGNATED_LIMIT ELSE GENERAL_LIMIT
Inserting(r, d) == {h \in Handlers : Doing(h, InsertOp(d)) /\ handler[h].req = r}

Bounded(r, d) == Cardinality(Offered(r, d)) + Cardinality(Inserting(r, d))
                   < Limit(d) + Cardinality(Handlers)

(* An estimate that is designated, or about to change status, exists.      *)
RowsExist ==
  /\ \A e \in isDesignated : estimate[e] # "NONE"
  /\ \A h \in Handlers :
       handler[h] # Idle /\ handler[h].op \in Transitions
         => estimate[Mine(h)] # "NONE"

LEMMA Sizes ==
  ASSUME NEW r, NEW d \in BOOLEAN
  PROVE  /\ IsFiniteSet(Offered(r, d)) /\ Cardinality(Offered(r, d)) \in Nat
         /\ IsFiniteSet(Inserting(r, d)) /\ Cardinality(Inserting(r, d)) \in Nat
         /\ Cardinality(Inserting(r, d)) <= Cardinality(Handlers)
         /\ Cardinality(Handlers) \in Nat
         /\ Limit(d) \in Nat
<1>1. Offered(r, d) \subseteq Movers /\ Inserting(r, d) \subseteq Handlers
  BY DEF Offered, Inserting
<1>2. /\ IsFiniteSet(Offered(r, d))
      /\ IsFiniteSet(Inserting(r, d))
      /\ Cardinality(Inserting(r, d)) <= Cardinality(Handlers)
  BY <1>1, FS_Subset, FiniteAssumption
<1> QED
  BY <1>2, FS_CardinalityType, FiniteAssumption, LimitAssumption DEF Limit

(* Estimates stay and handlers leave: the bound is kept.                   *)
LEMMA BoundKept ==
  ASSUME NEW r, NEW d \in BOOLEAN, Bounded(r, d),
         Offered(r, d)' = Offered(r, d), Inserting(r, d)' \subseteq Inserting(r, d)
  PROVE  Bounded(r, d)'
<1>1. /\ Cardinality(Inserting(r, d)') \in Nat
      /\ Cardinality(Inserting(r, d)') <= Cardinality(Inserting(r, d))
  BY Sizes, FS_Subset, FS_CardinalityType
<1> QED
  BY <1>1, Sizes DEF Bounded, Limit

(* What adding or removing one element does to a size.                     *)
LEMMA OneMoreOneLess ==
  ASSUME NEW S, IsFiniteSet(S), NEW x
  PROVE  /\ IsFiniteSet(S \cup {x})
         /\ Cardinality(S \cup {x}) \in Nat
         /\ Cardinality(S \cup {x}) <= Cardinality(S) + 1
         /\ x \in S => Cardinality(S \ {x}) = Cardinality(S) - 1
<1>1. Cardinality(S) \in Nat
  BY FS_CardinalityType
<1>2. /\ IsFiniteSet(S \cup {x})
      /\ Cardinality(S \cup {x}) =
           IF x \in S THEN Cardinality(S) ELSE Cardinality(S) + 1
  BY FS_AddElement
<1>3. Cardinality(S \ {x}) = IF x \in S THEN Cardinality(S) - 1 ELSE Cardinality(S)
  BY FS_RemoveElement
<1> QED
  BY <1>1, <1>2, <1>3

(* A handler that inserts gives back the place it held.                    *)
LEMMA BoundKeptByInsert ==
  ASSUME NEW r, NEW d \in BOOLEAN, Bounded(r, d), NEW h, NEW m,
         h \in Inserting(r, d), Inserting(r, d)' = Inserting(r, d) \ {h},
         Offered(r, d)' \subseteq Offered(r, d) \cup {m}
  PROVE  Bounded(r, d)'
<1>1. Cardinality(Inserting(r, d)') = Cardinality(Inserting(r, d)) - 1
  BY Sizes, OneMoreOneLess
<1>2. /\ IsFiniteSet(Offered(r, d) \cup {m})
      /\ Cardinality(Offered(r, d) \cup {m}) <= Cardinality(Offered(r, d)) + 1
      /\ Cardinality(Offered(r, d) \cup {m}) \in Nat
  BY Sizes, OneMoreOneLess
<1>3. /\ Cardinality(Offered(r, d)') \in Nat
      /\ Cardinality(Offered(r, d)') <= Cardinality(Offered(r, d) \cup {m})
  BY <1>2, FS_Subset, FS_CardinalityType
<1>4. Cardinality(Offered(r, d)') <= Cardinality(Offered(r, d)) + 1
  BY <1>2, <1>3, Sizes
<1> QED
  BY <1>1, <1>4, <1>3, Sizes DEF Bounded, Limit

(* A handler that counts takes a place only below the limit.               *)
LEMMA BoundKeptByCount ==
  ASSUME NEW r, NEW d \in BOOLEAN,
         Offered(r, d)' = Offered(r, d), Cardinality(Offered(r, d)) < Limit(d)
  PROVE  Bounded(r, d)'
<1>1. Inserting(r, d)' \subseteq Handlers
  BY DEF Inserting
<1>2. /\ Cardinality(Inserting(r, d)') \in Nat
      /\ Cardinality(Inserting(r, d)') <= Cardinality(Handlers)
  BY <1>1, FS_Subset, FS_CardinalityType, FiniteAssumption
<1> QED
  BY <1>2, Sizes DEF Bounded, Limit

(* RowsExist is inductive: no statement deletes an estimate.               *)
LEMMA RowsExistStep == TypeOK /\ RowsExist /\ [Next]_vars => RowsExist'
<1> SUFFICES ASSUME TypeOK, RowsExist, [Next]_vars PROVE RowsExist'
  OBVIOUS
<1> USE DEF TypeOK
<1>1. \A h \in Handlers : handler[h] # Idle => Mine(h) \in Estimates
  BY DEF Working, Mine, Estimates
<1>2. CASE UNCHANGED <<estimate, isDesignated, handler>>
  BY <1>2 DEF RowsExist, Mine
<1>3. ASSUME NEW h \in Handlers,
             \A e \in Estimates : estimate[e] # "NONE" => estimate'[e] # "NONE",
             \A e \in isDesignated' : e \in isDesignated \/ estimate'[e] # "NONE",
             \A k \in Handlers \ {h} : handler'[k] = handler[k],
             handler'[h] = Idle \/ handler'[h].op \notin Transitions
      PROVE  RowsExist'
  BY <1>1, <1>3 DEF RowsExist, Mine
<1>4. ASSUME NEW h \in Handlers, NEW r \in Requests, NEW m \in Movers,
             ReadForDesignate(h, r, m) \/ ReadForGeneral(h, r, m)
      PROVE  RowsExist'
  BY <1>3, <1>4 DEF ReadForDesignate, ReadForGeneral, Begin, Transitions
<1>5. ASSUME NEW h \in Handlers, NEW r \in Requests, NEW m \in Movers,
             NEW action \in Transitions, ReadForTransition(h, action, r, m)
      PROVE  RowsExist'
  BY <1>5 DEF ReadForTransition, Begin, From, RowsExist, Mine
<1>6. ASSUME NEW h \in Handlers, Write(h) PROVE RowsExist'
  <2> USE <1>1 DEF Doing
  <2>1. Finish(h) => /\ \A k \in Handlers \ {h} : handler'[k] = handler[k]
                     /\ handler'[h] = Idle
    BY DEF Finish
  <2>2. CASE CountDesignated(h)
    BY <1>3, <2>2 DEF CountDesignated, CountFor, Transitions
  <2>3. CASE CountGeneral(h)
    BY <1>3, <2>3 DEF CountGeneral, CountFor, Transitions
  <2>4. CASE InsertDesignated(h)
    BY <1>3, <2>1, <2>4 DEF InsertDesignated
  <2>5. CASE InsertGeneral(h)
    BY <1>3, <2>1, <2>5 DEF InsertGeneral
  <2>6. CASE Propose(h)
    BY <1>3, <2>1, <2>6 DEF Propose
  <2>7. CASE Reject(h)
    BY <1>3, <2>1, <2>7 DEF Reject
  <2>8. CASE ConfirmAndCloseOthers(h)
    BY <1>3, <2>1, <2>8 DEF ConfirmAndCloseOthers
  <2>9. CASE Abort(h)
    BY <1>3, <2>1, <2>9 DEF Abort
  <2> QED
    BY <1>6, <2>2, <2>3, <2>4, <2>5, <2>6, <2>7, <2>8, <2>9 DEF Write
<1>7. ASSUME NEW i \in Instances, CloseTargets(i) PROVE RowsExist'
  <2>1. \A e \in Estimates : estimate[e] # "NONE" => estimate'[e] # "NONE"
    BY <1>7 DEF CloseTargets
  <2> QED
    BY <1>1, <1>7, <2>1 DEF CloseTargets, RowsExist, Mine
<1> QED
  BY <1>2, <1>4, <1>5, <1>6, <1>7
     DEF Next, vars, CreateEstimateRequest, MoveDayPasses, ReadTargets, AbortBatch

(* Bounded is inductive.                                                   *)
LEMMA BoundedStep ==
  ASSUME TypeOK, RowsExist, [Next]_vars, NEW r \in Requests, NEW d \in BOOLEAN,
         Bounded(r, d)
  PROVE  Bounded(r, d)'
<1> USE DEF TypeOK, Estimates
<1>1. CASE UNCHANGED <<estimate, isDesignated, handler>>
  <2>1. Offered(r, d)' = Offered(r, d) /\ Inserting(r, d)' = Inserting(r, d)
    BY <1>1 DEF Offered, Inserting, Doing
  <2> QED
    BY <2>1, BoundKept
<1>2. ASSUME NEW h \in Handlers, NEW q \in Requests, NEW m \in Movers,
             \/ ReadForDesignate(h, q, m)
             \/ ReadForGeneral(h, q, m)
             \/ \E action \in Transitions : ReadForTransition(h, action, q, m)
      PROVE  Bounded(r, d)'
  <2>1. PICK op \in Operations \ {"designate_insert", "general_insert"} :
          Begin(h, op, q, m)
    BY <1>2 DEF ReadForDesignate, ReadForGeneral, ReadForTransition,
                Operations, Transitions
  <2>2. Offered(r, d)' = Offered(r, d)
    BY <2>1 DEF Begin, Offered
  <2>3. Inserting(r, d)' \subseteq Inserting(r, d)
    BY <2>1 DEF Begin, Inserting, Doing, InsertOp
  <2> QED
    BY <2>2, <2>3, BoundKept
<1>3. ASSUME NEW h \in Handlers, Write(h) PROVE Bounded(r, d)'
  <2>1. /\ handler[h] # Idle => /\ Mine(h) \in Estimates
                                /\ Mine(h) = <<handler[h].req, handler[h].mover>>
                                /\ handler[h].req \in Requests
                                /\ handler[h].mover \in Movers
    BY DEF Working, Mine
  <2>2. Finish(h) => Inserting(r, d)' = Inserting(r, d) \ {h}
    BY DEF Finish, Inserting, Doing
  <2>3. ASSUME NEW op, NEW c \in BOOLEAN, CountFor(h, op, InsertOp(c), c, Limit(c))
        PROVE  Bounded(r, d)'
    <3>1. Offered(r, d)' = Offered(r, d)
      BY <2>3 DEF CountFor, Offered
    <3>2. CASE ~Full(handler[h].req, c, Limit(c)) /\ c = d /\ handler[h].req = r
      <4>1. CountOf(r, d) = Cardinality(Offered(r, d))
        BY DEF CountOf, Offered
      <4>2. Cardinality(Offered(r, d)) < Limit(d)
        BY <3>2, <4>1, Sizes DEF Full
      <4> QED
        BY <3>1, <4>2, BoundKeptByCount
    <3>3. CASE ~(~Full(handler[h].req, c, Limit(c)) /\ c = d /\ handler[h].req = r)
      <4>1. Inserting(r, d)' \subseteq Inserting(r, d)
        BY <2>3, <3>3 DEF CountFor, Inserting, Doing, InsertOp
      <4> QED
        BY <3>1, <4>1, BoundKept
    <3> QED
      BY <3>2, <3>3
  <2>4. CASE CountDesignated(h)
    BY <2>4, <2>3 DEF CountDesignated, InsertOp, Limit
  <2>5. CASE CountGeneral(h)
    BY <2>5, <2>3 DEF CountGeneral, InsertOp, Limit
  <2>6. ASSUME NEW c \in BOOLEAN, Doing(h, InsertOp(c)), Finish(h),
               \A e \in Estimates : e # Mine(h) => estimate'[e] = estimate[e],
               \A e \in Estimates :
                 e # Mine(h) => (e \in isDesignated') = (e \in isDesignated),
               estimate[Mine(h)] # "NONE" => UNCHANGED <<estimate, isDesignated>>,
               estimate[Mine(h)] = "NONE" => (Mine(h) \in isDesignated') = c
        PROVE  Bounded(r, d)'
    <3>1. CASE handler[h].req = r /\ c = d
      <4>1. h \in Inserting(r, d)
        BY <2>6, <3>1 DEF Inserting
      <4>2. Offered(r, d)' \subseteq Offered(r, d) \cup {handler[h].mover}
        BY <2>1, <2>6 DEF Doing, Offered
      <4> QED
        BY <2>2, <2>6, <4>1, <4>2, BoundKeptByInsert
    <3>2. CASE ~(handler[h].req = r /\ c = d)
      <4>1. Offered(r, d)' = Offered(r, d)
        <5>1. CASE estimate[Mine(h)] # "NONE"
          BY <2>6, <5>1 DEF Offered
        <5>2. CASE estimate[Mine(h)] = "NONE"
          BY <2>1, <2>6, <3>2, <5>2 DEF Doing, Offered, RowsExist
        <5> QED
          BY <5>1, <5>2
      <4> QED
        BY <2>2, <2>6, <4>1, BoundKept
    <3> QED
      BY <3>1, <3>2
  <2>7. CASE InsertDesignated(h)
    <3>1. /\ Doing(h, InsertOp(TRUE)) /\ Finish(h)
          /\ estimate[Mine(h)] # "NONE" => UNCHANGED <<estimate, isDesignated>>
          /\ estimate[Mine(h)] = "NONE" => (Mine(h) \in isDesignated') = TRUE
      BY <2>7 DEF InsertDesignated, InsertOp
    <3>2. \A e \in Estimates :
            e # Mine(h) => /\ estimate'[e] = estimate[e]
                           /\ (e \in isDesignated') = (e \in isDesignated)
      BY <2>7 DEF InsertDesignated
    <3> QED
      BY <2>6, <3>1, <3>2
  <2>8. CASE InsertGeneral(h)
    <3>1. /\ Doing(h, InsertOp(FALSE)) /\ Finish(h)
          /\ estimate[Mine(h)] # "NONE" => UNCHANGED <<estimate, isDesignated>>
          /\ isDesignated' = isDesignated
      BY <2>8 DEF InsertGeneral, InsertOp
    <3>2. estimate[Mine(h)] = "NONE" => (Mine(h) \in isDesignated') = FALSE
      BY <3>1 DEF RowsExist
    <3>3. \A e \in Estimates : e # Mine(h) => estimate'[e] = estimate[e]
      BY <2>8 DEF InsertGeneral
    <3> QED
      BY <2>6, <3>1, <3>2, <3>3
  <2>9. ASSUME Finish(h), Offered(r, d)' = Offered(r, d) PROVE Bounded(r, d)'
    BY <2>2, <2>9, BoundKept
  <2>10. CASE Propose(h)
    BY <2>1, <2>9, <2>10 DEF Propose, Offered, RowsExist, Doing, Transitions
  <2>11. CASE Reject(h)
    BY <2>1, <2>9, <2>11 DEF Reject, Offered, RowsExist, Doing, Transitions
  <2>12. CASE ConfirmAndCloseOthers(h)
    BY <2>1, <2>9, <2>12
       DEF ConfirmAndCloseOthers, Offered, RowsExist, Doing, Transitions
  <2>13. CASE Abort(h)
    BY <2>9, <2>13 DEF Abort, Offered
  <2> QED
    BY <1>3, <2>4, <2>5, <2>7, <2>8, <2>10, <2>11, <2>12, <2>13 DEF Write
<1>4. ASSUME NEW i \in Instances, CloseTargets(i) PROVE Bounded(r, d)'
  <2>1. Offered(r, d)' = Offered(r, d) /\ Inserting(r, d)' = Inserting(r, d)
    BY <1>4 DEF CloseTargets, Offered, Inserting, Doing, Outstanding
  <2> QED
    BY <2>1, BoundKept
<1> QED
  BY <1>1, <1>2, <1>3, <1>4
     DEF Next, vars, CreateEstimateRequest, MoveDayPasses, ReadTargets, AbortBatch

(* The advertised limits can be overshot by at most one estimate for each  *)
(* handler beyond the first: the count takes no lock, but each handler     *)
(* counts once for the one row it inserts.                                 *)
OffersBounded ==
  \A r \in Requests : /\ CountOf(r, FALSE) < GENERAL_LIMIT + Cardinality(Handlers)
                      /\ CountOf(r, TRUE) < DESIGNATED_LIMIT + Cardinality(Handlers)

LEMMA FewOffers == Spec => []OffersBounded
<1> DEFINE Inv == RowsExist /\ \A r \in Requests, d \in BOOLEAN : Bounded(r, d)
<1>1. Init => Inv
  <2> SUFFICES ASSUME Init PROVE Inv
    OBVIOUS
  <2>1. RowsExist
    BY DEF Init, RowsExist
  <2>2. ASSUME NEW r \in Requests, NEW d \in BOOLEAN PROVE Bounded(r, d)
    <3>1. Offered(r, d) = {} /\ Inserting(r, d) = {}
      BY DEF Init, Offered, Inserting, Doing, Estimates
    <3> QED
      BY <3>1, Sizes, FS_EmptySet, LimitAssumption DEF Bounded, Limit
  <2> QED
    BY <2>1, <2>2
<1>2. TypeOK /\ Inv /\ [Next]_vars => Inv'
  BY RowsExistStep, BoundedStep
<1>3. Inv => OffersBounded
  <2> SUFFICES ASSUME Inv, NEW r \in Requests
               PROVE  /\ CountOf(r, FALSE) < GENERAL_LIMIT + Cardinality(Handlers)
                      /\ CountOf(r, TRUE) < DESIGNATED_LIMIT + Cardinality(Handlers)
    BY DEF OffersBounded
  <2>1. \A d \in BOOLEAN : Cardinality(Offered(r, d)) < Limit(d) + Cardinality(Handlers)
    BY Sizes DEF Bounded
  <2>2. /\ CountOf(r, TRUE) = Cardinality(Offered(r, TRUE))
        /\ CountOf(r, FALSE) = Cardinality(Offered(r, FALSE))
    BY DEF CountOf, Offered
  <2> QED
    BY <2>1, <2>2 DEF Limit
<1> QED
  BY <1>1, <1>2, <1>3, TypeCorrect, PTL DEF Spec

-----------------------------------------------------------------------------
(* Whose rows a step writes.                                               *)
(* A step leaves the rows of a request as they are.                        *)
Untouched(r) ==
  /\ request'[r] = request[r]
  /\ \A m \in Movers :
       /\ estimate'[<<r, m>>] = estimate[<<r, m>>]
       /\ (<<r, m>> \in isDesignated') = (<<r, m>> \in isDesignated)
       /\ (<<r, m>> \in priced') = (<<r, m>> \in priced)

(* What a handler works on exists.                                         *)
LEMMA MineIsEstimate ==
  ASSUME TypeOK, NEW h \in Handlers, handler[h] # Idle
  PROVE  /\ handler[h].req \in Requests /\ handler[h].mover \in Movers
         /\ Mine(h) \in Estimates
         /\ Mine(h) = <<handler[h].req, handler[h].mover>>
BY DEF TypeOK, Working, Mine, Estimates

(* Every step of a handler is a count or its end, at its own request.      *)
LEMMA WriteEnds ==
  ASSUME NEW h \in Handlers, Write(h)
  PROVE  /\ handler[h] # Idle
         /\ UNCHANGED <<batch, contended>>
         /\ CountDesignated(h) \/ CountGeneral(h) \/ Finish(h)
BY DEF Write, CountDesignated, CountGeneral, CountFor, InsertDesignated,
       InsertGeneral, Propose, Reject, ConfirmAndCloseOthers, Abort, Doing

LEMMA WritesAtItsRequest ==
  ASSUME TypeOK, NEW h \in Handlers, Write(h)
  PROVE  /\ \A k \in Handlers \ {h} : handler'[k] = handler[k]
         /\ \A r \in Requests : r # handler[h].req => Untouched(r)
<1> USE DEF TypeOK
<1>1. /\ handler[h].req \in Requests /\ Mine(h) \in Estimates
      /\ Mine(h) = <<handler[h].req, handler[h].mover>>
  BY WriteEnds, MineIsEstimate
<1>2. \A k \in Handlers \ {h} : handler'[k] = handler[k]
  BY WriteEnds DEF CountDesignated, CountGeneral, CountFor, Finish
<1>3. ASSUME NEW r \in Requests, r # handler[h].req
      PROVE  Untouched(r)
  <2>1. \A m \in Movers : <<r, m>> # Mine(h) /\ <<r, m>> \in Estimates
    BY <1>1, <1>3 DEF Estimates
  <2>2. CASE CountDesignated(h) \/ CountGeneral(h) \/ Abort(h)
    BY <2>2 DEF CountDesignated, CountGeneral, CountFor, Abort, Untouched
  <2>3. CASE InsertDesignated(h)
    BY <2>1, <2>3 DEF InsertDesignated, Untouched
  <2>4. CASE InsertGeneral(h)
    BY <2>1, <2>4 DEF InsertGeneral, Untouched
  <2>5. CASE Propose(h)
    BY <2>1, <2>5 DEF Propose, Untouched
  <2>6. CASE Reject(h)
    BY <2>1, <2>6 DEF Reject, Untouched
  <2>7. CASE ConfirmAndCloseOthers(h)
    <3>1. \A m \in Movers : estimate'[<<r, m>>] = estimate[<<r, m>>]
      BY <1>3, <2>1, <2>7 DEF ConfirmAndCloseOthers
    <3> QED BY <1>1, <1>3, <2>7, <3>1 DEF ConfirmAndCloseOthers, Untouched
  <2> QED BY <2>2, <2>3, <2>4, <2>5, <2>6, <2>7 DEF Write
<1> QED BY <1>2, <1>3

(* A batch writes at its targets.                                          *)
LEMMA BatchWritesAtTargets ==
  ASSUME TypeOK, NEW i \in Instances, CloseTargets(i)
  PROVE  \A r \in Requests : r \notin TargetsOf(i) => Untouched(r)
BY DEF TypeOK, CloseTargets, TargetsOf, Untouched, Estimates

-----------------------------------------------------------------------------
(* Closed requests that nobody has in hand.  A handler starts at a PENDING *)
(* request and a batch at open ones, and both write by id at what they     *)
(* have in hand, so that nothing reaches a request at rest.                *)
LEMMA RestIsKept ==
  ASSUME TypeOK, LinkPointsToOpen', [Next]_vars, NEW r \in Requests, AtRest(r)
  PROVE  StaysAtRest(r)
<1> USE DEF TypeOK
<1>1. /\ request[r] \in Closed
      /\ \A h \in Handlers : handler[h] # Idle => handler[h].req # r
      /\ \A i \in Instances : batch[i].running => r \notin TargetsOf(i)
  BY DEF AtRest, InHand, TargetsOf
<1>2. ASSUME Untouched(r),
             \A h \in Handlers : handler'[h] # Idle => handler'[h].req # r,
             \A i \in Instances : batch'[i].running => r \notin TargetsOf(i)'
      PROVE  StaysAtRest(r)
  <2>1. AtRest(r)'
    BY <1>1, <1>2 DEF AtRest, InHand, TargetsOf, Untouched
  <2>2. active'[OwnerOf[r]] # r
    <3>1. OwnerOf[r] \in Customers /\ r # NoRequest
      BY OwnerAssumption, NoRequestAssumption
    <3> QED BY <2>1, <3>1 DEF AtRest, LinkPointsToOpen, Closed, Open
  <2> QED BY <1>2, <2>1, <2>2 DEF StaysAtRest, Untouched
<1>3. CASE UNCHANGED <<request, estimate, isDesignated, priced, handler, batch>>
  BY <1>1, <1>2, <1>3 DEF Untouched, TargetsOf
<1>4. ASSUME NEW q \in Requests, CreateEstimateRequest(q) PROVE StaysAtRest(r)
  <2>1. q # r
    BY <1>1, <1>4 DEF CreateEstimateRequest, Closed
  <2> QED BY <1>1, <1>2, <1>4, <2>1 DEF CreateEstimateRequest, Untouched, TargetsOf
<1>5. ASSUME NEW h \in Handlers, NEW q \in Requests, NEW m \in Movers,
             \/ ReadForDesignate(h, q, m)
             \/ ReadForGeneral(h, q, m)
             \/ \E action \in Transitions : ReadForTransition(h, action, q, m)
      PROVE  StaysAtRest(r)
  <2>1. /\ request[q] = "PENDING"
        /\ UNCHANGED <<request, estimate, isDesignated, priced, batch>>
        /\ handler'[h].req = q /\ \A k \in Handlers \ {h} : handler'[k] = handler[k]
    BY <1>5 DEF ReadForDesignate, ReadForGeneral, ReadForTransition, Answerable, Begin
  <2>2. q # r
    BY <1>1, <2>1 DEF Closed
  <2> QED BY <1>1, <1>2, <2>1, <2>2 DEF Untouched, TargetsOf
<1>6. ASSUME NEW h \in Handlers, Write(h) PROVE StaysAtRest(r)
  <2>1. /\ Untouched(r) /\ batch' = batch /\ handler[h] # Idle
        /\ \A k \in Handlers \ {h} : handler'[k] = handler[k]
    BY <1>1, <1>6, WriteEnds, WritesAtItsRequest
  <2>2. \A k \in Handlers : handler'[k] # Idle => handler[k] # Idle /\ handler'[k].req = handler[k].req
    <3>1. CASE Finish(h)
      BY <3>1 DEF Finish
    <3>2. CASE CountDesignated(h) \/ CountGeneral(h)
      <4>1. ASSUME NEW op, NEW insertOp, NEW d, NEW limit, CountFor(h, op, insertOp, d, limit)
            PROVE  handler'[h] = Idle \/ handler'[h].req = handler[h].req
        BY <4>1 DEF CountFor
      <4> QED BY <2>1, <3>2, <4>1 DEF CountDesignated, CountGeneral
    <3> QED BY <1>6, <3>1, <3>2, WriteEnds
  <2> QED BY <1>1, <1>2, <2>1, <2>2 DEF TargetsOf
<1>7. ASSUME NEW i \in Instances, ReadTargets(i) PROVE StaysAtRest(r)
  <2>1. r \notin Targets
    BY <1>1 DEF Targets, Closed, Open
  <2> QED BY <1>1, <1>2, <1>7, <2>1 DEF ReadTargets, Untouched, TargetsOf
<1>8. ASSUME NEW i \in Instances, CloseTargets(i) PROVE StaysAtRest(r)
  <2>1. Untouched(r)
    BY <1>1, <1>8, BatchWritesAtTargets DEF CloseTargets
  <2> QED BY <1>1, <1>2, <1>8, <2>1 DEF CloseTargets, TargetsOf, Asleep
<1>9. ASSUME NEW i \in Instances, AbortBatch(i) PROVE StaysAtRest(r)
  BY <1>1, <1>2, <1>9 DEF AbortBatch, Untouched, TargetsOf, Asleep
<1> QED
  BY <1>3, <1>4, <1>5, <1>6, <1>7, <1>8, <1>9 DEF Next, vars, MoveDayPasses

(* Whatever overlaps, a closed request is history once the handlers and    *)
(* batches that had it in hand are gone: late writes by id can still move  *)
(* it until then, and nothing can afterwards.                              *)
THEOREM HistoryFinal == Spec => HistoryIsFinal
<1>1. TypeOK /\ LinkPointsToOpen' /\ [Next]_vars
        => [\A r \in Requests : AtRest(r) => StaysAtRest(r)]_vars
  BY RestIsKept
<1> QED
  BY <1>1, TypeCorrect, LinkSafe, PTL DEF Spec, HistoryIsFinal
-----------------------------------------------------------------------------
(* Accepted estimates.  Only confirmAndCloseOthers adds one; an answer of  *)
(* the mover that was under way may take one away.                         *)
AcceptedOnes == {e \in Estimates : estimate[e] = "ACCEPTED"}

LEMMA ConfirmAddsOne ==
  ASSUME TypeOK, NEW h \in Handlers, ConfirmAndCloseOthers(h)
  PROVE  /\ handler[h].req \in Requests /\ handler[h].mover \in Movers
         /\ ~OtherOpen(handler[h].req)
         /\ request' = [request EXCEPT ![handler[h].req] = "CONFIRMED"]
         /\ AcceptedOnes' = AcceptedOnes \cup {<<handler[h].req, handler[h].mover>>}
<1>1. /\ handler[h].req \in Requests /\ handler[h].mover \in Movers
      /\ Mine(h) \in Estimates /\ Mine(h) = <<handler[h].req, handler[h].mover>>
  BY MineIsEstimate DEF ConfirmAndCloseOthers, Doing
<1>2. \A e \in Estimates : estimate'[e] = "ACCEPTED" <=> e = Mine(h) \/ estimate[e] = "ACCEPTED"
  BY DEF ConfirmAndCloseOthers
<1>3. AcceptedOnes' = AcceptedOnes \cup {Mine(h)}
  BY <1>1, <1>2 DEF AcceptedOnes
<1> QED BY <1>1, <1>3 DEF ConfirmAndCloseOthers

LEMMA OthersAddNone ==
  ASSUME TypeOK, [Next]_vars, \A h \in Handlers : ~ConfirmAndCloseOthers(h)
  PROVE  \/ AcceptedOnes' = AcceptedOnes
         \/ request' = request /\ \E e \in AcceptedOnes : AcceptedOnes' = AcceptedOnes \ {e}
<1> USE DEF TypeOK
<1> DEFINE Kept == \/ AcceptedOnes' = AcceptedOnes
                   \/ /\ request' = request
                      /\ \E e \in AcceptedOnes : AcceptedOnes' = AcceptedOnes \ {e}
<1>1. estimate' = estimate => Kept
  BY DEF AcceptedOnes
<1>2. ASSUME NEW h \in Handlers, Write(h) PROVE Kept
  <2>1. Mine(h) \in Estimates
    BY <1>2, WriteEnds, MineIsEstimate
  <2>2. ASSUME NEW s \in {"DESIGNATED", "PROPOSED", "REJECTED"},
               estimate' = [estimate EXCEPT ![Mine(h)] = s], request' = request
        PROVE  Kept
    <3>1. AcceptedOnes' = AcceptedOnes \ {Mine(h)}
      BY <2>1, <2>2 DEF AcceptedOnes
    <3> QED BY <2>2, <3>1
  <2>3. CASE CountDesignated(h) \/ CountGeneral(h) \/ Abort(h)
    BY <1>1, <2>3 DEF CountDesignated, CountGeneral, CountFor, Abort
  <2>4. CASE InsertDesignated(h)
    BY <1>1, <2>2, <2>4 DEF InsertDesignated
  <2>5. CASE InsertGeneral(h)
    BY <1>1, <2>2, <2>5 DEF InsertGeneral
  <2>6. CASE Propose(h)
    BY <2>2, <2>6 DEF Propose
  <2>7. CASE Reject(h)
    BY <2>2, <2>7 DEF Reject
  <2> QED BY <1>2, <2>3, <2>4, <2>5, <2>6, <2>7 DEF Write
<1>3. ASSUME NEW i \in Instances, CloseTargets(i) PROVE Kept
  <2>1. \A e \in Estimates : estimate'[e] = "ACCEPTED" <=> estimate[e] = "ACCEPTED"
    BY <1>3 DEF CloseTargets, Outstanding
  <2> QED BY <2>1 DEF AcceptedOnes
<1>4. ASSUME NEW h \in Handlers, NEW q \in Requests, NEW m \in Movers,
             \/ ReadForDesignate(h, q, m)
             \/ ReadForGeneral(h, q, m)
             \/ \E action \in Transitions : ReadForTransition(h, action, q, m)
      PROVE  estimate' = estimate
  BY <1>4 DEF ReadForDesignate, ReadForGeneral, ReadForTransition, Begin
<1> QED
  BY <1>1, <1>2, <1>3, <1>4
     DEF Next, vars, CreateEstimateRequest, MoveDayPasses, ReadTargets, AbortBatch

(* A request is opened once: its status never goes back.                   *)
LEMMA StatusGoesOn ==
  ASSUME TypeOK, [Next]_vars, NEW r \in Requests
  PROVE  /\ request[r] # "NONE" => request'[r] # "NONE"
         /\ request[r] \notin {"NONE", "PENDING"} => request'[r] \notin {"NONE", "PENDING"}
<1> USE DEF TypeOK
<1>1. ASSUME NEW q \in Requests, CreateEstimateRequest(q)
      PROVE  request[q] = "NONE" /\ request' = [request EXCEPT ![q] = "PENDING"]
  BY <1>1 DEF CreateEstimateRequest
<1>2. ASSUME NEW h \in Handlers, ConfirmAndCloseOthers(h)
      PROVE  request' = [request EXCEPT ![handler[h].req] = "CONFIRMED"]
  BY <1>2, ConfirmAddsOne
<1>3. ASSUME NEW i \in Instances, CloseTargets(i)
      PROVE  request'[r] \in {"COMPLETED", "EXPIRED", request[r]}
  BY <1>3 DEF CloseTargets
<1>4. ASSUME NEW h \in Handlers, NEW q \in Requests, NEW m \in Movers,
             \/ ReadForDesignate(h, q, m)
             \/ ReadForGeneral(h, q, m)
             \/ \E action \in Transitions : ReadForTransition(h, action, q, m)
      PROVE  request' = request
  BY <1>4 DEF ReadForDesignate, ReadForGeneral, ReadForTransition, Begin
<1> QED
  BY <1>1, <1>2, <1>3, <1>4, WriteOfRequest
     DEF Next, vars, MoveDayPasses, ReadTargets, AbortBatch

-----------------------------------------------------------------------------
(* How many can win.  A handler about to accept holds a place.             *)
Accepting(r) == {h \in Handlers : Doing(h, "ACCEPTED") /\ handler[h].req = r}

Places(r) == Cardinality(Accepted(r)) + Cardinality(Accepting(r)) <= Cardinality(Handlers)
Awarded(r) == Accepted(r) # {} => request[r] \notin {"NONE", "PENDING"}

LEMMA AwardSizes ==
  ASSUME NEW r
  PROVE  /\ IsFiniteSet(Accepted(r)) /\ Cardinality(Accepted(r)) \in Nat
         /\ IsFiniteSet(Accepting(r)) /\ Cardinality(Accepting(r)) \in Nat
         /\ Cardinality(Accepting(r)) <= Cardinality(Handlers)
         /\ Cardinality(Handlers) \in Nat
<1>1. Accepted(r) \subseteq Movers /\ Accepting(r) \subseteq Handlers
  BY DEF Accepted, Accepting
<1>2. IsFiniteSet(Accepted(r)) /\ IsFiniteSet(Accepting(r))
      /\ Cardinality(Accepting(r)) <= Cardinality(Handlers)
  BY <1>1, FS_Subset, FiniteAssumption
<1> QED BY <1>2, FS_CardinalityType, FiniteAssumption

LEMMA PlacesKept ==
  ASSUME NEW r, Places(r),
         Accepted(r)' \subseteq Accepted(r), Accepting(r)' \subseteq Accepting(r)
  PROVE  Places(r)'
<1>1. /\ Cardinality(Accepted(r)') \in Nat /\ Cardinality(Accepting(r)') \in Nat
      /\ Cardinality(Accepted(r)') <= Cardinality(Accepted(r))
      /\ Cardinality(Accepting(r)') <= Cardinality(Accepting(r))
  BY AwardSizes, FS_Subset, FS_CardinalityType
<1> QED BY <1>1, AwardSizes DEF Places

LEMMA PlaceIsTaken ==
  ASSUME NEW r, Places(r), NEW h, NEW m, h \in Accepting(r),
         Accepting(r)' \subseteq Accepting(r) \ {h}, Accepted(r)' = Accepted(r) \cup {m}
  PROVE  Places(r)'
<1>1. /\ Cardinality(Accepting(r) \ {h}) = Cardinality(Accepting(r)) - 1
      /\ IsFiniteSet(Accepted(r) \cup {m}) /\ Cardinality(Accepted(r) \cup {m}) \in Nat
      /\ Cardinality(Accepted(r) \cup {m}) <= Cardinality(Accepted(r)) + 1
  BY AwardSizes, OneMoreOneLess
<1>2. IsFiniteSet(Accepting(r) \ {h})
  BY AwardSizes, FS_Subset
<1>3. /\ Cardinality(Accepting(r)') \in Nat
      /\ Cardinality(Accepting(r)') <= Cardinality(Accepting(r) \ {h})
  BY <1>2, FS_Subset, FS_CardinalityType
<1> QED BY <1>1, <1>3, AwardSizes DEF Places

(* Whoever wants to accept has read that the request is PENDING, hence     *)
(* that no estimate of it is accepted: all handlers could do so at once.   *)
LEMMA AwardStep ==
  ASSUME TypeOK, [Next]_vars, NEW r \in Requests, Places(r), Awarded(r)
  PROVE  Places(r)' /\ Awarded(r)'
<1> USE DEF TypeOK
<1>1. Accepted(r) = {m \in Movers : <<r, m>> \in AcceptedOnes}
      /\ Accepted(r)' = {m \in Movers : <<r, m>> \in AcceptedOnes'}
  BY DEF Accepted, AcceptedOnes, Estimates
<1>2. ASSUME NEW h \in Handlers, ConfirmAndCloseOthers(h)
      PROVE  Places(r)' /\ Awarded(r)'
  <2>1. /\ request' = [request EXCEPT ![handler[h].req] = "CONFIRMED"]
        /\ AcceptedOnes' = AcceptedOnes \cup {<<handler[h].req, handler[h].mover>>}
        /\ handler[h].mover \in Movers
    BY <1>2, ConfirmAddsOne
  <2>2. /\ Doing(h, "ACCEPTED") /\ Accepting(r)' \subseteq Accepting(r) \ {h}
    BY <1>2 DEF ConfirmAndCloseOthers, Finish, Accepting, Doing
  <2>3. CASE handler[h].req = r
    <3>1. Accepted(r)' = Accepted(r) \cup {handler[h].mover} /\ h \in Accepting(r)
      BY <1>1, <2>1, <2>2, <2>3 DEF Accepting
    <3>2. request'[r] = "CONFIRMED"
      BY <2>1, <2>3
    <3> QED BY <2>2, <3>1, <3>2, PlaceIsTaken DEF Awarded
  <2>4. CASE handler[h].req # r
    <3>1. Accepted(r)' = Accepted(r) /\ request'[r] = request[r]
      BY <1>1, <2>1, <2>4
    <3> QED BY <2>2, <3>1, PlacesKept DEF Awarded
  <2> QED BY <2>3, <2>4
<1>3. CASE \A h \in Handlers : ~ConfirmAndCloseOthers(h)
  <2>1. Accepted(r)' \subseteq Accepted(r)
    BY <1>1, <1>3, OthersAddNone
  <2>2. Awarded(r)'
    BY <2>1, StatusGoesOn DEF Awarded
  <2>3. Accepting(r)' \subseteq Accepting(r) \/ Accepted(r) = {}
    <3>1. CASE handler' = handler
      BY <3>1 DEF Accepting, Doing
    <3>2. ASSUME NEW h \in Handlers, NEW q \in Requests, NEW m \in Movers, NEW op,
                 Begin(h, op, q, m), op = "ACCEPTED" => request[q] = "PENDING"
          PROVE  Accepting(r)' \subseteq Accepting(r) \/ Accepted(r) = {}
      <4>1. CASE op = "ACCEPTED" /\ q = r
        BY <3>2, <4>1 DEF Awarded
      <4>2. CASE ~(op = "ACCEPTED" /\ q = r)
        BY <3>2, <4>2 DEF Begin, Accepting, Doing
      <4> QED BY <4>1, <4>2
    <3>3. ASSUME NEW h \in Handlers, NEW q \in Requests, NEW m \in Movers,
                 \/ ReadForDesignate(h, q, m)
                 \/ ReadForGeneral(h, q, m)
                 \/ \E action \in Transitions : ReadForTransition(h, action, q, m)
          PROVE  Accepting(r)' \subseteq Accepting(r) \/ Accepted(r) = {}
      BY <3>2, <3>3 DEF ReadForDesignate, ReadForGeneral, ReadForTransition, Answerable
    <3>4. ASSUME NEW h \in Handlers, Write(h)
          PROVE  Accepting(r)' \subseteq Accepting(r)
      <4>1. CASE Finish(h)
        BY <4>1 DEF Finish, Accepting, Doing
      <4>2. ASSUME NEW op, NEW insertOp \in {"designate_insert", "general_insert"},
                   NEW d, NEW limit, CountFor(h, op, insertOp, d, limit)
            PROVE  Accepting(r)' \subseteq Accepting(r)
        BY <4>2 DEF CountFor, Accepting, Doing
      <4> QED BY <3>4, <4>1, <4>2, WriteEnds DEF CountDesignated, CountGeneral
    <3> QED
      BY <3>1, <3>3, <3>4
         DEF Next, vars, CreateEstimateRequest, MoveDayPasses, ReadTargets, CloseTargets, AbortBatch
  <2>4. Places(r)'
    <3>1. CASE Accepting(r)' \subseteq Accepting(r)
      BY <2>1, <3>1, PlacesKept
    <3>2. CASE Accepted(r) = {}
      <4>1. Accepted(r)' = {} /\ Accepting(r)' \subseteq Handlers
        BY <2>1, <3>2 DEF Accepting
      <4>2. /\ Cardinality(Accepted(r)') = 0
            /\ Cardinality(Accepting(r)') \in Nat
            /\ Cardinality(Accepting(r)') <= Cardinality(Handlers)
        BY <4>1, FS_EmptySet, FS_Subset, FS_CardinalityType, FiniteAssumption
      <4> QED BY <4>2, AwardSizes DEF Places
    <3> QED BY <2>3, <3>1, <3>2
  <2> QED BY <2>2, <2>4
<1> QED BY <1>2, <1>3

(* However many tabs of the customer accept at once, a request gets at     *)
(* most one winner for each handler in flight, and one with a winner is    *)
(* past PENDING, so that no further accept is let in.                      *)
WinnersBounded ==
  \A r \in Requests : /\ Cardinality(Accepted(r)) <= Cardinality(Handlers)
                      /\ Accepted(r) # {} => request[r] \notin {"NONE", "PENDING"}

LEMMA FewWinners == Spec => []WinnersBounded
<1> DEFINE Inv == \A r \in Requests : Places(r) /\ Awarded(r)
<1>1. Init => Inv
  <2> SUFFICES ASSUME Init, NEW r \in Requests PROVE Places(r) /\ Awarded(r)
    OBVIOUS
  <2>1. Accepted(r) = {} /\ Accepting(r) = {}
    BY DEF Init, Accepted, Accepting, Doing, Estimates
  <2> QED BY <2>1, FS_EmptySet, AwardSizes DEF Places, Awarded
<1>2. TypeOK /\ Inv /\ [Next]_vars => Inv'
  BY AwardStep
<1>3. Inv => WinnersBounded
  BY AwardSizes DEF Places, Awarded, WinnersBounded
<1> QED BY <1>1, <1>2, <1>3, TypeCorrect, PTL DEF Spec

(* Whatever overlaps, neither limit is overshot by as many estimates as    *)
(* there are handlers in flight at once, nor is the one winner.            *)
THEOREM Overshoot == Spec => []OvershootBounded
<1>1. OffersBounded /\ WinnersBounded => OvershootBounded
  <2>1. Cardinality(Handlers) \in Nat
    BY FiniteAssumption, FS_CardinalityType
  <2>2. ASSUME WinnersBounded, NEW r \in Requests
        PROVE  Cardinality(Accepted(r)) < 1 + Cardinality(Handlers)
    <3>1. Cardinality(Accepted(r)) \in Nat
      BY AwardSizes
    <3>2. Cardinality(Accepted(r)) <= Cardinality(Handlers)
      BY <2>2 DEF WinnersBounded
    <3> QED BY <2>1, <3>1, <3>2
  <2> QED BY <2>2 DEF OffersBounded, OvershootBounded
<1> QED BY <1>1, FewOffers, FewWinners, PTL

-----------------------------------------------------------------------------
(* The refinement of ContestedLifecycle.  What a handler or a batch has in *)
(* hand was created, and what a batch will complete was confirmed once.    *)
InHandExist ==
  /\ \A h \in Handlers : handler[h] # Idle => request[handler[h].req] # "NONE"
  /\ \A i \in Instances : batch[i].running =>
       /\ \A r \in batch[i].completedIds : request[r] \notin {"NONE", "PENDING"}
       /\ \A r \in batch[i].expiredIds : request[r] # "NONE"

LEMMA InHandExistStep ==
  ASSUME TypeOK, InHandExist, [Next]_vars
  PROVE  InHandExist'
<1> USE DEF TypeOK
<1>1. \A r \in Requests :
        /\ request[r] # "NONE" => request'[r] # "NONE"
        /\ request[r] \notin {"NONE", "PENDING"} => request'[r] \notin {"NONE", "PENDING"}
  BY StatusGoesOn
<1>2. ASSUME NEW h \in Handlers, handler'[h] # Idle,
             handler[h] # Idle /\ handler'[h].req = handler[h].req
      PROVE  request'[handler'[h].req] # "NONE"
  BY <1>1, <1>2, MineIsEstimate DEF InHandExist
<1>3. ASSUME NEW i \in Instances, batch'[i].running, batch'[i] = batch[i]
      PROVE  /\ \A r \in batch'[i].completedIds : request'[r] \notin {"NONE", "PENDING"}
             /\ \A r \in batch'[i].expiredIds : request'[r] # "NONE"
  BY <1>1, <1>3 DEF InHandExist
<1>4. CASE UNCHANGED <<handler, batch>>
  BY <1>2, <1>3, <1>4 DEF InHandExist
<1>5. ASSUME NEW h \in Handlers, NEW q \in Requests, NEW m \in Movers,
             \/ ReadForDesignate(h, q, m)
             \/ ReadForGeneral(h, q, m)
             \/ \E action \in Transitions : ReadForTransition(h, action, q, m)
      PROVE  InHandExist'
  <2>1. /\ request[q] = "PENDING" /\ batch' = batch
        /\ handler'[h].req = q /\ \A k \in Handlers \ {h} : handler'[k] = handler[k]
    BY <1>5 DEF ReadForDesignate, ReadForGeneral, ReadForTransition, Answerable, Begin
  <2>2. request'[handler'[h].req] # "NONE"
    BY <1>1, <2>1
  <2> QED BY <1>2, <1>3, <2>1, <2>2 DEF InHandExist
<1>6. ASSUME NEW h \in Handlers, Write(h) PROVE InHandExist'
  <2>1. /\ handler[h] # Idle /\ batch' = batch
        /\ \A k \in Handlers \ {h} : handler'[k] = handler[k]
    BY <1>6, WriteEnds, WritesAtItsRequest
  <2>2. handler'[h] = Idle \/ handler'[h].req = handler[h].req
    <3>1. CASE Finish(h)
      BY <3>1 DEF Finish
    <3>2. ASSUME NEW op, NEW insertOp, NEW d, NEW limit, CountFor(h, op, insertOp, d, limit)
          PROVE  handler'[h] = Idle \/ handler'[h].req = handler[h].req
      BY <3>2 DEF CountFor
    <3> QED BY <1>6, <3>1, <3>2, WriteEnds DEF CountDesignated, CountGeneral
  <2> QED BY <1>2, <1>3, <2>1, <2>2 DEF InHandExist
<1>7. ASSUME NEW i \in Instances, ReadTargets(i) PROVE InHandExist'
  <2>1. /\ UNCHANGED <<request, handler>>
        /\ \A j \in Instances \ {i} : batch'[j] = batch[j]
        /\ batch'[i].completedIds = {r \in Targets : request[r] = "CONFIRMED"}
        /\ batch'[i].expiredIds = {r \in Targets : request[r] # "CONFIRMED"}
    BY <1>7 DEF ReadTargets
  <2> QED BY <1>2, <1>3, <2>1 DEF InHandExist, Targets, Open
<1>8. ASSUME NEW i \in Instances, CloseTargets(i) \/ AbortBatch(i) PROVE InHandExist'
  <2>1. /\ handler' = handler /\ ~batch'[i].running
        /\ \A j \in Instances \ {i} : batch'[j] = batch[j]
    BY <1>8 DEF CloseTargets, AbortBatch, Asleep
  <2> QED BY <1>2, <1>3, <2>1 DEF InHandExist
<1> QED
  BY <1>4, <1>5, <1>6, <1>7, <1>8 DEF Next, vars, CreateEstimateRequest, MoveDayPasses

LEMMA LiveIsOpen ==
  ASSUME NEW r \in Requests
  PROVE  ~OtherOpen(r) => Contested!Live(OwnerOf[r]) \subseteq {r}
BY DEF Contested!Live, Contested!OpenStatus, Open, OtherOpen

LEMMA ContestedStep ==
  ASSUME TypeOK, InHandExist, [Next]_vars
  PROVE  Contested!Next \/ UNCHANGED Contested!contested
<1> USE DEF TypeOK
<1>0. AcceptedOnes = {e \in Estimates : estimate[e] = "ACCEPTED"}
      /\ AcceptedOnes' = {e \in Estimates : estimate'[e] = "ACCEPTED"}
  BY DEF AcceptedOnes
<1>1. ASSUME NEW r \in Requests, CreateEstimateRequest(r) PROVE Contested!Next
  <2>1. Contested!Live(OwnerOf[r]) = {}
    <3>1. request[r] = "NONE" /\ ~OtherOpen(r)
      BY <1>1 DEF CreateEstimateRequest
    <3> QED BY <3>1 DEF Contested!Live, Contested!OpenStatus, OtherOpen, Open
  <2>2. Contested!OpenRequest(r)
    BY <1>1, <2>1 DEF CreateEstimateRequest, Contested!OpenRequest
  <2> QED BY <2>2 DEF Contested!Next
<1>2. ASSUME NEW h \in Handlers, ConfirmAndCloseOthers(h) PROVE Contested!Next
  <2>1. PICK r \in Requests, m \in Movers :
          /\ r = handler[h].req /\ ~OtherOpen(r)
          /\ request' = [request EXCEPT ![r] = "CONFIRMED"]
          /\ AcceptedOnes' = AcceptedOnes \cup {<<r, m>>}
    BY <1>2, ConfirmAddsOne
  <2>2. request[r] # "NONE"
    BY <1>2, <2>1 DEF ConfirmAndCloseOthers, Doing, InHandExist
  <2>3. Contested!Accept(r, m)
    BY <1>0, <2>1, <2>2, LiveIsOpen DEF Contested!Accept
  <2> QED BY <2>3 DEF Contested!Next
<1>3. ASSUME NEW i \in Instances, CloseTargets(i) PROVE Contested!Next
  <2>1. /\ batch[i].completedIds \in SUBSET Requests /\ batch[i].expiredIds \in SUBSET Requests
        /\ \A r \in batch[i].completedIds : request[r] \notin {"NONE", "PENDING"}
        /\ \A r \in batch[i].expiredIds : request[r] # "NONE"
    BY <1>3 DEF CloseTargets, InHandExist
  <2>2. \A e \in Estimates : estimate'[e] = "ACCEPTED" <=> estimate[e] = "ACCEPTED"
    BY <1>3 DEF CloseTargets, Outstanding
  <2>3. Contested!Close(batch[i].completedIds, batch[i].expiredIds)
    BY <1>3, <2>1, <2>2 DEF CloseTargets, Contested!Close
  <2> QED BY <2>1, <2>3 DEF Contested!Next
<1>4. CASE /\ \A r \in Requests : ~CreateEstimateRequest(r)
           /\ \A h \in Handlers : ~ConfirmAndCloseOthers(h)
           /\ \A i \in Instances : ~CloseTargets(i)
  <2>1. request' = request
    <3>1. ASSUME NEW h \in Handlers, NEW q \in Requests, NEW m \in Movers,
                 \/ ReadForDesignate(h, q, m)
                 \/ ReadForGeneral(h, q, m)
                 \/ \E action \in Transitions : ReadForTransition(h, action, q, m)
          PROVE  request' = request
      BY <3>1 DEF ReadForDesignate, ReadForGeneral, ReadForTransition, Begin
    <3> QED
      BY <1>4, <3>1, WriteOfRequest DEF Next, vars, MoveDayPasses, ReadTargets, AbortBatch
  <2>2. AcceptedOnes' = AcceptedOnes \/ \E e \in AcceptedOnes : AcceptedOnes' = AcceptedOnes \ {e}
    BY <1>4, OthersAddNone
  <2>3. CASE AcceptedOnes' = AcceptedOnes
    BY <1>0, <2>1, <2>3 DEF Contested!contested
  <2>4. ASSUME NEW e \in AcceptedOnes, AcceptedOnes' = AcceptedOnes \ {e}
        PROVE  Contested!Next
    <3>1. Contested!Withdraw(e)
      BY <1>0, <2>1, <2>4 DEF Contested!Withdraw
    <3> QED BY <1>0, <2>4, <3>1 DEF Contested!Next
  <2> QED BY <2>2, <2>3, <2>4
<1> QED BY <1>1, <1>2, <1>3, <1>4

(* Whatever overlaps, the service implements the contested life cycle: a   *)
(* request opens once and is never pending again, a customer has one open  *)
(* request at a time, nothing is accepted before it is confirmed, and a    *)
(* batch completes only what was confirmed.                                *)
THEOREM ContestedImplemented == Spec => ImplementsContested
<1>1. Init => Contested!Init
  BY DEF Init, Contested!Init
<1>2. Init => InHandExist
  BY DEF Init, InHandExist, Asleep
<1>3. TypeOK /\ InHandExist /\ [Next]_vars => InHandExist'
  BY InHandExistStep
<1>4. TypeOK /\ InHandExist /\ [Next]_vars => [Contested!Next]_(Contested!contested)
  BY ContestedStep
<1> QED
  BY <1>1, <1>2, <1>3, <1>4, TypeCorrect, PTL
     DEF Spec, ImplementsContested, Contested!Spec
=============================================================================
