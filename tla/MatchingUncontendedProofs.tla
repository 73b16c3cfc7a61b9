------------------------ MODULE MatchingUncontendedProofs -------------------
(***************************************************************************)
(* Proofs about Matching for any number of customers, movers, requests,    *)
(* handlers and instances, all of them racing: what the checks of the code *)
(* achieve at a request that no two handlers or batches have had in hand   *)
(* at once, whatever goes on beside it.  There the row a handler writes is *)
(* still the row it read.                                                  *)
(***************************************************************************)
EXTENDS MatchingProofs

-----------------------------------------------------------------------------
(* The inductive invariant.  Nothing else is at an uncontended request of  *)
(* a handler, or at an uncontended target of a batch.                      *)
Alone ==
  /\ \A h, k \in Handlers :
       /\ handler[h] # Idle /\ handler[k] # Idle
       /\ handler[h].req = handler[k].req
       => h = k \/ handler[h].req \in contended
  /\ \A h \in Handlers, i \in Instances :
       handler[h] # Idle /\ batch[i].running
         => handler[h].req \notin TargetsOf(i) \ contended
  /\ \A i, j \in Instances :
       batch[i].running /\ batch[j].running /\ i # j
         => TargetsOf(i) \cap TargetsOf(j) \subseteq contended

(* Hence what was read before a transaction is still so inside it.         *)
HandlerReads(h) ==
  handler[h] # Idle /\ handler[h].req \notin contended =>
    /\ request[handler[h].req] = "PENDING"
    /\ handler[h].op \in Transitions => estimate[Mine(h)] = From(handler[h].op)

BatchReads(i) ==
  batch[i].running =>
    /\ \A r \in batch[i].completedIds \ contended : request[r] = "CONFIRMED"
    /\ \A r \in batch[i].expiredIds \ contended : request[r] = "PENDING"

ReadsHold ==
  /\ \A h \in Handlers : HandlerReads(h)
  /\ \A i \in Instances : BatchReads(i)

CountHolds(h) ==
  \A d \in BOOLEAN :
    Doing(h, InsertOp(d)) /\ handler[h].req \notin contended
      => Cardinality(Offered(handler[h].req, d)) < Limit(d)

CountsHold == \A h \in Handlers : CountHolds(h)

WithinLimits ==
  \A r \in Uncontended, d \in BOOLEAN : Cardinality(Offered(r, d)) <= Limit(d)

Serial == Alone /\ ReadsHold

(* A handler whose request nobody touches still knows what it has read.    *)
LEMMA BesideHandler ==
  ASSUME TypeOK, NEW k \in Handlers, HandlerReads(k), CountHolds(k), handler'[k] = handler[k],
         contended \subseteq contended',
         handler[k] # Idle /\ handler[k].req \notin contended => Untouched(handler[k].req)
  PROVE  HandlerReads(k)' /\ CountHolds(k)'
<1>1. CASE handler[k] = Idle \/ handler[k].req \in contended
  BY <1>1 DEF HandlerReads, CountHolds, Doing
<1>2. CASE handler[k] # Idle /\ handler[k].req \notin contended
  <2>1. \A d \in BOOLEAN : Offered(handler[k].req, d)' = Offered(handler[k].req, d)
    BY <1>2 DEF Untouched, Offered
  <2>2. Mine(k)' = Mine(k) /\ estimate'[Mine(k)] = estimate[Mine(k)]
    BY <1>2, MineIsEstimate DEF Untouched, Mine
  <2>3. HandlerReads(k)'
    BY <1>2, <2>2 DEF HandlerReads, Untouched
  <2>4. CountHolds(k)'
    BY <1>2, <2>1 DEF CountHolds, Doing, InsertOp, Limit
  <2> QED BY <2>3, <2>4
<1> QED BY <1>1, <1>2

(* A batch none of whose targets is touched still knows them.              *)
LEMMA BesideBatch ==
  ASSUME NEW i \in Instances, BatchReads(i), batch'[i] = batch[i],
         contended \subseteq contended',
         batch[i].running => \A r \in TargetsOf(i) \ contended : request'[r] = request[r]
  PROVE  BatchReads(i)'
BY DEF BatchReads, TargetsOf

(* What a handler does keeps the others in ignorance of it.                *)
LEMMA HandlerBesideOthers ==
  ASSUME TypeOK, Serial, CountsHold, NEW h \in Handlers, Write(h)
  PROVE  /\ \A k \in Handlers \ {h} : HandlerReads(k)' /\ CountHolds(k)'
         /\ \A i \in Instances : BatchReads(i)'
<1>1. /\ handler[h] # Idle /\ batch' = batch /\ contended' = contended
      /\ \A k \in Handlers \ {h} : handler'[k] = handler[k]
      /\ \A r \in Requests : r # handler[h].req => Untouched(r)
  BY WriteEnds, WritesAtItsRequest
<1>2. ASSUME NEW k \in Handlers \ {h}
      PROVE  HandlerReads(k)' /\ CountHolds(k)'
  <2>1. handler[k] # Idle /\ handler[k].req \notin contended
          => handler[k].req \in Requests /\ handler[k].req # handler[h].req
    BY <1>1, MineIsEstimate DEF Serial, Alone
  <2>2. HandlerReads(k) /\ CountHolds(k)
    BY DEF Serial, ReadsHold, CountsHold
  <2> QED BY <1>1, <2>1, <2>2, BesideHandler
<1>3. ASSUME NEW i \in Instances
      PROVE  BatchReads(i)'
  <2>1. batch[i].running
          => \A r \in TargetsOf(i) \ contended : r \in Requests /\ r # handler[h].req
    BY <1>1 DEF Serial, Alone, TypeOK, TargetsOf
  <2>2. BatchReads(i)
    BY DEF Serial, ReadsHold
  <2>3. batch[i].running => \A r \in TargetsOf(i) \ contended : request'[r] = request[r]
    BY <1>1, <2>1 DEF Untouched
  <2> QED BY <1>1, <2>2, <2>3, BesideBatch
<1> QED BY <1>2, <1>3

(* A handler that ends, or goes on at its request, leaves all alone.       *)
LEMMA AloneAfterWrite ==
  ASSUME TypeOK, Alone, NEW h \in Handlers, UNCHANGED <<batch, contended>>, handler[h] # Idle,
         \A k \in Handlers \ {h} : handler'[k] = handler[k],
         handler'[h] = Idle \/ handler'[h].req = handler[h].req
  PROVE  Alone'
<1>1. \A k \in Handlers : handler'[k] # Idle => handler[k] # Idle /\ handler'[k].req = handler[k].req
  OBVIOUS
<1>2. \A i \in Instances : TargetsOf(i)' = TargetsOf(i)
  BY DEF TargetsOf
<1> QED BY <1>1, <1>2 DEF Alone

LEMMA EndIsSerial ==
  ASSUME TypeOK, Serial, CountsHold, NEW h \in Handlers, Write(h), Finish(h)
  PROVE  Serial' /\ CountsHold'
<1>1. handler'[h] = Idle
  BY DEF Finish, TypeOK
<1>2. Alone'
  BY <1>1, WriteEnds, WritesAtItsRequest, AloneAfterWrite DEF Serial
<1>3. HandlerReads(h)' /\ CountHolds(h)'
  BY <1>1 DEF HandlerReads, CountHolds, Doing
<1> QED BY <1>2, <1>3, HandlerBesideOthers DEF Serial, ReadsHold, CountsHold

(* A count that passes leaves its reads untouched.                         *)
LEMMA CountIsSerial ==
  ASSUME TypeOK, Serial, CountsHold, NEW h \in Handlers, Write(h), NEW d \in BOOLEAN, NEW op,
         CountFor(h, op, InsertOp(d), d, Limit(d))
  PROVE  Serial' /\ CountsHold'
<1> USE DEF TypeOK
<1>1. CASE Full(handler[h].req, d, Limit(d))
  <2>1. Finish(h)
    BY <1>1 DEF CountFor, Finish
  <2> QED BY <2>1, EndIsSerial
<1>2. CASE ~Full(handler[h].req, d, Limit(d))
  <2>1. /\ handler[h] # Idle
        /\ handler'[h] = [op |-> InsertOp(d), req |-> handler[h].req, mover |-> handler[h].mover]
        /\ UNCHANGED <<request, estimate, isDesignated, batch, contended>>
    BY <1>2 DEF CountFor, Doing
  <2>2. /\ handler'[h].op = InsertOp(d)
        /\ handler'[h].req = handler[h].req
        /\ handler'[h].op \notin Transitions
    BY <2>1 DEF InsertOp, Transitions
  <2>3. Alone'
    BY <2>1, <2>2, WritesAtItsRequest, AloneAfterWrite DEF Serial
  <2>4. HandlerReads(h)'
    BY <2>1, <2>2 DEF Serial, ReadsHold, HandlerReads
  <2>5. Cardinality(Offered(handler[h].req, d)) < Limit(d)
    <3>1. CountOf(handler[h].req, d) = Cardinality(Offered(handler[h].req, d))
      BY DEF CountOf, Offered
    <3> QED BY <1>2, <3>1, Sizes DEF Full
  <2>6. Offered(handler[h].req, d)' = Offered(handler[h].req, d)
    BY <2>1, <2>2 DEF Offered
  <2>7. CountHolds(h)'
    <3> SUFFICES ASSUME NEW c \in BOOLEAN, Doing(h, InsertOp(c))'
                 PROVE  (Cardinality(Offered(handler[h].req, c)) < Limit(c))'
      BY DEF CountHolds
    <3>1. c = d
      BY <2>2 DEF Doing, InsertOp
    <3> QED BY <3>1, <2>5, <2>6 DEF Limit
  <2> QED BY <2>3, <2>4, <2>7, HandlerBesideOthers DEF Serial, ReadsHold, CountsHold
<1> QED BY <1>1, <1>2

(* The one that starts finds nobody at its request, or at its targets.     *)
LEMMA BeginIsSerial ==
  ASSUME TypeOK, Serial, CountsHold, NEW h \in Handlers, NEW r \in Requests,
         NEW m \in Movers, NEW op \in Operations \ {"designate_insert", "general_insert"},
         Begin(h, op, r, m), request[r] = "PENDING",
         op \in Transitions => estimate[<<r, m>>] = From(op)
  PROVE  Serial' /\ CountsHold'
<1> USE DEF TypeOK
<1>1. /\ handler'[h] = [op |-> op, req |-> r, mover |-> m]
      /\ \A k \in Handlers \ {h} : handler'[k] = handler[k]
      /\ UNCHANGED <<request, estimate, isDesignated, priced, batch>>
  BY DEF Begin
<1>2. /\ contended \subseteq contended'
      /\ \A k \in Handlers : handler[k] # Idle => handler[k].req # r \/ r \in contended'
      /\ \A i \in Instances : batch[i].running => r \notin TargetsOf(i) \ contended'
  BY DEF Begin, TakenUp, InHand, TargetsOf
<1>3. \A i \in Instances : TargetsOf(i)' = TargetsOf(i)
  BY <1>1 DEF TargetsOf
<1>4. Alone'
  BY <1>1, <1>2, <1>3 DEF Serial, Alone
<1>5. HandlerReads(h)' /\ CountHolds(h)'
  BY <1>1 DEF HandlerReads, CountHolds, Doing, InsertOp, Mine
<1>6. ASSUME NEW k \in Handlers \ {h} PROVE HandlerReads(k)' /\ CountHolds(k)'
  BY <1>1, <1>2, BesideHandler DEF Untouched, Serial, ReadsHold, CountsHold
<1>7. ASSUME NEW i \in Instances PROVE BatchReads(i)'
  BY <1>1, <1>2, BesideBatch DEF Serial, ReadsHold
<1> QED BY <1>4, <1>5, <1>6, <1>7 DEF Serial, ReadsHold, CountsHold

LEMMA ReadTargetsIsSerial ==
  ASSUME TypeOK, Serial, CountsHold, NEW i \in Instances, ReadTargets(i)
  PROVE  Serial' /\ CountsHold'
<1> USE DEF TypeOK
<1>1. /\ UNCHANGED <<request, estimate, isDesignated, priced, handler>>
      /\ \A j \in Instances \ {i} : batch'[j] = batch[j]
      /\ batch'[i] = [running |-> TRUE,
                      completedIds |-> {r \in Targets : request[r] = "CONFIRMED"},
                      expiredIds |-> {r \in Targets : request[r] # "CONFIRMED"}]
  BY DEF ReadTargets
<1>2. /\ TargetsOf(i)' = Targets
      /\ \A j \in Instances \ {i} : TargetsOf(j)' = TargetsOf(j)
  BY <1>1 DEF TargetsOf
<1>3. /\ contended \subseteq contended'
      /\ \A k \in Handlers : handler[k] # Idle => handler[k].req \notin Targets \ contended'
      /\ \A j \in Instances : batch[j].running => TargetsOf(j) \cap Targets \subseteq contended'
  BY DEF ReadTargets, TakenUp, InHand, TargetsOf
<1>4. Alone'
  <2>1. \A h, k \in Handlers :
          (handler[h] # Idle /\ handler[k] # Idle /\ handler[h].req = handler[k].req)'
            => h = k \/ handler'[h].req \in contended'
    BY <1>1, <1>3 DEF Serial, Alone
  <2>2. \A h \in Handlers, j \in Instances :
          (handler[h] # Idle /\ batch[j].running)'
            => handler'[h].req \notin TargetsOf(j)' \ contended'
    BY <1>1, <1>2, <1>3 DEF Serial, Alone
  <2>3. \A j, k \in Instances :
          (batch[j].running /\ batch[k].running)' /\ j # k
            => TargetsOf(j)' \cap TargetsOf(k)' \subseteq contended'
    BY <1>1, <1>2, <1>3 DEF Serial, Alone
  <2> QED BY <2>1, <2>2, <2>3 DEF Alone
<1>5. BatchReads(i)'
  BY <1>1 DEF BatchReads, Targets, Open
<1>6. ASSUME NEW k \in Handlers PROVE HandlerReads(k)' /\ CountHolds(k)'
  BY <1>1, <1>3, BesideHandler DEF Untouched, Serial, ReadsHold, CountsHold
<1>7. ASSUME NEW j \in Instances \ {i} PROVE BatchReads(j)'
  BY <1>1, <1>3, BesideBatch DEF Serial, ReadsHold
<1> QED BY <1>4, <1>5, <1>6, <1>7 DEF Serial, ReadsHold, CountsHold

(* A batch ends: what it changes are its targets, and nobody is at them.   *)
LEMMA BatchEndIsSerial ==
  ASSUME TypeOK, Serial, CountsHold, NEW i \in Instances, CloseTargets(i) \/ AbortBatch(i)
  PROVE  Serial' /\ CountsHold'
<1> USE DEF TypeOK
<1>1. /\ batch[i].running /\ batch'[i] = Asleep
      /\ UNCHANGED <<handler, isDesignated, contended>>
      /\ \A j \in Instances \ {i} : batch'[j] = batch[j]
  BY DEF CloseTargets, AbortBatch
<1>2. \A r \in Requests : r \notin TargetsOf(i) => Untouched(r)
  BY BatchWritesAtTargets DEF AbortBatch, Untouched
<1>3. /\ \A j \in Instances \ {i} : TargetsOf(j)' = TargetsOf(j)
      /\ ~batch'[i].running
  BY <1>1 DEF TargetsOf, Asleep
<1>4. Alone'
  BY <1>1, <1>3 DEF Serial, Alone
<1>5. ASSUME NEW k \in Handlers PROVE HandlerReads(k)' /\ CountHolds(k)'
  <2>1. handler[k] # Idle /\ handler[k].req \notin contended
          => handler[k].req \in Requests /\ handler[k].req \notin TargetsOf(i)
    BY <1>1, MineIsEstimate DEF Serial, Alone
  <2> QED BY <1>1, <1>2, <2>1, BesideHandler DEF Serial, ReadsHold, CountsHold
<1>6. ASSUME NEW j \in Instances \ {i} PROVE BatchReads(j)'
  <2>1. batch[j].running
          => \A r \in TargetsOf(j) \ contended : r \in Requests /\ r \notin TargetsOf(i)
    BY <1>1 DEF Serial, Alone, TargetsOf
  <2>2. batch[j].running => \A r \in TargetsOf(j) \ contended : request'[r] = request[r]
    BY <1>2, <2>1 DEF Untouched
  <2> QED BY <1>1, <2>2, BesideBatch DEF Serial, ReadsHold
<1>7. BatchReads(i)'
  BY <1>3 DEF BatchReads
<1> QED BY <1>4, <1>5, <1>6, <1>7 DEF Serial, ReadsHold, CountsHold

(* A request that is created was nobody's.                                 *)
LEMMA CreateIsSerial ==
  ASSUME TypeOK, Serial, CountsHold, NEW r \in Requests, CreateEstimateRequest(r)
  PROVE  Serial' /\ CountsHold'
<1> USE DEF TypeOK
<1>1. /\ request[r] = "NONE" /\ UNCHANGED <<handler, batch, estimate, isDesignated, priced, contended>>
      /\ \A q \in Requests \ {r} : request'[q] = request[q]
  BY DEF CreateEstimateRequest
<1>2. Alone'
  BY <1>1 DEF Serial, Alone, TargetsOf
<1>3. ASSUME NEW k \in Handlers PROVE HandlerReads(k)' /\ CountHolds(k)'
  <2>1. HandlerReads(k) /\ CountHolds(k)
    BY DEF Serial, ReadsHold, CountsHold
  <2>2. handler[k] # Idle /\ handler[k].req \notin contended => Untouched(handler[k].req)
    BY <1>1, <2>1, MineIsEstimate DEF HandlerReads, Untouched
  <2> QED BY <1>1, <2>1, <2>2, BesideHandler
<1>4. ASSUME NEW i \in Instances PROVE BatchReads(i)'
  <2>1. BatchReads(i)
    BY DEF Serial, ReadsHold
  <2>2. batch[i].running => \A q \in TargetsOf(i) \ contended : request'[q] = request[q]
    BY <1>1, <2>1 DEF BatchReads, TargetsOf
  <2> QED BY <1>1, <2>1, <2>2, BesideBatch
<1> QED BY <1>2, <1>3, <1>4 DEF Serial, ReadsHold, CountsHold

(* Serial execution stays serial, and what was read and counted stays so.  *)
LEMMA SerialStep ==
  ASSUME TypeOK, Serial, CountsHold, [Next]_vars
  PROVE  Serial' /\ CountsHold'
<1>1. CASE UNCHANGED <<request, estimate, isDesignated, handler, batch, contended>>
  BY <1>1 DEF Serial, Alone, TargetsOf, ReadsHold, HandlerReads, BatchReads,
              CountsHold, CountHolds, Doing, Mine, Offered
<1>2. ASSUME NEW h \in Handlers, NEW r \in Requests, NEW m \in Movers,
             \/ ReadForDesignate(h, r, m)
             \/ ReadForGeneral(h, r, m)
             \/ \E action \in Transitions : ReadForTransition(h, action, r, m)
      PROVE  Serial' /\ CountsHold'
  <2>1. CASE ReadForDesignate(h, r, m)
    BY <2>1, BeginIsSerial DEF ReadForDesignate, Operations, Transitions
  <2>2. CASE ReadForGeneral(h, r, m)
    BY <2>2, BeginIsSerial DEF ReadForGeneral, Answerable, Operations, Transitions
  <2>3. ASSUME NEW action \in Transitions, ReadForTransition(h, action, r, m)
        PROVE  Serial' /\ CountsHold'
    BY <2>3, BeginIsSerial DEF ReadForTransition, Answerable, Operations, Transitions
  <2> QED BY <1>2, <2>1, <2>2, <2>3
<1>3. ASSUME NEW h \in Handlers, Write(h) PROVE Serial' /\ CountsHold'
  <2>1. CASE CountDesignated(h)
    BY <1>3, <2>1, CountIsSerial DEF CountDesignated, InsertOp, Limit
  <2>2. CASE CountGeneral(h)
    BY <1>3, <2>2, CountIsSerial DEF CountGeneral, InsertOp, Limit
  <2>3. CASE Finish(h)
    BY <1>3, <2>3, EndIsSerial
  <2> QED BY <1>3, <2>1, <2>2, <2>3, WriteEnds
<1> QED
  BY <1>1, <1>2, <1>3, CreateIsSerial, ReadTargetsIsSerial, BatchEndIsSerial
     DEF Next, vars, MoveDayPasses

-----------------------------------------------------------------------------
(* What is settled at one request.                                         *)
Decided(r) ==
  /\ request[r] \in {"CONFIRMED", "COMPLETED"} => \E m \in Movers : Accepted(r) = {m}
  /\ request[r] \notin {"CONFIRMED", "COMPLETED"} => Accepted(r) = {}

NoneWaits(r) ==
  \A m \in Movers : estimate[<<r, m>>] = "PROPOSED" => request[r] = "PENDING"

Linked(r) == active[OwnerOf[r]] = r <=> request[r] \in Open

SettledAt(r) == Decided(r) /\ NoneWaits(r) /\ Linked(r)
Settled == \A r \in Uncontended : SettledAt(r)

LEMMA SettledMeans ==
  Settled => OneAcceptedIffConfirmed /\ NoProposalOutlivesRequest /\ LinkedIffOpen
BY DEF Settled, SettledAt, Decided, NoneWaits, Linked, OneAcceptedIffConfirmed,
       NoProposalOutlivesRequest, LinkedIffOpen, Uncontended, Estimates

(* A request whose rows and link a step leaves alone stays settled.        *)
LEMMA BesideRequest ==
  ASSUME NEW r \in Requests, Untouched(r),
         active'[OwnerOf[r]] = r <=> active[OwnerOf[r]] = r
  PROVE  Accepted(r)' = Accepted(r) /\ (SettledAt(r) => SettledAt(r)')
BY DEF Untouched, SettledAt, Decided, NoneWaits, Linked, Accepted

(* The effect of a handler on an uncontended request it has in hand: the   *)
(* winner is found, or nothing is decided.                                 *)
LEMMA ConfirmSettles ==
  ASSUME TypeOK, NEW h \in Handlers, ConfirmAndCloseOthers(h), HandlerReads(h),
         NEW r, r = handler[h].req, r \notin contended, SettledAt(r)
  PROVE  /\ SettledAt(r)'
         /\ request[r] = "PENDING" /\ Accepted(r)' = {handler[h].mover}
<1> USE DEF TypeOK
<1>1. /\ handler[h] # Idle /\ r \in Requests /\ handler[h].mover \in Movers
      /\ Mine(h) = <<r, handler[h].mover>>
  BY MineIsEstimate DEF ConfirmAndCloseOthers, Doing
<1>2. request[r] = "PENDING" /\ Accepted(r) = {}
  BY <1>1 DEF HandlerReads, SettledAt, Decided
<1>3. /\ request'[r] = "CONFIRMED" /\ active' = active
      /\ \A m \in Movers : estimate'[<<r, m>>] =
           IF m = handler[h].mover THEN "ACCEPTED"
           ELSE IF estimate[<<r, m>>] = "PROPOSED" THEN "NOT_SELECTED" ELSE estimate[<<r, m>>]
  BY <1>1 DEF ConfirmAndCloseOthers, Estimates
<1>4. Accepted(r)' = {handler[h].mover}
  BY <1>1, <1>2, <1>3 DEF Accepted
<1>5. Linked(r)'
  BY <1>2, <1>3 DEF SettledAt, Linked, Open
<1> QED BY <1>1, <1>2, <1>3, <1>4, <1>5 DEF SettledAt, Decided, NoneWaits

LEMMA AnswerSettles ==
  ASSUME TypeOK, NEW h \in Handlers, Write(h), ~ConfirmAndCloseOthers(h), HandlerReads(h),
         NEW r, r = handler[h].req, r \notin contended
  PROVE  /\ UNCHANGED <<request, active>> /\ Accepted(r)' = Accepted(r)
         /\ SettledAt(r) => SettledAt(r)'
<1> USE DEF TypeOK
<1>1. /\ handler[h] # Idle /\ r \in Requests /\ handler[h].mover \in Movers
      /\ Mine(h) = <<r, handler[h].mover>> /\ Mine(h) \in Estimates
  BY WriteEnds, MineIsEstimate
<1>2. /\ request[r] = "PENDING"
      /\ handler[h].op \in Transitions => estimate[Mine(h)] = From(handler[h].op)
  BY <1>1 DEF HandlerReads
<1>3. ASSUME UNCHANGED <<request, active>>,
             \A m \in Movers :
               estimate'[<<r, m>>] = "ACCEPTED" <=> estimate[<<r, m>>] = "ACCEPTED"
      PROVE  /\ UNCHANGED <<request, active>> /\ Accepted(r)' = Accepted(r)
             /\ SettledAt(r) => SettledAt(r)'
  BY <1>2, <1>3 DEF Accepted, SettledAt, Decided, NoneWaits, Linked
<1>4. ASSUME NEW s \in {"DESIGNATED", "PROPOSED", "REJECTED"},
             estimate' = [estimate EXCEPT ![Mine(h)] = s],
             estimate[Mine(h)] # "ACCEPTED", UNCHANGED <<request, active>>
      PROVE  \A m \in Movers :
               estimate'[<<r, m>>] = "ACCEPTED" <=> estimate[<<r, m>>] = "ACCEPTED"
  BY <1>1, <1>4 DEF Estimates
<1>5. CASE CountDesignated(h) \/ CountGeneral(h) \/ Abort(h)
  BY <1>5, <1>3 DEF CountDesignated, CountGeneral, CountFor, Abort
<1>6. CASE InsertDesignated(h)
  BY <1>6, <1>3, <1>4 DEF InsertDesignated
<1>7. CASE InsertGeneral(h)
  BY <1>7, <1>3, <1>4 DEF InsertGeneral
<1>8. CASE Propose(h)
  BY <1>8, <1>2, <1>3, <1>4 DEF Propose, Doing, From, Transitions
<1>9. CASE Reject(h)
  BY <1>9, <1>2, <1>3, <1>4 DEF Reject, Doing, From, Transitions
<1> QED BY <1>5, <1>6, <1>7, <1>8, <1>9 DEF Write

(* The effect of a batch on its targets.                                   *)
LEMMA CloseSettles ==
  ASSUME TypeOK, NEW i \in Instances, CloseTargets(i), BatchReads(i),
         NEW r \in TargetsOf(i) \ contended
  PROVE  /\ Accepted(r)' = Accepted(r)
         /\ SettledAt(r) => SettledAt(r)'
         /\ request[r] \in Open
         /\ request'[r] = IF request[r] = "CONFIRMED" THEN "COMPLETED" ELSE "EXPIRED"
<1> USE DEF TypeOK
<1>1. /\ r \in Requests /\ OwnerOf[r] \in Customers /\ r # NoRequest
      /\ OwnerOf[r] \in DOMAIN active
  BY OwnerAssumption, NoRequestAssumption DEF TargetsOf
<1>2. /\ r \in batch[i].completedIds => request[r] = "CONFIRMED"
      /\ r \in batch[i].expiredIds => request[r] = "PENDING"
      /\ r \in batch[i].completedIds \/ r \in batch[i].expiredIds
  BY DEF CloseTargets, BatchReads, TargetsOf
<1>3. /\ request'[r] = IF request[r] = "CONFIRMED" THEN "COMPLETED" ELSE "EXPIRED"
      /\ request[r] \in Open
  BY <1>1, <1>2 DEF CloseTargets, Open
<1>4. \A m \in Movers : estimate'[<<r, m>>] =
        IF request[r] = "PENDING" /\ estimate[<<r, m>>] \in Outstanding
        THEN "EXPIRED" ELSE estimate[<<r, m>>]
  BY <1>1, <1>2 DEF CloseTargets, Estimates
<1>5. Accepted(r)' = Accepted(r)
  BY <1>4 DEF Accepted, Outstanding
<1>6. active'[OwnerOf[r]] # r
  BY <1>1 DEF CloseTargets
<1>7. Decided(r) => Decided(r)'
  BY <1>3, <1>5 DEF Decided, Open
<1>8. NoneWaits(r) => NoneWaits(r)'
  BY <1>3, <1>4 DEF NoneWaits, Outstanding, Open
<1>9. Linked(r)'
  BY <1>3, <1>6 DEF Linked, Open
<1> QED BY <1>3, <1>5, <1>7, <1>8, <1>9 DEF SettledAt

(* What a step does to an uncontended request: it settles it, and awards   *)
(* it, closes it or leaves its status and its winner as they are.          *)
Stays(r) == request'[r] = request[r] /\ Accepted(r)' = Accepted(r)

LEMMA OtherSteps ==
  ASSUME [Next]_vars,
         \A r \in Requests : ~CreateEstimateRequest(r),
         \A h \in Handlers : ~Write(h),
         \A i \in Instances : ~CloseTargets(i)
  PROVE  UNCHANGED <<request, active, estimate, isDesignated, priced>>
<1>1. ASSUME NEW h \in Handlers, NEW r \in Requests, NEW m \in Movers,
             \/ ReadForDesignate(h, r, m)
             \/ ReadForGeneral(h, r, m)
             \/ \E action \in Transitions : ReadForTransition(h, action, r, m)
      PROVE  UNCHANGED <<request, active, estimate, isDesignated, priced>>
  BY <1>1 DEF ReadForDesignate, ReadForGeneral, ReadForTransition, Begin
<1> QED
  BY <1>1 DEF Next, vars, MoveDayPasses, ReadTargets, AbortBatch

LEMMA ContendedGrows == [Next]_vars => contended \subseteq contended'
BY WriteEnds
   DEF Next, vars, CreateEstimateRequest, MoveDayPasses, ReadForDesignate, ReadForGeneral,
       ReadForTransition, Begin, TakenUp, ReadTargets, CloseTargets, AbortBatch

LEMMA WriteSettles ==
  ASSUME TypeOK, ReadsHold, Settled, NEW h \in Handlers, Write(h), NEW r \in Uncontended
  PROVE  /\ SettledAt(r)'
         /\ ~(ConfirmAndCloseOthers(h) /\ r = handler[h].req) => Stays(r)
<1>1. SettledAt(r) /\ HandlerReads(h) /\ r \in Requests /\ r \notin contended
  BY DEF Settled, Uncontended, ReadsHold
<1>2. CASE r # handler[h].req
  <2>1. Untouched(r) /\ active' = active
    BY <1>1, <1>2, WritesAtItsRequest
       DEF Write, CountDesignated, CountGeneral, CountFor, InsertDesignated, InsertGeneral,
           Propose, Reject, ConfirmAndCloseOthers, Abort
  <2> QED BY <1>1, <2>1, BesideRequest DEF Stays, Untouched
<1>3. CASE r = handler[h].req /\ ConfirmAndCloseOthers(h)
  BY <1>1, <1>3, ConfirmSettles
<1>4. CASE r = handler[h].req /\ ~ConfirmAndCloseOthers(h)
  BY <1>1, <1>4, AnswerSettles DEF Stays
<1> QED BY <1>2, <1>3, <1>4

LEMMA BatchSettles ==
  ASSUME TypeOK, ReadsHold, Settled, NEW i \in Instances, CloseTargets(i), NEW r \in Uncontended
  PROVE  /\ SettledAt(r)' /\ Accepted(r)' = Accepted(r)
         /\ r \in TargetsOf(i) => request[r] \in Open
         /\ request'[r] = IF r \notin TargetsOf(i) THEN request[r]
                          ELSE IF request[r] = "CONFIRMED" THEN "COMPLETED" ELSE "EXPIRED"
<1>1. SettledAt(r) /\ BatchReads(i) /\ r \in Requests /\ r \notin contended
  BY DEF Settled, Uncontended, ReadsHold
<1>2. CASE r \in TargetsOf(i)
  BY <1>1, <1>2, CloseSettles
<1>3. CASE r \notin TargetsOf(i)
  <2>1. OwnerOf[r] \in Customers /\ r # NoRequest
    BY <1>1, OwnerAssumption, NoRequestAssumption
  <2>2. active'[OwnerOf[r]] = r <=> active[OwnerOf[r]] = r
    BY <1>3, <2>1 DEF CloseTargets, TypeOK
  <2>3. Untouched(r)
    BY <1>1, <1>3, BatchWritesAtTargets
  <2> QED BY <1>1, <1>3, <2>2, <2>3, BesideRequest DEF Untouched
<1> QED BY <1>2, <1>3

LEMMA CreateSettles ==
  ASSUME TypeOK, Settled, NEW q \in Requests, CreateEstimateRequest(q), NEW r \in Uncontended
  PROVE  /\ SettledAt(r)' /\ Accepted(r)' = Accepted(r)
         /\ r # q => request'[r] = request[r]
<1> USE DEF TypeOK
<1>1. /\ SettledAt(r) /\ r \in Requests
      /\ request' = [request EXCEPT ![q] = "PENDING"]
      /\ active' = [active EXCEPT ![OwnerOf[q]] = q]
      /\ request[q] = "NONE" /\ ~OtherOpen(q)
      /\ UNCHANGED <<estimate, isDesignated, priced>>
      /\ OwnerOf \in [Requests -> Customers]
  BY OwnerAssumption DEF Settled, Uncontended, CreateEstimateRequest
<1>2. Accepted(r)' = Accepted(r)
  BY <1>1 DEF Accepted
<1>3. CASE r = q
  BY <1>1, <1>2, <1>3 DEF SettledAt, Decided, NoneWaits, Linked, Open
<1>4. CASE r # q
  <2>1. active'[OwnerOf[r]] = r <=> active[OwnerOf[r]] = r
    BY <1>1, <1>4 DEF SettledAt, Linked, OtherOpen
  <2> QED BY <1>1, <1>4, <2>1, BesideRequest DEF Untouched
<1> QED BY <1>2, <1>3, <1>4

LEMMA SettledStep ==
  ASSUME TypeOK, ReadsHold, Settled, [Next]_vars
  PROVE  Settled'
<1> SUFFICES ASSUME NEW r \in Uncontended, r \in Requests PROVE SettledAt(r)'
  BY ContendedGrows DEF Settled, Uncontended
<1>2. CASE UNCHANGED <<request, active, estimate, isDesignated, priced>>
  BY <1>2, BesideRequest DEF Untouched, Settled
<1>3. ASSUME NEW h \in Handlers, Write(h) PROVE SettledAt(r)'
  BY <1>3, WriteSettles
<1>4. ASSUME NEW i \in Instances, CloseTargets(i) PROVE SettledAt(r)'
  BY <1>4, BatchSettles
<1>5. ASSUME NEW q \in Requests, CreateEstimateRequest(q) PROVE SettledAt(r)'
  BY <1>5, CreateSettles
<1> QED
  BY <1>2, <1>3, <1>4, <1>5, OtherSteps

-----------------------------------------------------------------------------
SerialInv == TypeOK /\ Serial /\ CountsHold /\ Settled

LEMMA SerialInit == Init => SerialInv
<1> SUFFICES ASSUME Init PROVE SerialInv
  OBVIOUS
<1>1. TypeOK
  BY DEF Init, TypeOK, Asleep, RequestStatus, EstimateStatus
<1>2. Serial /\ CountsHold
  BY DEF Init, Serial, Alone, ReadsHold, HandlerReads, BatchReads, CountsHold, CountHolds,
         Doing, Asleep
<1>3. Settled
  BY OwnerAssumption, NoRequestAssumption
     DEF Init, Settled, SettledAt, Decided, NoneWaits, Linked, Accepted, Estimates, Open,
         Uncontended
<1> QED
  BY <1>1, <1>2, <1>3 DEF SerialInv

LEMMA SerialInvStep == SerialInv /\ [Next]_vars => SerialInv'
BY TypeStep, SerialStep, SettledStep DEF SerialInv, Serial

LEMMA SerialInvariant == Spec => []SerialInv
BY SerialInit, SerialInvStep, PTL DEF Spec

(* However handlers and batches race elsewhere, exactly one estimate is    *)
(* ACCEPTED on an uncontended request that is or was CONFIRMED, and none   *)
(* on any other: at such a request the check of its status before the      *)
(* transaction is enough.                                                  *)
THEOREM OneWinner == Spec => []OneAcceptedIffConfirmed
<1>1. SerialInv => OneAcceptedIffConfirmed
  BY SettledMeans DEF SerialInv
<1> QED
  BY <1>1, SerialInvariant, PTL

(* Confirmation and expiry settle every proposal on an uncontended         *)
(* request, and no later one arrives.                                      *)
THEOREM ProposalsEnd == Spec => []NoProposalOutlivesRequest
<1>1. SerialInv => NoProposalOutlivesRequest
  BY SettledMeans DEF SerialInv
<1> QED
  BY <1>1, SerialInvariant, PTL

(* The profile of a customer links an uncontended request exactly while    *)
(* that request is open, whatever happens to the customer's other ones.    *)
THEOREM LinksAgree == Spec => []LinkedIffOpen
<1>1. SerialInv => LinkedIffOpen
  BY SettledMeans DEF SerialInv
<1> QED
  BY <1>1, SerialInvariant, PTL

-----------------------------------------------------------------------------
(* The limits: at an uncontended request one handler at a time counts and  *)
(* inserts.                                                                *)
LEMMA LimitStep ==
  ASSUME SerialInv, RowsExist, WithinLimits, [Next]_vars
  PROVE  WithinLimits'
<1> SUFFICES ASSUME NEW r \in Uncontended, r \in Requests, r \notin contended,
                    NEW d \in BOOLEAN
             PROVE  (Cardinality(Offered(r, d)) <= Limit(d))'
  BY ContendedGrows DEF WithinLimits, Uncontended
<1> USE DEF SerialInv, TypeOK
<1>1. CASE Offered(r, d)' = Offered(r, d)
  BY <1>1 DEF WithinLimits, Limit
<1>2. CASE UNCHANGED <<estimate, isDesignated>>
  BY <1>2, <1>1 DEF Offered
<1>3. ASSUME NEW h \in Handlers, NEW c \in BOOLEAN, Doing(h, InsertOp(c)),
             \A e \in Estimates :
               e # Mine(h) => /\ estimate'[e] = estimate[e]
                              /\ (e \in isDesignated') = (e \in isDesignated),
             estimate[Mine(h)] # "NONE" => UNCHANGED <<estimate, isDesignated>>,
             estimate[Mine(h)] = "NONE" => (Mine(h) \in isDesignated') = c
      PROVE  (Cardinality(Offered(r, d)) <= Limit(d))'
  <2>1. /\ handler[h].req \in Requests /\ handler[h].mover \in Movers
        /\ Mine(h) \in Estimates /\ Mine(h) = <<handler[h].req, handler[h].mover>>
    BY <1>3, MineIsEstimate DEF Doing
  <2>2. CASE r = handler[h].req /\ d = c
    <3>1. Offered(r, d)' \subseteq Offered(r, d) \cup {handler[h].mover}
      BY <1>3, <2>1, <2>2 DEF Offered, Estimates
    <3>2. Cardinality(Offered(r, d)) < Limit(d)
      BY <1>3, <2>2 DEF CountsHold, CountHolds
    <3>3. /\ IsFiniteSet(Offered(r, d) \cup {handler[h].mover})
          /\ Cardinality(Offered(r, d) \cup {handler[h].mover})
               <= Cardinality(Offered(r, d)) + 1
          /\ Cardinality(Offered(r, d) \cup {handler[h].mover}) \in Nat
      BY Sizes, OneMoreOneLess
    <3>4. /\ Cardinality(Offered(r, d)') \in Nat
          /\ Cardinality(Offered(r, d)')
               <= Cardinality(Offered(r, d) \cup {handler[h].mover})
      BY <3>1, <3>3, FS_Subset, FS_CardinalityType
    <3> QED
      BY <3>2, <3>3, <3>4, Sizes DEF Limit
  <2>3. CASE ~(r = handler[h].req /\ d = c)
    <3>1. CASE estimate[Mine(h)] # "NONE"
      BY <1>3, <1>2, <3>1
    <3>2. CASE estimate[Mine(h)] = "NONE"
      <4>1. Offered(r, d)' = Offered(r, d)
        BY <1>3, <2>1, <2>3, <3>2 DEF Offered, RowsExist, Estimates
      <4> QED
        BY <4>1, <1>1
    <3> QED
      BY <3>1, <3>2
  <2> QED
    BY <2>2, <2>3
<1>4. ASSUME NEW h \in Handlers, Write(h)
      PROVE  (Cardinality(Offered(r, d)) <= Limit(d))'
  <2>1. /\ Mine(h) \in Estimates /\ handler[h] # Idle
        /\ handler[h].op \in Transitions => estimate[Mine(h)] # "NONE"
    BY <1>4, WriteEnds, MineIsEstimate DEF RowsExist
  <2>2. ASSUME \A e \in Estimates : estimate'[e] = "NONE" <=> estimate[e] = "NONE",
               UNCHANGED isDesignated
        PROVE  Offered(r, d)' = Offered(r, d)
    BY <2>2 DEF Offered, Estimates
  <2>3. CASE CountDesignated(h) \/ CountGeneral(h) \/ Abort(h)
    BY <2>3, <1>2 DEF CountDesignated, CountGeneral, CountFor, Abort
  <2>4. CASE InsertDesignated(h)
    <3>1. /\ Doing(h, InsertOp(TRUE))
          /\ estimate[Mine(h)] # "NONE" => UNCHANGED <<estimate, isDesignated>>
          /\ estimate[Mine(h)] = "NONE" => (Mine(h) \in isDesignated') = TRUE
      BY <2>4 DEF InsertDesignated, InsertOp
    <3>2. \A e \in Estimates :
            e # Mine(h) => /\ estimate'[e] = estimate[e]
                           /\ (e \in isDesignated') = (e \in isDesignated)
      BY <2>4 DEF InsertDesignated
    <3> QED
      BY <1>3, <3>1, <3>2
  <2>5. CASE InsertGeneral(h)
    <3>1. /\ Doing(h, InsertOp(FALSE))
          /\ estimate[Mine(h)] # "NONE" => UNCHANGED <<estimate, isDesignated>>
          /\ isDesignated' = isDesignated
      BY <2>5 DEF InsertGeneral, InsertOp
    <3>2. estimate[Mine(h)] = "NONE" => (Mine(h) \in isDesignated') = FALSE
      BY <3>1 DEF RowsExist
    <3>3. \A e \in Estimates : e # Mine(h) => estimate'[e] = estimate[e]
      BY <2>5 DEF InsertGeneral
    <3> QED
      BY <1>3, <3>1, <3>2, <3>3
  <2>6. CASE Propose(h)
    BY <2>6, <2>1, <2>2, <1>1 DEF Propose, Doing, Transitions
  <2>7. CASE Reject(h)
    BY <2>7, <2>1, <2>2, <1>1 DEF Reject, Doing, Transitions
  <2>8. CASE ConfirmAndCloseOthers(h)
    <3>1. \A e \in Estimates : estimate'[e] = "NONE" <=> estimate[e] = "NONE"
      BY <2>8, <2>1 DEF ConfirmAndCloseOthers, Doing, Transitions
    <3> QED
      BY <2>8, <3>1, <2>2, <1>1 DEF ConfirmAndCloseOthers
  <2> QED
    BY <1>4, <2>3, <2>4, <2>5, <2>6, <2>7, <2>8 DEF Write
<1>5. ASSUME NEW i \in Instances, CloseTargets(i)
      PROVE  (Cardinality(Offered(r, d)) <= Limit(d))'
  <2>1. Offered(r, d)' = Offered(r, d)
    BY <1>5 DEF CloseTargets, Offered, Outstanding, Estimates
  <2> QED
    BY <2>1, <1>1
<1>6. ASSUME NEW h \in Handlers, NEW q \in Requests, NEW m \in Movers,
             \/ ReadForDesignate(h, q, m)
             \/ ReadForGeneral(h, q, m)
             \/ \E action \in Transitions : ReadForTransition(h, action, q, m)
      PROVE  UNCHANGED <<estimate, isDesignated>>
  BY <1>6 DEF ReadForDesignate, ReadForGeneral, ReadForTransition, Begin
<1> QED
  BY <1>2, <1>4, <1>5, <1>6
     DEF Next, vars, CreateEstimateRequest, MoveDayPasses, ReadTargets, AbortBatch

(* On an uncontended request the advertised limits on open and on          *)
(* designated estimates are never exceeded: the count and the insert are   *)
(* two statements, and nothing is inserted between them.                   *)
THEOREM LimitsKept == Spec => []LimitsHold
<1> DEFINE Inv == SerialInv /\ RowsExist /\ WithinLimits
<1>1. Init => Inv
  <2> SUFFICES ASSUME Init PROVE RowsExist /\ WithinLimits
    BY SerialInit
  <2>1. RowsExist
    BY DEF Init, RowsExist
  <2>2. ASSUME NEW r \in Uncontended, NEW d \in BOOLEAN
        PROVE  Cardinality(Offered(r, d)) <= Limit(d)
    <3>1. Offered(r, d) = {}
      BY DEF Init, Offered, Estimates, Uncontended
    <3> QED
      BY <3>1, FS_EmptySet, LimitAssumption DEF Limit
  <2> QED
    BY <2>1, <2>2 DEF WithinLimits
<1>2. Inv /\ [Next]_vars => Inv'
  BY SerialInvStep, RowsExistStep, LimitStep DEF SerialInv
<1>3. Inv => LimitsHold
  <2> SUFFICES ASSUME Inv, NEW r \in Uncontended
               PROVE  /\ CountOf(r, FALSE) <= GENERAL_LIMIT
                      /\ CountOf(r, TRUE) <= DESIGNATED_LIMIT
    BY DEF LimitsHold
  <2>1. /\ CountOf(r, TRUE) = Cardinality(Offered(r, TRUE))
        /\ CountOf(r, FALSE) = Cardinality(Offered(r, FALSE))
    BY DEF CountOf, Offered
  <2> QED
    BY <2>1 DEF WithinLimits, Limit
<1> QED
  BY <1>1, <1>2, <1>3, PTL DEF Spec

-----------------------------------------------------------------------------
(* The transitions.                                                        *)
LEMMA WriteFollowsRules ==
  ASSUME SerialInv, RowsExist, NEW h \in Handlers, Write(h), NEW e \in Estimates,
         e[1] \in Uncontended
  PROVE  FollowsRules(e)
<1> USE DEF SerialInv, TypeOK
<1>1. Mine(h) \in Estimates /\ handler[h] # Idle /\ Mine(h)[1] = handler[h].req
  BY WriteEnds, MineIsEstimate
<1>2. e = Mine(h) /\ handler[h].op \in Transitions => estimate[e] = From(handler[h].op)
  BY <1>1 DEF Serial, ReadsHold, HandlerReads, Uncontended
<1>3. CASE CountDesignated(h) \/ CountGeneral(h) \/ Abort(h)
  BY <1>3 DEF CountDesignated, CountGeneral, CountFor, Abort, FollowsRules
<1>4. CASE InsertDesignated(h)
  BY <1>1, <1>4 DEF InsertDesignated, FollowsRules, Transitions
<1>5. CASE InsertGeneral(h)
  BY <1>1, <1>5 DEF InsertGeneral, FollowsRules, RowsExist
<1>6. CASE Propose(h)
  BY <1>1, <1>2, <1>6 DEF Propose, Doing, FollowsRules, Transitions
<1>7. CASE Reject(h)
  BY <1>1, <1>2, <1>7 DEF Reject, Doing, FollowsRules, Transitions
<1>8. CASE ConfirmAndCloseOthers(h)
  <2>1. estimate'[e] = IF e = Mine(h) THEN "ACCEPTED"
                       ELSE IF e[1] = handler[h].req /\ estimate[e] = "PROPOSED"
                       THEN "NOT_SELECTED" ELSE estimate[e]
    BY <1>8 DEF ConfirmAndCloseOthers
  <2> QED BY <1>2, <1>8, <2>1 DEF ConfirmAndCloseOthers, Doing, FollowsRules, Transitions
<1> QED BY <1>3, <1>4, <1>5, <1>6, <1>7, <1>8 DEF Write

(* On an uncontended request an estimate becomes PROPOSED, REJECTED or     *)
(* ACCEPTED only from the status TRANSITION_RULES names, or as a new row:  *)
(* what was checked before the transaction is what the write by id         *)
(* overwrites.                                                             *)
THEOREM RulesFollowed == Spec => RulesUnlessContended
<1> DEFINE Inv == SerialInv /\ RowsExist
<1>1. Init => Inv
  BY SerialInit DEF Init, RowsExist
<1>2. Inv /\ [Next]_vars => Inv'
  BY SerialInvStep, RowsExistStep DEF SerialInv
<1>3. Inv /\ [Next]_vars
        => [\A e \in Estimates : e[1] \in Uncontended => FollowsRules(e)]_estimate
  <2> SUFFICES ASSUME Inv, [Next]_vars, NEW e \in Estimates, e[1] \in Uncontended,
                      estimate' # estimate
               PROVE  FollowsRules(e)
    OBVIOUS
  <2>1. ASSUME NEW h \in Handlers, Write(h) PROVE FollowsRules(e)
    BY <2>1, WriteFollowsRules
  <2>2. ASSUME NEW i \in Instances, CloseTargets(i) PROVE FollowsRules(e)
    BY <2>2 DEF CloseTargets, FollowsRules, Transitions
  <2>3. ASSUME NEW h \in Handlers, NEW r \in Requests, NEW m \in Movers,
               \/ ReadForDesignate(h, r, m)
               \/ ReadForGeneral(h, r, m)
               \/ \E action \in Transitions : ReadForTransition(h, action, r, m)
        PROVE  UNCHANGED estimate
    BY <2>3 DEF ReadForDesignate, ReadForGeneral, ReadForTransition, Begin
  <2> QED
    BY <2>1, <2>2, <2>3
       DEF Next, vars, CreateEstimateRequest, MoveDayPasses, ReadTargets, AbortBatch
<1> QED
  BY <1>1, <1>2, <1>3, PTL DEF Spec, RulesUnlessContended

-----------------------------------------------------------------------------
(* The refinement.  One open request of a customer at a time, which the    *)
(* unique index guards at both writes that open one.                       *)
OneOpen ==
  \A q, r \in Requests :
    OwnerOf[q] = OwnerOf[r] /\ request[q] \in Open /\ request[r] \in Open => q = r

LEMMA LifecycleLive ==
  /\ \A r : Lifecycle!IsLive(r) <=> request[r] \in Open
  /\ Lifecycle!OneLive <=> OneOpen
  /\ Lifecycle!OneLive' <=> OneOpen'
BY DEF Lifecycle!IsLive, Lifecycle!OneLive, Open, OneOpen

LEMMA OneOpenStep ==
  ASSUME TypeOK, OneOpen, [Next]_vars
  PROVE  OneOpen'
<1>1. ASSUME NEW p \in Requests, ~OtherOpen(p), NEW s \in Open,
             request' = [request EXCEPT ![p] = s]
      PROVE  OneOpen'
  BY <1>1 DEF OtherOpen, OneOpen, TypeOK
<1>2. ASSUME NEW p \in Requests, CreateEstimateRequest(p) PROVE OneOpen'
  BY <1>1, <1>2 DEF CreateEstimateRequest, Open
<1>3. ASSUME NEW h \in Handlers, ConfirmAndCloseOthers(h) PROVE OneOpen'
  <2>1. handler[h].req \in Requests
    BY <1>3, MineIsEstimate DEF ConfirmAndCloseOthers, Doing
  <2> QED BY <1>1, <1>3, <2>1 DEF ConfirmAndCloseOthers, Open
<1>4. ASSUME NEW i \in Instances, CloseTargets(i) PROVE OneOpen'
  <2>1. \A r \in Requests : request'[r] \in Open => request'[r] = request[r]
    BY <1>4 DEF CloseTargets, Open
  <2> QED BY <2>1 DEF OneOpen
<1>5. request' = request => OneOpen'
  BY DEF OneOpen
<1>6. ASSUME NEW h \in Handlers, Write(h), ~ConfirmAndCloseOthers(h) PROVE OneOpen'
  BY <1>5, <1>6 DEF Write, CountDesignated, CountGeneral, CountFor, InsertDesignated,
     InsertGeneral, Propose, Reject, Abort
<1> QED
  BY <1>2, <1>3, <1>4, <1>5, <1>6, OtherSteps

Chosen(S) == CHOOSE m \in Movers : m \in S

LEMMA WinnerIsChosen ==
  /\ Winner = [r \in Requests |->
                 IF Accepted(r) = {} THEN NoRequest ELSE Chosen(Accepted(r))]
  /\ Winner' = [r \in Requests |->
                  IF Accepted(r)' = {} THEN NoRequest ELSE Chosen(Accepted(r)')]
BY DEF Winner, Chosen

(* Where the uncontended requests stay as they are, anything may happen at *)
(* the contended ones.                                                     *)
LEMMA OthersMayChange ==
  ASSUME [Next]_vars, \A r \in Uncontended : Stays(r), Lifecycle!OneLive'
  PROVE  Lifecycle!Next
<1>1. \A r \in Requests \ contended : request'[r] = request[r] /\ Winner'[r] = Winner[r]
  BY WinnerIsChosen DEF Uncontended, Stays
<1>2. Lifecycle!Close({})
  BY <1>1, ContendedGrows DEF Lifecycle!Close
<1> QED
  BY <1>2 DEF Lifecycle!Next

LEMMA ConfirmAwards ==
  ASSUME SerialInv, NEW h \in Handlers, ConfirmAndCloseOthers(h),
         handler[h].req \notin contended, Lifecycle!OneLive'
  PROVE  Lifecycle!Next
<1> USE DEF SerialInv, TypeOK
<1>1. PICK q \in Uncontended, m \in Movers :
        q = handler[h].req /\ m = handler[h].mover /\ handler[h] # Idle
  BY MineIsEstimate DEF ConfirmAndCloseOthers, Doing, Uncontended
<1>2. q \in Requests /\ q \notin contended /\ Write(h) /\ HandlerReads(h) /\ SettledAt(q)
  BY <1>1 DEF Uncontended, Write, Serial, ReadsHold, Settled
<1>3. request[q] = "PENDING" /\ Accepted(q)' = {m}
  BY <1>1, <1>2, ConfirmSettles
<1>4. \A r \in Requests \ {q} : Accepted(r)' = Accepted(r)
  BY <1>1, <1>2, WritesAtItsRequest DEF Untouched, Accepted
<1>5. Winner' = [Winner EXCEPT ![q] = m]
  <2>1. Chosen({m}) = m
    BY DEF Chosen
  <2>2. \A r \in Requests : Winner'[r] = IF r = q THEN m ELSE Winner[r]
    BY <1>2, <1>3, <1>4, <2>1, WinnerIsChosen
  <2> QED
    BY <2>2, WinnerIsChosen
<1>6. Lifecycle!Award(q, m)
  BY <1>1, <1>2, <1>3, <1>5 DEF Lifecycle!Award, ConfirmAndCloseOthers
<1> QED
  BY <1>1, <1>2, <1>6 DEF Lifecycle!Next

LEMMA CloseCloses ==
  ASSUME SerialInv, NEW i \in Instances, CloseTargets(i), Lifecycle!OneLive'
  PROVE  Lifecycle!Next
<1> DEFINE S == TargetsOf(i) \ contended
<1>1. S \in SUBSET Requests
  BY DEF TargetsOf, SerialInv, TypeOK
<1>2. \A r \in Requests \ contended :
        /\ Accepted(r)' = Accepted(r)
        /\ r \in S => request[r] \in Open
        /\ request'[r] = IF r \notin S THEN request[r]
                         ELSE IF request[r] = "CONFIRMED" THEN "COMPLETED" ELSE "EXPIRED"
  BY BatchSettles DEF SerialInv, Serial, Uncontended
<1>3. \A r \in Requests \ contended : Winner'[r] = Winner[r]
  BY <1>2, WinnerIsChosen
<1>4. Lifecycle!Close(S)
  BY <1>1, <1>2, <1>3, LifecycleLive DEF Lifecycle!Close, CloseTargets
<1> QED
  BY <1>1, <1>4 DEF Lifecycle!Next

LEMMA LifecycleStep ==
  ASSUME SerialInv, Lifecycle!OneLive, [Next]_vars
  PROVE  Lifecycle!Next /\ Lifecycle!OneLive'
<1>1. Lifecycle!OneLive'
  BY OneOpenStep, LifecycleLive DEF SerialInv
<1> USE DEF SerialInv, Serial
<1>2. ASSUME NEW q \in Requests, CreateEstimateRequest(q) PROVE Lifecycle!Next
  <2>1. Winner' = Winner
    BY <1>2, WinnerIsChosen DEF CreateEstimateRequest, Accepted
  <2>2. Lifecycle!OpenRequest(q)
    BY <1>2, <2>1 DEF CreateEstimateRequest, Lifecycle!OpenRequest
  <2> QED
    BY <1>1, <2>2 DEF Lifecycle!Next
<1>3. ASSUME NEW h \in Handlers, Write(h) PROVE Lifecycle!Next
  <2>1. CASE ConfirmAndCloseOthers(h) /\ handler[h].req \notin contended
    BY <1>1, <2>1, ConfirmAwards
  <2>2. CASE ~(ConfirmAndCloseOthers(h) /\ handler[h].req \notin contended)
    <3>1. \A r \in Uncontended : Stays(r)
      BY <1>3, <2>2, WriteSettles DEF Uncontended
    <3> QED BY <1>1, <3>1, OthersMayChange
  <2> QED BY <2>1, <2>2
<1>4. CASE UNCHANGED <<request, active, estimate, isDesignated, priced>>
  <2>1. \A r \in Uncontended : Stays(r)
    BY <1>4 DEF Stays, Accepted
  <2> QED BY <1>1, <2>1, OthersMayChange
<1> QED
  BY <1>1, <1>2, <1>3, <1>4, CloseCloses, OtherSteps

(* The service implements the life cycle it promises, as long as no two    *)
(* handlers or batches have a request in hand at once: such a request is   *)
(* awarded once, to one mover, while it is pending, and the batch ends it  *)
(* completed if it was awarded and expired if it was not, whatever the     *)
(* races at other requests do; and no race opens a second request of a     *)
(* customer.                                                               *)
THEOREM Implements == Spec => ImplementsLifecycle
<1>1. Init => Lifecycle!Init /\ Lifecycle!OneLive
  <2> SUFFICES ASSUME Init PROVE Lifecycle!Init /\ Lifecycle!OneLive
    OBVIOUS
  <2>1. \A r \in Requests : Accepted(r) = {}
    BY DEF Init, Accepted, Estimates
  <2>2. Winner = [r \in Requests |-> NoRequest]
    BY <2>1 DEF Winner
  <2>3. Lifecycle!OneLive
    BY LifecycleLive DEF Init, Open, OneOpen
  <2> QED
    BY <2>2, <2>3 DEF Init, Lifecycle!Init
<1>2. SerialInv /\ Lifecycle!OneLive /\ [Next]_vars
        => [Lifecycle!Next]_(Lifecycle!lifecycle) /\ Lifecycle!OneLive'
  BY LifecycleStep
<1> QED
  BY <1>1, <1>2, SerialInvariant, PTL DEF Spec, ImplementsLifecycle, Lifecycle!Spec
=============================================================================
