------------------------------ MODULE Matching ------------------------------
(***************************************************************************)
(* The life of an estimate request: a customer opens it, movers answer it  *)
(* with estimates, the customer accepts one, and an hourly batch closes    *)
(* every request whose moving day has passed.                              *)
(*                                                                         *)
(* An HTTP handler reads rows, checks them in memory, and only then opens  *)
(* the transaction that writes.  Nothing is re-checked inside it, so a     *)
(* handler is modelled by its read step and its write step, with the steps *)
(* of the other handlers and of the batch in between.  A transaction that  *)
(* counts before it inserts has one more step, since under READ COMMITTED  *)
(* a count takes no lock.                                                  *)
(*                                                                         *)
(* An estimate is identified by its request and its mover: the table has   *)
(* a unique index on the two.                                              *)
(*                                                                         *)
(* A definition with a plausible bug stands before the one it distorts:    *)
(* OtherPending, AnswerableInAnyStatus, PastFull, FromDesignated,          *)
(* ReadRequestForTransition, PendingTargets, PastTargets, Undecided and    *)
(* ExpiredOf.  Nothing uses them; each shows that a property can fail.     *)
(***************************************************************************)
EXTENDS Integers, FiniteSets

CONSTANTS
  Customers,
  Movers,
  Requests,          \* the identities of the estimate requests ever created
  OwnerOf,           \* OwnerOf[r]: the customer whose request r is
  Handlers,          \* HTTP handlers in flight at once
  Instances,         \* server processes that run the batch
  GENERAL_LIMIT,     \* open estimates per request
  DESIGNATED_LIMIT,  \* designated estimates per request
  NoRequest

ASSUME OwnerAssumption == OwnerOf \in [Requests -> Customers]
ASSUME NoRequestAssumption == NoRequest \notin Requests
ASSUME LimitAssumption ==
  GENERAL_LIMIT \in Nat \ {0} /\ DESIGNATED_LIMIT \in Nat \ {0}
ASSUME FiniteAssumption == IsFiniteSet(Movers) /\ IsFiniteSet(Handlers)

VARIABLES
  request,       \* status of each request, "NONE" before it is created
  past,          \* the created requests whose moveDate lies before now
  active,        \* CustomerProfile.activeEstimateRequestId
  estimate,      \* status of each estimate, "NONE" before it is created
  isDesignated,  \* the estimates created by a designation
  priced,        \* the estimates whose price is not null
  handler,       \* what each handler is about to do
  batch,         \* the targets each running batch has read
  contended      \* history, read by no guard: the requests that two handlers or
                 \* batches have had in hand at once

vars == <<request, past, active, estimate, isDesignated, priced, handler, batch, contended>>

Estimates == Requests \X Movers
RequestStatus == {"NONE", "PENDING", "CONFIRMED", "COMPLETED", "EXPIRED"}
EstimateStatus == {"NONE", "DESIGNATED", "PROPOSED", "REJECTED", "ACCEPTED",
                   "NOT_SELECTED", "EXPIRED"}
Open == {"PENDING", "CONFIRMED"}
Closed == {"COMPLETED", "EXPIRED"}
Transitions == {"PROPOSED", "REJECTED", "ACCEPTED"}
Operations == Transitions \cup {"designate", "designate_insert",
                                "general", "general_insert"}

Idle == [op |-> "idle"]
Working == [op : Operations, req : Requests, mover : Movers]
Asleep == [running |-> FALSE, completedIds |-> {}, expiredIds |-> {}]

TypeOK ==
  /\ request \in [Requests -> RequestStatus]
  /\ past \in SUBSET Requests
  /\ active \in [Customers -> Requests \cup {NoRequest}]
  /\ estimate \in [Estimates -> EstimateStatus]
  /\ isDesignated \in SUBSET Estimates
  /\ priced \in SUBSET Estimates
  /\ handler \in [Handlers -> Working \cup {Idle}]
  /\ batch \in [Instances -> [running : BOOLEAN,
                              completedIds : SUBSET Requests,
                              expiredIds : SUBSET Requests]]
  /\ contended \in SUBSET Requests

Init ==
  /\ request = [r \in Requests |-> "NONE"]
  /\ past = {}
  /\ active = [c \in Customers |-> NoRequest]
  /\ estimate = [e \in Estimates |-> "NONE"]
  /\ isDesignated = {}
  /\ priced = {}
  /\ handler = [h \in Handlers |-> Idle]
  /\ batch = [i \in Instances |-> Asleep]
  /\ contended = {}

-----------------------------------------------------------------------------
(* The partial unique index: one open request per customer.                *)
OtherPending(r) ==
  \E q \in Requests \ {r} : OwnerOf[q] = OwnerOf[r] /\ request[q] = "PENDING"

OtherOpen(r) ==
  \E q \in Requests \ {r} : OwnerOf[q] = OwnerOf[r] /\ request[q] \in Open

(* A handler or a batch has read r and not yet written.                    *)
InHand(r) ==
  \/ \E h \in Handlers : handler[h] # Idle /\ handler[h].req = r
  \/ \E i \in Instances :
       batch[i].running /\ r \in batch[i].completedIds \cup batch[i].expiredIds

TakenUp(S) == contended' = contended \cup {r \in S : InHand(r)}

Begin(h, op, r, m) ==
  /\ handler[h] = Idle
  /\ handler' = [handler EXCEPT ![h] = [op |-> op, req |-> r, mover |-> m]]
  /\ TakenUp({r})
  /\ UNCHANGED <<request, past, active, estimate, isDesignated, priced, batch>>

Finish(h) == handler' = [handler EXCEPT ![h] = Idle]

Doing(h, op) == handler[h] # Idle /\ handler[h].op = op

Mine(h) == <<handler[h].req, handler[h].mover>>

-----------------------------------------------------------------------------
(* The customer opens a request and links it to the profile.  A second     *)
(* open request runs into the unique index and answers 409.                *)
CreateEstimateRequest(r) ==
  /\ request[r] = "NONE"
  /\ ~OtherOpen(r)
  /\ request' = [request EXCEPT ![r] = "PENDING"]
  /\ active' = [active EXCEPT ![OwnerOf[r]] = r]
  /\ UNCHANGED <<past, estimate, isDesignated, priced, handler, batch, contended>>

(* The clock: the moving day of r goes by.                                 *)
MoveDayPasses(r) ==
  /\ request[r] # "NONE"
  /\ r \notin past
  /\ past' = past \cup {r}
  /\ UNCHANGED <<request, active, estimate, isDesignated, priced, handler, batch, contended>>

-----------------------------------------------------------------------------
(* createDesignated: the request must be the customer's open one and still *)
(* PENDING; the moving day is not looked at.                               *)
ReadForDesignate(h, r, m) ==
  /\ request[r] = "PENDING"
  /\ Begin(h, "designate", r, m)

(* The guard common to createEstimate and updateEstimateStatus.            *)
AnswerableInAnyStatus(r) == request[r] # "NONE" /\ r \notin past
Answerable(r) == request[r] = "PENDING" /\ r \notin past

ReadForGeneral(h, r, m) ==
  /\ Answerable(r)
  /\ Begin(h, "general", r, m)

CountOf(r, designated) ==
  Cardinality({m \in Movers : /\ estimate[<<r, m>>] # "NONE"
                              /\ (<<r, m>> \in isDesignated) = designated})

PastFull(r, designated, limit) == CountOf(r, designated) > limit
Full(r, designated, limit) == CountOf(r, designated) >= limit

(* The transaction's count: at the limit the handler answers 409.          *)
CountFor(h, op, insertOp, designated, limit) ==
  /\ Doing(h, op)
  /\ handler' = [handler EXCEPT ![h] =
                   IF Full(handler[h].req, designated, limit)
                   THEN Idle
                   ELSE [op |-> insertOp, req |-> handler[h].req,
                         mover |-> handler[h].mover]]
  /\ UNCHANGED <<request, past, active, estimate, isDesignated, priced, batch, contended>>

CountDesignated(h) ==
  CountFor(h, "designate", "designate_insert", TRUE, DESIGNATED_LIMIT)

CountGeneral(h) ==
  CountFor(h, "general", "general_insert", FALSE, GENERAL_LIMIT)

(* The insert: a mover who already has an estimate on the request runs     *)
(* into the unique index (409) and nothing is written.                     *)
InsertDesignated(h) ==
  /\ Doing(h, "designate_insert")
  /\ \/ /\ estimate[Mine(h)] = "NONE"
        /\ estimate' = [estimate EXCEPT ![Mine(h)] = "DESIGNATED"]
        /\ isDesignated' = isDesignated \cup {Mine(h)}
     \/ /\ estimate[Mine(h)] # "NONE"
        /\ UNCHANGED <<estimate, isDesignated>>
  /\ Finish(h)
  /\ UNCHANGED <<request, past, active, priced, batch, contended>>

InsertGeneral(h) ==
  /\ Doing(h, "general_insert")
  /\ \/ /\ estimate[Mine(h)] = "NONE"
        /\ estimate' = [estimate EXCEPT ![Mine(h)] = "PROPOSED"]
        /\ priced' = priced \cup {Mine(h)}
     \/ /\ estimate[Mine(h)] # "NONE"
        /\ UNCHANGED <<estimate, priced>>
  /\ Finish(h)
  /\ UNCHANGED <<request, past, active, isDesignated, batch, contended>>

-----------------------------------------------------------------------------
(* TRANSITION_RULES: the status an estimate must have before an action.    *)
FromDesignated(action) == "DESIGNATED"
From(action) == IF action = "ACCEPTED" THEN "PROPOSED" ELSE "DESIGNATED"

(* updateEstimateStatus, up to its transaction: the checks are made on the *)
(* row read here and never again.                                          *)
ReadRequestForTransition(h, action, r, m) ==
  /\ Answerable(r)
  /\ estimate[<<r, m>>] # "NONE"
  /\ Begin(h, action, r, m)

ReadForTransition(h, action, r, m) ==
  /\ Answerable(r)
  /\ estimate[<<r, m>>] = From(action)
  /\ Begin(h, action, r, m)

Propose(h) ==
  /\ Doing(h, "PROPOSED")
  /\ estimate' = [estimate EXCEPT ![Mine(h)] = "PROPOSED"]
  /\ priced' = priced \cup {Mine(h)}
  /\ Finish(h)
  /\ UNCHANGED <<request, past, active, isDesignated, batch, contended>>

Reject(h) ==
  /\ Doing(h, "REJECTED")
  /\ estimate' = [estimate EXCEPT ![Mine(h)] = "REJECTED"]
  /\ Finish(h)
  /\ UNCHANGED <<request, past, active, isDesignated, priced, batch, contended>>

(* confirmAndCloseOthers: the chosen estimate, by id alone; the other      *)
(* PROPOSED estimates of the request; the request.                         *)
ConfirmAndCloseOthers(h) ==
  LET r == handler[h].req IN
  /\ Doing(h, "ACCEPTED")
  /\ ~OtherOpen(r)
  /\ estimate' = [e \in Estimates |->
                    IF e = Mine(h) THEN "ACCEPTED"
                    ELSE IF e[1] = r /\ estimate[e] = "PROPOSED"
                    THEN "NOT_SELECTED" ELSE estimate[e]]
  /\ request' = [request EXCEPT ![r] = "CONFIRMED"]
  /\ Finish(h)
  /\ UNCHANGED <<past, active, isDesignated, priced, batch, contended>>

(* A transaction that does not commit: a lost connection, a deadlock       *)
(* victim, a crash of the process, or the unique index refusing to make r  *)
(* open beside a newer request.                                            *)
Abort(h) ==
  /\ handler[h] # Idle
  /\ Finish(h)
  /\ UNCHANGED <<request, past, active, estimate, isDesignated, priced, batch, contended>>

-----------------------------------------------------------------------------
(* closePastEstimateRequests: the targets are read first and sorted by the *)
(* status they had then.                                                   *)
PendingTargets == {r \in past : request[r] = "PENDING"}
PastTargets == past
Targets == {r \in past : request[r] \in Open}

ReadTargets(i) ==
  /\ ~batch[i].running
  /\ Targets # {}
  /\ batch' = [batch EXCEPT ![i] =
                 [running |-> TRUE,
                  completedIds |-> {r \in Targets : request[r] = "CONFIRMED"},
                  expiredIds |-> {r \in Targets : request[r] # "CONFIRMED"}]]
  /\ TakenUp(Targets)
  /\ UNCHANGED <<request, past, active, estimate, isDesignated, priced, handler>>

(* The updates go by id: no status is checked again.  The live estimates   *)
(* of the expired requests expire, and the profiles that pointed to a      *)
(* target are unlinked.                                                    *)
Undecided == {"DESIGNATED"}
Outstanding == {"PROPOSED", "DESIGNATED"}

ExpiredOf(i) == batch[i].expiredIds
TargetsOf(i) == batch[i].completedIds \cup batch[i].expiredIds

CloseTargets(i) ==
  LET completed == batch[i].completedIds
      expired == batch[i].expiredIds
  IN
  /\ batch[i].running
  /\ request' = [r \in Requests |-> IF r \in completed THEN "COMPLETED"
                                    ELSE IF r \in expired THEN "EXPIRED"
                                    ELSE request[r]]
  /\ estimate' = [e \in Estimates |->
                    IF e[1] \in expired /\ estimate[e] \in Outstanding
                    THEN "EXPIRED" ELSE estimate[e]]
  /\ active' = [c \in Customers |-> IF active[c] \in TargetsOf(i)
                                    THEN NoRequest ELSE active[c]]
  /\ batch' = [batch EXCEPT ![i] = Asleep]
  /\ UNCHANGED <<past, isDesignated, priced, handler, contended>>

(* runSafely: a failed batch is logged, and the next hour tries again.     *)
AbortBatch(i) ==
  /\ batch[i].running
  /\ batch' = [batch EXCEPT ![i] = Asleep]
  /\ UNCHANGED <<request, past, active, estimate, isDesignated, priced, handler, contended>>

-----------------------------------------------------------------------------
Write(h) ==
  \/ CountDesignated(h) \/ InsertDesignated(h)
  \/ CountGeneral(h) \/ InsertGeneral(h)
  \/ Propose(h) \/ Reject(h) \/ ConfirmAndCloseOthers(h)
  \/ Abort(h)

Next ==
  \/ \E r \in Requests : CreateEstimateRequest(r) \/ MoveDayPasses(r)
  \/ \E h \in Handlers, r \in Requests, m \in Movers :
       \/ ReadForDesignate(h, r, m)
       \/ ReadForGeneral(h, r, m)
       \/ \E action \in Transitions : ReadForTransition(h, action, r, m)
  \/ \E h \in Handlers : Write(h)
  \/ \E i \in Instances : ReadTargets(i) \/ CloseTargets(i) \/ AbortBatch(i)

Spec == Init /\ [][Next]_vars

(***************************************************************************)
(* Fairness.  A handler that started ends, by its write or by an error.    *)
(* The cron entry keeps firing, and a batch may fail but does not fail     *)
(* every hour for ever.  Nothing is assumed of customers and movers.       *)
(***************************************************************************)
Fairness ==
  /\ \A h \in Handlers : WF_vars(Write(h))
  /\ \A i \in Instances : WF_vars(ReadTargets(i)) /\ SF_vars(CloseTargets(i))

FairSpec == Spec /\ Fairness
=============================================================================
