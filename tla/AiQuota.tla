------------------------------- MODULE AiQuota -------------------------------
(***************************************************************************)
(* The daily limit of one user's AI requests: the limiter counts a request *)
(* when it comes, in Redis or, when Redis does not answer, in the memory   *)
(* of the server, and gives the count back when the request fails or is    *)
(* refused, in whichever of the two answers by then.                       *)
(*                                                                         *)
(* used, earlier, restarts and faults are history: only the guards of the  *)
(* bounds read them.  A fault of a store is what the surroundings did, not *)
(* what became of the counts: Redis counts, or takes off, and its answer   *)
(* is lost; the store that answers when a count is given back is not the   *)
(* one that took it; the server ends under a request.                      *)
(*                                                                         *)
(* OneMore and GiveBackInMemory are plausible bugs; nothing uses them.     *)
(***************************************************************************)
EXTENDS Integers, FiniteSets

CONSTANTS
  Searches,     \* AI requests in flight at once
  dailyLimit,
  MaxFaults,    \* bound
  MaxRestarts   \* bound

ASSUME QuotaAssumption == dailyLimit \in Nat /\ IsFiniteSet(Searches)

VARIABLES
  count,        \* the user's count of today in each store
  counted,      \* Redis has a key for it
  search,       \* where each request in flight was counted, and how it stands
  used,         \* requests answered today, by where they were counted,
  earlier,      \* and those counted in the memory of a server since restarted
  restarts,     \* restarts of the server today
  faults        \* by the store whose count they concern

history == <<earlier, restarts, faults>>
aiVars == <<count, counted, search, used, history>>

Stores == {"redis", "memory"}
None == [state |-> "none"]
Pending == [state : {"served", "failed"}, store : Stores]

AiTypeOK ==
  /\ count \in [Stores -> Int] /\ counted \in BOOLEAN
  /\ search \in [Searches -> Pending \cup {None}]
  /\ used \in [Stores -> Nat] /\ earlier \in Nat /\ restarts \in Nat
  /\ faults \in [Stores -> Nat]

AiInit ==
  /\ count = [s \in Stores |-> 0] /\ counted = FALSE
  /\ search = [q \in Searches |-> None]
  /\ used = [s \in Stores |-> 0] /\ faults = used
  /\ earlier = 0 /\ restarts = 0

Faulty(S) == faults' = [s \in Stores |-> faults[s] + (IF s \in S THEN 1 ELSE 0)]

MayFail == faults["redis"] + faults["memory"] < MaxFaults

-----------------------------------------------------------------------------
OneMore(n) == n <= dailyLimit + 1

WithinLimit(n) == n <= dailyLimit

(* increment.  A request over the limit is answered 429: it fails.  Redis  *)
(* may have counted although its answer is lost; the memory counts then.   *)
Counted(q, s) ==
  search' = [search EXCEPT ![q] =
    [state |-> IF WithinLimit(count'[s]) THEN "served" ELSE "failed", store |-> s]]

Count(q) ==
  /\ search[q] = None
  /\ \/ \E s \in Stores :
          /\ count' = [count EXCEPT ![s] = @ + 1]
          /\ counted' = (counted \/ s = "redis")
          /\ Counted(q, s)
          /\ UNCHANGED faults
     \/ /\ MayFail /\ Faulty({"redis"})
        /\ count' = [s \in Stores |-> count[s] + 1]
        /\ counted' = TRUE
        /\ Counted(q, "memory")
  /\ UNCHANGED <<used, earlier, restarts>>

Serve(q) ==
  /\ search[q] # None /\ search[q].state = "served"
  /\ used' = [used EXCEPT ![search[q].store] = @ + 1]
  /\ search' = [search EXCEPT ![q] = None]
  /\ UNCHANGED <<count, counted, history>>

(* Gemini fails, or the client goes away.                                  *)
Fail(q) ==
  /\ search[q] # None /\ search[q].state = "served"
  /\ search' = [search EXCEPT ![q].state = "failed"]
  /\ UNCHANGED <<count, counted, used, history>>

(* decrement.  Redis takes one off a key it has, be it zero; the memory    *)
(* stops at zero.                                                          *)
HasCount(s) == IF s = "redis" THEN counted ELSE count[s] > 0

TakeOff(S) == count' = [s \in Stores |-> count[s] - (IF s \in S /\ HasCount(s) THEN 1 ELSE 0)]

GiveBackInMemory(q) ==
  /\ search[q] # None /\ search[q].state = "failed"
  /\ TakeOff({"memory"})
  /\ search' = [search EXCEPT ![q] = None]
  /\ UNCHANGED <<counted, used, history>>

(* In Redis, or in the memory, or in both if the answer of Redis is lost.  *)
GiveBack(q) ==
  LET own == search[q].store IN
  /\ search[q] # None /\ search[q].state = "failed"
  /\ search' = [search EXCEPT ![q] = None]
  /\ \E S \in {{"redis"}, {"memory"}, Stores} :
       /\ S = {own} \/ MayFail
       /\ TakeOff(S)
       /\ Faulty((S \ {own}) \cup ({own} \ S))
  /\ UNCHANGED <<counted, used, earlier, restarts>>

Charged(s) == {q \in Searches : search[q] # None /\ search[q].store = s}

(* The server ends and is started again: its memory starts at zero, and    *)
(* the requests in flight are neither answered nor given back.             *)
Restart ==
  /\ restarts < MaxRestarts
  /\ restarts' = restarts + 1
  /\ count' = [count EXCEPT !["memory"] = 0]
  /\ earlier' = earlier + used["memory"]
  /\ used' = [used EXCEPT !["memory"] = 0]
  /\ faults' = [faults EXCEPT !["redis"] = @ + Cardinality(Charged("redis"))]
  /\ search' = [q \in Searches |-> None]
  /\ UNCHANGED counted

AiNext ==
  \/ \E q \in Searches :
       \/ Count(q)
       \/ Serve(q)
       \/ Fail(q)
       \/ GiveBack(q)
  \/ Restart

AiSpec == AiInit /\ [][AiNext]_aiVars

-----------------------------------------------------------------------------
(* A request that fails costs the user nothing, however requests, outages  *)
(* of Redis and restarts overlap: no store has counted more than the       *)
(* requests that it answered or has in flight, but for at most one for     *)
(* each fault.  (The code promises it without the exception.)              *)
FailuresAreFree ==
  \A s \in Stores : count[s] <= used[s] + Cardinality(Charged(s)) + faults[s]

Served(s) == Cardinality({q \in Charged(s) : search[q].state = "served"})

(* The requests answered in a day, with those about to be: the limit from  *)
(* Redis, the limit once more from the memory, and again from the memory   *)
(* after every restart; and at most one for each fault.                    *)
QuotaHolds ==
  /\ used["redis"] + Served("redis") <= dailyLimit + faults["redis"]
  /\ earlier + used["memory"] + Served("memory")
       <= dailyLimit * (1 + restarts) + faults["memory"]
=============================================================================
