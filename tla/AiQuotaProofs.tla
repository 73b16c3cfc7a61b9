----------------------------- MODULE AiQuotaProofs -----------------------------
(***************************************************************************)
(* Theorems about AiQuota, for any number of requests in flight, any limit *)
(* and any number of faults and restarts.                                  *)
(***************************************************************************)
EXTENDS AiQuota, FiniteSetTheorems, TLAPS

ServedIn(s) == {q \in Charged(s) : search[q].state = "served"}

(* What the earlier lives of the server were allowed to answer, and what   *)
(* has been answered in all of them.                                       *)
Granted(s) == IF s = "memory" THEN dailyLimit * restarts ELSE 0
Answered(s) == IF s = "memory" THEN earlier + used[s] ELSE used[s]

(* One store at a time.  The limit holds because no store counts too few   *)
(* either: it owes no more than what went wrong.                           *)
Free(s) == count[s] <= used[s] + Cardinality(Charged(s)) + faults[s]
Owed(s) == Answered(s) + Cardinality(Charged(s)) <= Granted(s) + faults[s] + count[s]
Within(s) == Answered(s) + Cardinality(ServedIn(s)) <= Granted(s) + dailyLimit + faults[s]
KeyIsThere == counted \/ (count["redis"] = 0 /\ Charged("redis") = {})

Inv == AiTypeOK /\ KeyIsThere /\ \A s \in Stores : Free(s) /\ Owed(s) /\ Within(s)

-----------------------------------------------------------------------------
(* Two sets of requests that differ in one of them at most.                *)
LEMMA DifferInOne ==
  ASSUME NEW A \in SUBSET Searches, NEW B \in SUBSET Searches, NEW q \in Searches,
         \A p \in Searches \ {q} : p \in A <=> p \in B
  PROVE  /\ Cardinality(A) \in Nat /\ Cardinality(B) \in Nat
         /\ (q \in A <=> q \in B) => Cardinality(B) = Cardinality(A)
         /\ q \in A /\ q \notin B => Cardinality(B) = Cardinality(A) - 1
         /\ q \notin A /\ q \in B => Cardinality(B) = Cardinality(A) + 1
<1>1. IsFiniteSet(A) /\ IsFiniteSet(B) /\ Cardinality(A) \in Nat /\ Cardinality(B) \in Nat
  BY QuotaAssumption, FS_Subset, FS_CardinalityType
<1>2. CASE q \in A <=> q \in B
  <2>1. A = B
    BY <1>2
  <2> QED BY <1>1, <1>2, <2>1
<1>3. CASE q \in A /\ q \notin B
  <2>1. B = A \ {q}
    BY <1>3
  <2> QED BY <1>1, <1>3, <2>1, FS_RemoveElement
<1>4. CASE q \notin A /\ q \in B
  <2>1. B = A \cup {q}
    BY <1>4
  <2> QED BY <1>1, <1>4, <2>1, FS_AddElement
<1> QED BY <1>1, <1>2, <1>3, <1>4

LEMMA Cards ==
  ASSUME NEW s \in Stores
  PROVE  /\ Charged(s) \subseteq Searches /\ ServedIn(s) \subseteq Charged(s)
         /\ IsFiniteSet(Charged(s)) /\ IsFiniteSet(ServedIn(s))
         /\ Cardinality(Charged(s)) \in Nat /\ Cardinality(ServedIn(s)) \in Nat
         /\ Cardinality(ServedIn(s)) <= Cardinality(Charged(s))
<1>1. Charged(s) \subseteq Searches /\ ServedIn(s) \subseteq Charged(s)
  BY DEF Charged, ServedIn
<1>2. IsFiniteSet(Charged(s))
  BY <1>1, QuotaAssumption, FS_Subset
<1> QED BY <1>1, <1>2, FS_Subset, FS_CardinalityType

(* What a step of one request does to the two counts of it.                *)
LEMMA OneSearch ==
  ASSUME NEW q \in Searches, NEW s \in Stores, AiTypeOK,
         \E v : search' = [search EXCEPT ![q] = v]
  PROVE  /\ Cardinality(Charged(s)) \in Nat /\ Cardinality(Charged(s)') \in Nat
         /\ Cardinality(ServedIn(s)) \in Nat /\ Cardinality(ServedIn(s)') \in Nat
         /\ (q \in Charged(s) <=> q \in Charged(s)')
              => Cardinality(Charged(s)') = Cardinality(Charged(s))
         /\ q \in Charged(s) /\ q \notin Charged(s)'
              => Cardinality(Charged(s)') = Cardinality(Charged(s)) - 1
         /\ q \notin Charged(s) /\ q \in Charged(s)'
              => Cardinality(Charged(s)') = Cardinality(Charged(s)) + 1
         /\ (q \in ServedIn(s) <=> q \in ServedIn(s)')
              => Cardinality(ServedIn(s)') = Cardinality(ServedIn(s))
         /\ q \in ServedIn(s) /\ q \notin ServedIn(s)'
              => Cardinality(ServedIn(s)') = Cardinality(ServedIn(s)) - 1
         /\ q \notin ServedIn(s) /\ q \in ServedIn(s)'
              => Cardinality(ServedIn(s)') = Cardinality(ServedIn(s)) + 1
<1> DEFINE A == Charged(s)
           B == Charged(s)'
           C == ServedIn(s)
           D == ServedIn(s)'
<1>1. A \subseteq Searches /\ B \subseteq Searches /\ C \subseteq Searches /\ D \subseteq Searches
  BY DEF Charged, ServedIn
<1>2. \A p \in Searches \ {q} : search'[p] = search[p]
  BY DEF AiTypeOK
<1>3. \A p \in Searches \ {q} : (p \in A <=> p \in B) /\ (p \in C <=> p \in D)
  BY <1>2 DEF Charged, ServedIn
<1> HIDE DEF A, B, C, D
<1>4. /\ Cardinality(A) \in Nat /\ Cardinality(B) \in Nat
      /\ (q \in A <=> q \in B) => Cardinality(B) = Cardinality(A)
      /\ q \in A /\ q \notin B => Cardinality(B) = Cardinality(A) - 1
      /\ q \notin A /\ q \in B => Cardinality(B) = Cardinality(A) + 1
  BY <1>1, <1>3, DifferInOne
<1>5. /\ Cardinality(C) \in Nat /\ Cardinality(D) \in Nat
      /\ (q \in C <=> q \in D) => Cardinality(D) = Cardinality(C)
      /\ q \in C /\ q \notin D => Cardinality(D) = Cardinality(C) - 1
      /\ q \notin C /\ q \in D => Cardinality(D) = Cardinality(C) + 1
  BY <1>1, <1>3, DifferInOne
<1> QED BY <1>4, <1>5 DEF A, B, C, D

LEMMA Products ==
  ASSUME NEW l \in Nat, NEW n \in Nat
  PROVE  /\ l * n \in Nat /\ l * (n + 1) = l * n + l /\ l * (1 + n) = l * n + l
         /\ l * 0 = 0
OBVIOUS

LEMMA TypeStep ==
  ASSUME AiTypeOK, [AiNext]_aiVars
  PROVE  AiTypeOK'
<1> USE DEF history
<1>0. ASSUME NEW S, Faulty(S)
      PROVE  faults' \in [Stores -> Nat]
  BY <1>0 DEF Faulty, AiTypeOK
<1>1. ASSUME NEW q \in Searches, Count(q)
      PROVE  AiTypeOK'
  <2>1. ASSUME NEW s \in Stores, Counted(q, s)
        PROVE  search' \in [Searches -> Pending \cup {None}]
    BY <2>1 DEF Counted, Pending, AiTypeOK
  <2>2. search' \in [Searches -> Pending \cup {None}]
    BY <1>1, <2>1 DEF Count, Stores
  <2>3. count' \in [Stores -> Int]
    <3>1. CASE \E s \in Stores : count' = [count EXCEPT ![s] = @ + 1]
      BY <3>1 DEF AiTypeOK
    <3>2. CASE count' = [s \in Stores |-> count[s] + 1]
      BY <3>2 DEF AiTypeOK
    <3> QED BY <1>1, <3>1, <3>2 DEF Count
  <2>4. faults' \in [Stores -> Nat]
    BY <1>0, <1>1 DEF Count, AiTypeOK
  <2>5. counted' \in BOOLEAN
    BY <1>1 DEF Count, AiTypeOK
  <2> QED BY <1>1, <2>2, <2>3, <2>4, <2>5 DEF Count, AiTypeOK
<1>2. ASSUME NEW q \in Searches, Serve(q) \/ Fail(q)
      PROVE  AiTypeOK'
  <2>1. search[q] \in Pending
    BY <1>2 DEF Serve, Fail, AiTypeOK
  <2>2. used' \in [Stores -> Nat]
    BY <1>2, <2>1 DEF Serve, Fail, Pending, AiTypeOK
  <2>3. [search[q] EXCEPT !.state = "failed"] \in Pending
    BY <2>1 DEF Pending
  <2>4. search' \in [Searches -> Pending \cup {None}]
    BY <1>2, <2>3 DEF Serve, Fail, AiTypeOK
  <2> QED BY <1>2, <2>2, <2>4 DEF Serve, Fail, AiTypeOK
<1>3. ASSUME NEW q \in Searches, GiveBack(q)
      PROVE  AiTypeOK'
  <2>1. count' \in [Stores -> Int]
    BY <1>3 DEF GiveBack, TakeOff, AiTypeOK
  <2>2. faults' \in [Stores -> Nat]
    BY <1>0, <1>3 DEF GiveBack
  <2>3. search' \in [Searches -> Pending \cup {None}]
    BY <1>3 DEF GiveBack, AiTypeOK
  <2> QED BY <1>3, <2>1, <2>2, <2>3 DEF GiveBack, AiTypeOK
<1>4. CASE Restart
  <2>1. Cardinality(Charged("redis")) \in Nat
    BY Cards DEF Stores
  <2>2. "redis" \in Stores /\ "memory" \in Stores
    BY DEF Stores
  <2>3. search' \in [Searches -> Pending \cup {None}]
    BY <1>4 DEF Restart
  <2> QED BY <1>4, <2>1, <2>2, <2>3 DEF Restart, AiTypeOK
<1>5. CASE UNCHANGED aiVars
  BY <1>5 DEF aiVars, AiTypeOK
<1> QED BY <1>1, <1>2, <1>3, <1>4, <1>5 DEF AiNext

-----------------------------------------------------------------------------
LEMMA KeyStep ==
  ASSUME AiTypeOK, KeyIsThere, [AiNext]_aiVars
  PROVE  KeyIsThere'
<1> USE DEF KeyIsThere
<1>1. ASSUME NEW q \in Searches, Count(q)
      PROVE  KeyIsThere'
  <2>1. CASE counted'
    BY <2>1
  <2>2. CASE ~counted'
    <3>1. ~counted /\ count' = [count EXCEPT !["memory"] = @ + 1] /\ Counted(q, "memory")
      BY <1>1, <2>2 DEF Count, Stores
    <3>2. count'["redis"] = count["redis"]
      BY <3>1 DEF AiTypeOK, Stores
    <3>3. search'[q].store = "memory" /\ \A p \in Searches \ {q} : search'[p] = search[p]
      BY <3>1 DEF Counted, AiTypeOK
    <3> QED BY <3>1, <3>2, <3>3 DEF Charged
  <2> QED BY <2>1, <2>2
<1>2. ASSUME NEW q \in Searches, Serve(q) \/ Fail(q)
      PROVE  KeyIsThere'
  <2>1. /\ counted' = counted /\ count' = count
        /\ \A p \in Searches \ {q} : search'[p] = search[p]
        /\ search'[q] # None => search[q] # None /\ search'[q].store = search[q].store
    BY <1>2 DEF Serve, Fail, AiTypeOK, Pending
  <2> QED BY <2>1 DEF Charged
<1>3. ASSUME NEW q \in Searches, GiveBack(q)
      PROVE  KeyIsThere'
  <2>1. /\ counted' = counted
        /\ \A p \in Searches \ {q} : search'[p] = search[p]
        /\ search'[q] = None
    BY <1>3 DEF GiveBack, AiTypeOK
  <2>2. ~counted => count'["redis"] = count["redis"]
    BY <1>3 DEF GiveBack, TakeOff, HasCount, AiTypeOK, Stores
  <2> QED BY <2>1, <2>2 DEF Charged
<1>4. CASE Restart
  BY <1>4 DEF Restart, Charged, AiTypeOK, Stores
<1>5. CASE UNCHANGED aiVars
  BY <1>5 DEF aiVars, Charged
<1> QED BY <1>1, <1>2, <1>3, <1>4, <1>5 DEF AiNext

LEMMA Step ==
  ASSUME Inv, [AiNext]_aiVars
  PROVE  Inv'
<1>1. AiTypeOK /\ AiTypeOK' /\ KeyIsThere'
  BY TypeStep, KeyStep DEF Inv
<1>2. KeyIsThere /\ \A s \in Stores : Free(s) /\ Owed(s) /\ Within(s)
  BY DEF Inv
<1> SUFFICES ASSUME NEW s \in Stores
             PROVE  (Free(s) /\ Owed(s) /\ Within(s))'
  BY <1>1 DEF Inv
<1>3. /\ count[s] \in Int /\ used[s] \in Nat /\ faults[s] \in Nat /\ Answered(s) \in Nat
      /\ count'[s] \in Int /\ used'[s] \in Nat /\ faults'[s] \in Nat /\ Answered(s)' \in Nat
      /\ dailyLimit \in Nat /\ Granted(s) \in Nat /\ Granted(s)' \in Nat
  <2>1. dailyLimit * restarts \in Nat /\ dailyLimit * restarts' \in Nat
    BY <1>1, QuotaAssumption, Products DEF AiTypeOK
  <2>2. Granted(s) \in Nat /\ Granted(s)' \in Nat
    BY <2>1, Zenon DEF Granted
  <2> QED BY <1>1, <2>2, QuotaAssumption DEF AiTypeOK, Answered
<1>4. /\ Cardinality(Charged(s)) \in Nat /\ Cardinality(ServedIn(s)) \in Nat
      /\ Cardinality(ServedIn(s)) <= Cardinality(Charged(s))
  BY Cards
<1> DEFINE c == Cardinality(Charged(s))
           d == Cardinality(Charged(s)')
           e == Cardinality(ServedIn(s))
           f == Cardinality(ServedIn(s)')
           a == Answered(s)
           b == Answered(s)'
           g == Granted(s)
           k == Granted(s)'
<1>5. /\ count[s] <= used[s] + c + faults[s]
      /\ a + c <= g + faults[s] + count[s]
      /\ a + e <= g + dailyLimit + faults[s]
  BY <1>2 DEF Free, Owed, Within
(* It suffices to show the three inequalities in the new state.            *)
<1>6. ASSUME count'[s] <= used'[s] + d + faults'[s],
             b + d <= k + faults'[s] + count'[s],
             b + f <= k + dailyLimit + faults'[s]
      PROVE  (Free(s) /\ Owed(s) /\ Within(s))'
  BY <1>6 DEF Free, Owed, Within
<1>7. f <= d /\ f \in Nat /\ d \in Nat
  <2>1. Charged(s)' \subseteq Searches /\ ServedIn(s)' \subseteq Charged(s)'
    BY DEF Charged, ServedIn
  <2>2. IsFiniteSet(Charged(s)')
    BY <2>1, QuotaAssumption, FS_Subset
  <2> QED BY <2>1, <2>2, FS_Subset, FS_CardinalityType
<1>8. UNCHANGED <<earlier, restarts>> =>
        k = g /\ (used'[s] = used[s] => b = a) /\ (used'[s] = used[s] + 1 => b = a + 1)
  BY <1>1 DEF Answered, Granted, AiTypeOK
<1>a. ASSUME NEW q \in Searches, Count(q)
      PROVE  (Free(s) /\ Owed(s) /\ Within(s))'
  <2>1. PICK t \in Stores :
          /\ Counted(q, t)
          /\ \/ count' = [count EXCEPT ![t] = @ + 1] /\ faults' = faults
             \/ t = "memory" /\ count' = [r \in Stores |-> count[r] + 1] /\ Faulty({"redis"})
    BY <1>a DEF Count, Stores
  <2>2. /\ search' = [search EXCEPT ![q] =
             [state |-> IF WithinLimit(count'[t]) THEN "served" ELSE "failed", store |-> t]]
        /\ search[q] = None /\ used' = used /\ UNCHANGED <<earlier, restarts>>
    BY <1>a, <2>1 DEF Counted, Count
  <2>3. search'[q] = [state |-> IF WithinLimit(count'[t]) THEN "served" ELSE "failed", store |-> t]
    BY <1>1, <2>2 DEF AiTypeOK
  <2>4. search'[q] # None
    BY <2>3 DEF None
  <2>5. /\ q \notin Charged(s) /\ q \notin ServedIn(s)
        /\ q \in Charged(s)' <=> t = s
        /\ q \in ServedIn(s)' <=> t = s /\ WithinLimit(count'[t])
    BY <2>2, <2>3, <2>4 DEF Charged, ServedIn
  <2>6. /\ d = IF t = s THEN c + 1 ELSE c
        /\ f = IF t = s /\ WithinLimit(count'[t]) THEN e + 1 ELSE e
    BY <1>1, <2>2, <2>5, OneSearch
  <2>7. \/ count'[s] = (IF t = s THEN count[s] + 1 ELSE count[s]) /\ faults'[s] = faults[s]
        \/ t # s /\ count'[s] = count[s] + 1 /\ faults'[s] = faults[s] + 1
        \/ t = s /\ count'[s] = count[s] + 1 /\ faults'[s] = faults[s]
    BY <1>1, <2>1 DEF AiTypeOK, Stores, Faulty
  <2>8. k = g /\ b = a /\ used'[s] = used[s]
    BY <1>8, <2>2
  <2> HIDE DEF c, d, e, f, a, b, g, k
  <2>9. /\ count'[s] <= used'[s] + d + faults'[s]
        /\ b + d <= k + faults'[s] + count'[s]
    BY <1>3, <1>4, <1>5, <1>7, <2>6, <2>7, <2>8 DEF a, b, c, g, k
  <2>10. b + f <= k + dailyLimit + faults'[s]
    <3>1. CASE t = s /\ WithinLimit(count'[t])
      BY <1>3, <1>7, <2>9, <3>1 DEF WithinLimit, b, k
    <3>2. CASE ~(t = s /\ WithinLimit(count'[t]))
      BY <1>3, <1>4, <1>5, <2>6, <2>7, <2>8, <3>2 DEF a, e, g
    <3> QED BY <3>1, <3>2
  <2> QED BY <1>6, <2>9, <2>10 DEF c, d, e, f, a, b, g, k
<1>b. ASSUME NEW q \in Searches, Serve(q)
      PROVE  (Free(s) /\ Owed(s) /\ Within(s))'
  <2>1. /\ search[q] # None /\ search[q].state = "served" /\ search[q].store \in Stores
        /\ search' = [search EXCEPT ![q] = None]
        /\ used' = [used EXCEPT ![search[q].store] = @ + 1]
        /\ UNCHANGED <<count, earlier, restarts, faults>>
    BY <1>1, <1>b DEF Serve, AiTypeOK, Pending, history
  <2>2. search'[q] = None
    BY <1>1, <2>1 DEF AiTypeOK
  <2>3. /\ q \in Charged(s) <=> search[q].store = s
        /\ q \in ServedIn(s) <=> search[q].store = s
        /\ q \notin Charged(s)' /\ q \notin ServedIn(s)'
    BY <2>1, <2>2 DEF Charged, ServedIn
  <2>4. /\ d = IF search[q].store = s THEN c - 1 ELSE c
        /\ f = IF search[q].store = s THEN e - 1 ELSE e
    BY <1>1, <2>1, <2>3, OneSearch
  <2>5. used'[s] = IF search[q].store = s THEN used[s] + 1 ELSE used[s]
    BY <1>1, <2>1 DEF AiTypeOK
  <2>6. k = g /\ b = (IF search[q].store = s THEN a + 1 ELSE a)
    BY <1>8, <2>1, <2>5
  <2> HIDE DEF c, d, e, f, a, b, g, k
  <2>7. /\ count'[s] <= used'[s] + d + faults'[s]
        /\ b + d <= k + faults'[s] + count'[s]
        /\ b + f <= k + dailyLimit + faults'[s]
    BY <1>3, <1>4, <1>5, <1>7, <2>1, <2>4, <2>5, <2>6 DEF a, b, c, e, g, k
  <2> QED BY <1>6, <2>7 DEF d, f, b, k
<1>c. ASSUME NEW q \in Searches, Fail(q)
      PROVE  (Free(s) /\ Owed(s) /\ Within(s))'
  <2>1. /\ search[q] # None /\ search[q].state = "served" /\ search[q] \in Pending
        /\ search' = [search EXCEPT ![q] = [search[q] EXCEPT !.state = "failed"]]
        /\ UNCHANGED <<count, used, earlier, restarts, faults>>
    BY <1>1, <1>c DEF Fail, AiTypeOK, history
  <2>2. /\ search'[q].state = "failed" /\ search'[q].store = search[q].store
        /\ search'[q] # None
    BY <1>1, <2>1 DEF AiTypeOK, Pending, None
  <2>3. /\ q \in Charged(s) <=> search[q].store = s
        /\ q \in ServedIn(s) <=> search[q].store = s
        /\ q \in Charged(s)' <=> search[q].store = s
        /\ q \notin ServedIn(s)'
    BY <2>1, <2>2 DEF Charged, ServedIn
  <2>4. \E v : search' = [search EXCEPT ![q] = v]
    BY <2>1
  <2>5. d = c /\ f <= e
    <3>1. d = c
      BY <1>1, <2>3, <2>4, OneSearch
    <3>2. q \in ServedIn(s) => f = e - 1
      BY <1>1, <2>3, <2>4, OneSearch
    <3>3. q \notin ServedIn(s) => f = e
      BY <1>1, <2>3, <2>4, OneSearch
    <3>4. e \in Nat
      BY <1>4
    <3> HIDE DEF c, d, e, f
    <3> QED BY <3>1, <3>2, <3>3, <3>4
  <2>6. k = g /\ b = a
    BY <1>8, <2>1
  <2> HIDE DEF c, d, e, f, a, b, g, k
  <2>7. /\ count'[s] <= used'[s] + d + faults'[s]
        /\ b + d <= k + faults'[s] + count'[s]
        /\ b + f <= k + dailyLimit + faults'[s]
    BY <1>3, <1>4, <1>5, <1>7, <2>1, <2>5, <2>6 DEF a, c, e, g
  <2> QED BY <1>6, <2>7 DEF d, f, b, k
<1>d. ASSUME NEW q \in Searches, GiveBack(q)
      PROVE  (Free(s) /\ Owed(s) /\ Within(s))'
  <2> DEFINE own == search[q].store
  <2>1. /\ search[q] # None /\ search[q].state = "failed" /\ own \in Stores
        /\ search' = [search EXCEPT ![q] = None] /\ used' = used
        /\ UNCHANGED <<earlier, restarts>>
    BY <1>1, <1>d DEF GiveBack, AiTypeOK, Pending
  <2>2. PICK S \in SUBSET Stores : TakeOff(S) /\ Faulty((S \ {own}) \cup ({own} \ S))
    BY <1>d DEF GiveBack, Stores
  <2>3. search'[q] = None
    BY <1>1, <2>1 DEF AiTypeOK
  <2>4. /\ q \in Charged(s) <=> own = s
        /\ q \notin ServedIn(s) /\ q \notin Charged(s)' /\ q \notin ServedIn(s)'
    BY <2>1, <2>3 DEF Charged, ServedIn
  <2>5. d = (IF own = s THEN c - 1 ELSE c) /\ f = e
    BY <1>1, <2>1, <2>4, OneSearch
  <2>6. count'[s] = count[s] - (IF s \in S /\ HasCount(s) THEN 1 ELSE 0)
    BY <2>2 DEF TakeOff
  <2>7. faults'[s] = IF own = s <=> s \in S THEN faults[s] ELSE faults[s] + 1
    BY <1>1, <2>1, <2>2 DEF AiTypeOK, Faulty
  <2>8. k = g /\ b = a /\ used'[s] = used[s]
    BY <1>8, <2>1
  (* What is given back has been counted, or nothing has.                  *)
  <2>9. own = s /\ ~HasCount(s) => count[s] <= 0
    <3>1. CASE own = s /\ s = "redis"
      BY <1>2, <2>4, <3>1 DEF KeyIsThere, HasCount
    <3>2. CASE own = s /\ s = "memory"
      BY <1>3, <3>2 DEF HasCount
    <3> QED BY <3>1, <3>2 DEF Stores
  <2> HIDE DEF c, d, e, f, a, b, g, k, own
  <2>10. count'[s] <= used'[s] + d + faults'[s]
    BY <1>3, <1>4, <1>5, <1>7, <2>5, <2>6, <2>7, <2>8, <2>9 DEF c
  <2>11. b + d <= k + faults'[s] + count'[s]
    BY <1>3, <1>4, <1>5, <1>7, <2>5, <2>6, <2>7, <2>8 DEF a, c, g
  <2>12. b + f <= k + dailyLimit + faults'[s]
    BY <1>3, <1>4, <1>5, <1>7, <2>5, <2>7, <2>8 DEF a, e, g
  <2> QED BY <1>6, <2>10, <2>11, <2>12 DEF d, f, b, k
<1>e. CASE Restart
  <2>1. Charged(s)' = {} /\ ServedIn(s)' = {}
    BY <1>e DEF Restart, Charged, ServedIn
  <2>2. d = 0 /\ f = 0
    BY <2>1, FS_EmptySet
  <2>3. CASE s = "memory"
    <3>1. count'[s] = 0 /\ used'[s] = 0 /\ earlier' = earlier + used[s] /\ faults'[s] = faults[s]
      BY <1>1, <1>e, <2>3 DEF Restart, AiTypeOK, Stores
    <3>2. b = a /\ k = g + dailyLimit
      BY <1>1, <1>e, <2>3, <3>1, Products, QuotaAssumption DEF Restart, Answered, Granted, AiTypeOK
    <3> HIDE DEF c, d, e, f, a, b, g, k
    <3>3. /\ count'[s] <= used'[s] + d + faults'[s]
          /\ b + d <= k + faults'[s] + count'[s]
          /\ b + f <= k + dailyLimit + faults'[s]
      BY <1>3, <1>4, <1>5, <2>2, <3>1, <3>2 DEF a, e, g
    <3> QED BY <1>6, <3>3 DEF d, f, b, k
  <2>4. CASE s = "redis"
    <3>1. count'[s] = count[s] /\ used'[s] = used[s] /\ faults'[s] = faults[s] + c
      BY <1>1, <1>e, <2>4 DEF Restart, AiTypeOK, Stores
    <3>2. b = a /\ k = g
      BY <2>4, <3>1 DEF Answered, Granted
    <3> HIDE DEF c, d, e, f, a, b, g, k
    <3>3. /\ count'[s] <= used'[s] + d + faults'[s]
          /\ b + d <= k + faults'[s] + count'[s]
          /\ b + f <= k + dailyLimit + faults'[s]
      BY <1>3, <1>4, <1>5, <2>2, <3>1, <3>2 DEF a, c, e, g
    <3> QED BY <1>6, <3>3 DEF d, f, b, k
  <2> QED BY <2>3, <2>4 DEF Stores
<1>f. CASE UNCHANGED aiVars
  BY <1>2, <1>f DEF aiVars, history, Free, Owed, Within, Answered, Granted, Charged, ServedIn
<1> QED BY <1>a, <1>b, <1>c, <1>d, <1>e, <1>f DEF AiNext

LEMMA Inductive == AiSpec => []Inv
<1>1. AiInit => Inv
  <2> SUFFICES ASSUME AiInit
               PROVE  Inv
    OBVIOUS
  <2>1. AiTypeOK
    <3>1. count \in [Stores -> Int] /\ used \in [Stores -> Nat]
      BY DEF AiInit
    <3>2. search \in [Searches -> Pending \cup {None}]
      BY DEF AiInit
    <3> QED BY <3>1, <3>2 DEF AiInit, AiTypeOK
  <2>2. ASSUME NEW s \in Stores
        PROVE  Charged(s) = {} /\ ServedIn(s) = {}
    BY DEF AiInit, Charged, ServedIn
  <2>3. ASSUME NEW s \in Stores
        PROVE  Free(s) /\ Owed(s) /\ Within(s)
    <3>1. Granted(s) = 0 /\ Answered(s) = 0
      BY Products, QuotaAssumption DEF AiInit, Granted, Answered
    <3> QED BY <2>2, <3>1, FS_EmptySet, QuotaAssumption DEF AiInit, Free, Owed, Within
  <2>4. KeyIsThere
    BY <2>2 DEF KeyIsThere, AiInit, Stores
  <2> QED BY <2>1, <2>3, <2>4 DEF Inv
<1>2. Inv /\ [AiNext]_aiVars => Inv'
  BY Step
<1> QED BY <1>1, <1>2, PTL DEF AiSpec

(* Every state of AiQuota is well typed.                                   *)
THEOREM TypeCorrect == AiSpec => []AiTypeOK
BY Inductive, PTL DEF Inv

(* However requests, outages and restarts overlap, a user is charged for   *)
(* what was answered, what is in flight, and one request for each fault.   *)
THEOREM FreeFailures == AiSpec => []FailuresAreFree
<1>1. Inv => FailuresAreFree
  BY DEF Inv, Free, FailuresAreFree
<1> QED BY Inductive, <1>1, PTL

(* No user is answered more often in a day than the limit from Redis and   *)
(* the limit from the memory of each life of the server, and the faults    *)
(* allow.                                                                  *)
THEOREM QuotaIsKept == AiSpec => []QuotaHolds
<1>1. ASSUME Inv
      PROVE  QuotaHolds
  <2>1. Within("redis") /\ Within("memory") /\ restarts \in Nat
    BY <1>1 DEF Inv, Stores, AiTypeOK
  <2>2. dailyLimit * (1 + restarts) = dailyLimit * restarts + dailyLimit
    BY <2>1, Products, QuotaAssumption
  <2>3. Cardinality(ServedIn("redis")) = Served("redis") /\ Cardinality(ServedIn("memory")) = Served("memory")
    BY DEF ServedIn, Served
  <2>4. used["redis"] + Served("redis") <= dailyLimit + faults["redis"]
    BY <1>1, <2>1, <2>3, QuotaAssumption DEF Within, Answered, Granted, Inv, AiTypeOK, Stores
  <2>5. earlier + used["memory"] + Served("memory") <= dailyLimit * (1 + restarts) + faults["memory"]
    BY <2>1, <2>2, <2>3 DEF Within, Answered, Granted
  <2> QED BY <2>4, <2>5 DEF QuotaHolds
<1>2. Inv => QuotaHolds
  BY <1>1
<1> QED BY Inductive, <1>2, PTL
=============================================================================
