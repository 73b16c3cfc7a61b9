------------------------- MODULE AuthSessionProofs --------------------------
(***************************************************************************)
(* Theorems about AuthSession, for any browsers, handlers, passwords and   *)
(* profiles, and any limit of attempts; about EmailVerification, for any   *)
(* emails, codes, lives of a token and limits, as long as a code does not  *)
(* outlive a window; and about SocialLogin, for any tabs and choices.      *)
(***************************************************************************)
EXTENDS AuthSessionProperties, EmailVerification, SocialLogin, FiniteSetTheorems, TLAPS

-----------------------------------------------------------------------------
(* Types.                                                                  *)
Steps == {"read", "create", "issue", "wipe", "logout", "save", "reset", "answer"}

LEMMA BusyIsWorking ==
  ASSUME TypeOK, NEW h \in Handlers, Busy(h)
  PROVE  handler[h] \in Working
BY DEF TypeOK, Busy

LEMMA WorkingIsBusy ==
  ASSUME NEW w \in Working
  PROVE  w # Idle
BY DEF Working, Idle

(* A request that goes on: only its step, or its step and its token.       *)
LEMMA Goes ==
  ASSUME NEW w \in Working, NEW step \in Steps
  PROVE  /\ [w EXCEPT !.step = step] \in Working
         /\ [w EXCEPT !.step = step].step = step
         /\ [w EXCEPT !.step = step].kind = w.kind
         /\ [w EXCEPT !.step = step].cookie = w.cookie
         /\ [w EXCEPT !.step = step].proof = w.proof
BY DEF Working, Steps

LEMMA Signs ==
  ASSUME TypeOK, NEW w \in Working
  PROVE  /\ [w EXCEPT !.step = "issue", !.token = now] \in Working
         /\ [w EXCEPT !.step = "issue", !.token = now].step = "issue"
         /\ [w EXCEPT !.step = "issue", !.token = now].kind = w.kind
         /\ [w EXCEPT !.step = "issue", !.token = now].cookie = w.cookie
         /\ [w EXCEPT !.step = "issue", !.token = now].proof = w.proof
BY DEF Working, TypeOK, Cookies, Tokens

NewRequest(kind, b, proof) ==
  [step |-> "read", kind |-> kind, browser |-> b, proof |-> proof,
   cookie |-> IF kind \in {"refresh", "logout"} THEN cookie[b] ELSE NoToken,
   token |-> NoToken,
   alone |-> {g \in Handlers : Busy(g) /\ handler[g].browser = b} = {}]

(* What a request that arrives does to itself and to the others.           *)
LEMMA Arrives ==
  ASSUME TypeOK, NEW h \in Handlers, NEW kind \in Kinds, NEW b \in Browsers,
         NEW proof \in Passwords \cup Profiles \cup {Nobody}, Arrive(h, kind, b, proof)
  PROVE  /\ ~Busy(h)
         /\ handler' \in [Handlers -> Working \cup {Idle}]
         /\ handler'[h] = NewRequest(kind, b, proof) /\ handler'[h] \in Working
         /\ \A g \in Handlers \ {h} :
              /\ handler'[g] # Idle <=> handler[g] # Idle
              /\ Busy(g) => /\ handler'[g].step = handler[g].step
                            /\ handler'[g].kind = handler[g].kind
                            /\ handler'[g].proof = handler[g].proof
                            /\ handler'[g].cookie = handler[g].cookie
<1> DEFINE beside == {g \in Handlers : Busy(g) /\ handler[g].browser = b}
           new == NewRequest(kind, b, proof)
<1>1. /\ ~Busy(h)
      /\ handler' = [g \in Handlers |->
           IF g = h THEN new
           ELSE IF g \in beside THEN [handler[g] EXCEPT !.alone = FALSE] ELSE handler[g]]
  BY DEF Arrive, NewRequest
<1>2. new \in Working
  <2>1. (beside = {}) \in BOOLEAN
    OBVIOUS
  <2>2. cookie[b] \in Cookies /\ NoToken \in Cookies
    BY DEF TypeOK, Cookies
  <2> QED BY <2>1, <2>2 DEF NewRequest, Working
<1>3. \A g \in beside :
        /\ handler[g] \in Working
        /\ [handler[g] EXCEPT !.alone = FALSE] \in Working
        /\ [handler[g] EXCEPT !.alone = FALSE].step = handler[g].step
        /\ [handler[g] EXCEPT !.alone = FALSE].kind = handler[g].kind
        /\ [handler[g] EXCEPT !.alone = FALSE].proof = handler[g].proof
        /\ [handler[g] EXCEPT !.alone = FALSE].cookie = handler[g].cookie
  BY BusyIsWorking DEF Working
<1> HIDE DEF beside, new
<1>4. handler' \in [Handlers -> Working \cup {Idle}]
  BY <1>1, <1>2, <1>3 DEF TypeOK
<1>5. \A g \in Handlers \ {h} :
        /\ handler'[g] # Idle <=> handler[g] # Idle
        /\ Busy(g) => /\ handler'[g].step = handler[g].step
                      /\ handler'[g].kind = handler[g].kind
                      /\ handler'[g].proof = handler[g].proof
                      /\ handler'[g].cookie = handler[g].cookie
  BY <1>1, <1>3, WorkingIsBusy DEF Busy
<1> QED BY <1>1, <1>2, <1>4, <1>5 DEF new

-----------------------------------------------------------------------------
(* What the step and the kind of a request say of it.                      *)
Errand(w) ==
  /\ w.step = "create" => w.kind \in {"signUp", "socialLogin"}
  /\ w.step \in {"save"} => w.kind = "changePassword" /\ account \in Passwords
  /\ w.kind = "changePassword" => w.proof \in Passwords
  /\ w.kind = "refresh" /\ w.step = "read" => w.cookie # NoToken

Errands == \A h \in Handlers : Busy(h) => Errand(handler[h])

SessionInv == over => stored = NoToken /\ ~\E h \in Handlers : PastItsCheck(h)

Inv == TypeOK /\ Errands /\ SessionInv

ErrandAfter(w) ==
  /\ w.step = "create" => w.kind \in {"signUp", "socialLogin"}
  /\ w.step \in {"save"} => w.kind = "changePassword" /\ account' \in Passwords
  /\ w.kind = "changePassword" => w.proof \in Passwords
  /\ w.kind = "refresh" /\ w.step = "read" => w.cookie # NoToken

Refreshes(w) == w # Idle /\ w.step = "issue" /\ w.kind = "refresh"

(* What a step of one request must show to keep the invariant.             *)
LEMMA OneMoves ==
  ASSUME Inv, NEW h \in Handlers, NEW w \in Working \cup {Idle},
         handler' = [handler EXCEPT ![h] = w],
         w # Idle => ErrandAfter(w),
         account' \in Passwords \cup Profiles \cup {Nobody},
         account \in Passwords => account' \in Passwords,
         now' \in Tokens, stored' \in Cookies, cookie' \in [Browsers -> Cookies],
         hits' \in Nat, failed' \in Nat, over' \in BOOLEAN, disturbed' \in BOOLEAN,
         over' => /\ stored' = NoToken /\ ~Refreshes(w)
                  /\ \A g \in Handlers \ {h} : ~PastItsCheck(g)
  PROVE  Inv'
<1>1. TypeOK'
  BY DEF Inv, TypeOK
<1>2. handler'[h] = w /\ \A g \in Handlers \ {h} : handler'[g] = handler[g]
  BY DEF Inv, TypeOK
<1>3. Errands'
  BY <1>2 DEF Inv, Errands, Errand, ErrandAfter, Busy
<1>4. SessionInv'
  BY <1>2 DEF Inv, SessionInv, PastItsCheck, Doing, Busy, Refreshes
<1> QED BY <1>1, <1>3, <1>4 DEF Inv

(* A request arrives; nothing else changes.                                *)
LEMMA OneArrives ==
  ASSUME Inv, NEW h \in Handlers, NEW kind \in Kinds, NEW b \in Browsers,
         NEW proof \in Passwords \cup Profiles \cup {Nobody}, Arrive(h, kind, b, proof),
         kind = "refresh" => cookie[b] # NoToken,
         kind = "changePassword" => proof \in Passwords,
         hits' \in Nat, UNCHANGED <<now, account, stored, cookie, failed, over, disturbed>>
  PROVE  Inv'
<1>1. /\ handler' \in [Handlers -> Working \cup {Idle}]
      /\ handler'[h] = NewRequest(kind, b, proof)
      /\ \A g \in Handlers \ {h} :
           /\ handler'[g] # Idle <=> handler[g] # Idle
           /\ Busy(g) => /\ handler'[g].step = handler[g].step
                         /\ handler'[g].kind = handler[g].kind
                         /\ handler'[g].proof = handler[g].proof
                         /\ handler'[g].cookie = handler[g].cookie
  BY Arrives DEF Inv
<1>2. TypeOK'
  BY <1>1 DEF Inv, TypeOK
<1>3. /\ handler'[h].step = "read" /\ handler'[h].kind = kind /\ handler'[h].proof = proof
      /\ kind = "refresh" => handler'[h].cookie = cookie[b]
  BY <1>1 DEF NewRequest
<1>4. ASSUME NEW g \in Handlers, handler'[g] # Idle
      PROVE  Errand(handler'[g])
  <2>1. CASE g = h
    BY <1>3, <2>1 DEF Errand
  <2>2. CASE g # h
    BY <1>1, <1>4, <2>2 DEF Inv, Errands, Errand, Busy
  <2> QED BY <2>1, <2>2
<1>5. Errands'
  BY <1>4 DEF Errands, Errand, Busy
<1>6. SessionInv'
  BY <1>1, <1>3 DEF Inv, SessionInv, PastItsCheck, Doing, Busy
<1> QED BY <1>2, <1>5, <1>6 DEF Inv

LEMMA Step ==
  ASSUME Inv, [Next]_vars
  PROVE  Inv'
<1> USE DEF Inv
<1>a. ASSUME NEW h \in Handlers, NEW b \in Browsers, Ask(h, b)
      PROVE  Inv'
  <2>1. hits' = hits /\ hits \in Nat
    BY <1>a DEF Ask, TypeOK
  <2>2. CASE StartSignUp(h, b)
    BY <1>a, <2>1, <2>2, OneArrives DEF StartSignUp, Ask, Kinds
  <2>3. CASE StartSocialLogin(h, b)
    BY <1>a, <2>1, <2>3, OneArrives DEF StartSocialLogin, Ask, Kinds
  <2>4. CASE StartRefresh(h, b)
    BY <1>a, <2>1, <2>4, OneArrives DEF StartRefresh, Ask, Kinds
  <2>5. CASE StartLogout(h, b)
    BY <1>a, <2>1, <2>5, OneArrives DEF StartLogout, Ask, Kinds
  <2>6. CASE StartChangePassword(h, b)
    BY <1>a, <2>1, <2>6, OneArrives DEF StartChangePassword, Ask, Kinds
  <2> QED BY <1>a, <2>2, <2>3, <2>4, <2>5, <2>6 DEF Ask
<1>b. ASSUME NEW h \in Handlers, NEW b \in Browsers, StartLogin(h, b)
      PROVE  Inv'
  <2>1. hits' \in Nat
    BY <1>b DEF StartLogin, TypeOK
  <2>2. CASE handler' = handler
    BY <1>b, <2>1, <2>2 DEF StartLogin, TypeOK, Errands, Errand, SessionInv, PastItsCheck, Doing, Busy
  <2>3. CASE \E p \in Passwords : Arrive(h, "login", b, p)
    BY <1>b, <2>1, <2>3, OneArrives DEF StartLogin, Kinds
  <2> QED BY <1>b, <2>2, <2>3 DEF StartLogin
(* A request that goes on or is rejected, while nothing else changes.      *)
<1>c. ASSUME NEW h \in Handlers, NEW w \in Working \cup {Idle},
             handler' = [handler EXCEPT ![h] = w], w # Idle => Errand(w),
             hits' \in Nat, failed' \in Nat,
             UNCHANGED <<now, account, stored, cookie, over, disturbed>>,
             Refreshes(w) => ~over
      PROVE  Inv'
  <2>1. w # Idle => ErrandAfter(w)
    BY <1>c DEF Errand, ErrandAfter
  <2> QED BY <1>c, <2>1, OneMoves DEF TypeOK, SessionInv
<1>d. ASSUME NEW h \in Handlers, Look(h)
      PROVE  Inv'
  <2>1. /\ Doing(h, "read") /\ Busy(h) /\ handler[h] \in Working /\ handler[h].step = "read"
        /\ Errand(handler[h])
    BY <1>d, BusyIsWorking DEF Look, FindForSignUp, FindForSocialLogin, CheckToken,
       FindForLogout, CheckCurrentPassword, Serving, Doing, Errands
  <2>2. UNCHANGED <<now, account, stored, cookie, over, disturbed>> /\ hits' \in Nat /\ failed' \in Nat
    BY <1>d DEF Look, TypeOK
  <2>3. ASSUME NEW step \in Steps, step \notin {"issue", "read", "save"}, Proceed(h, step),
               step = "create" => handler[h].kind \in {"signUp", "socialLogin"}
        PROVE  Inv'
    <3>1. [handler[h] EXCEPT !.step = step] \in Working
          /\ Errand([handler[h] EXCEPT !.step = step])
          /\ ~Refreshes([handler[h] EXCEPT !.step = step])
      BY <2>1, <2>3, Goes DEF Errand, Refreshes
    <3> QED BY <1>c, <2>2, <2>3, <3>1 DEF Proceed
  <2>4. ASSUME Reject(h)
        PROVE  Inv'
    BY <1>c, <2>2, <2>4 DEF Reject, Refreshes
  <2>5. ASSUME Sign(h), handler[h].kind = "refresh" => ~over
        PROVE  Inv'
    <3> DEFINE w == [handler[h] EXCEPT !.step = "issue", !.token = now]
    <3>1. w \in Working /\ w.step = "issue" /\ w.kind = handler[h].kind
          /\ w.cookie = handler[h].cookie /\ w.proof = handler[h].proof
      BY <2>1, Signs
    <3>2. handler' = [handler EXCEPT ![h] = w]
      BY <2>5 DEF Sign
    <3> HIDE DEF w
    <3>3. Errand(w)
      BY <2>1, <3>1 DEF Errand
    <3> QED BY <1>c, <2>2, <2>5, <3>1, <3>2, <3>3 DEF Refreshes
  <2>6. CASE FindForSignUp(h)
    BY <2>3, <2>4, <2>6 DEF FindForSignUp, Serving, Steps
  <2>7. CASE FindForSocialLogin(h)
    BY <2>3, <2>4, <2>5, <2>7 DEF FindForSocialLogin, Serving, Steps
  <2>8. CASE CheckToken(h)
    BY <2>1, <2>3, <2>4, <2>5, <2>8 DEF CheckToken, Serving, Steps, SessionInv, Errand
  <2>9. CASE FindForLogout(h)
    BY <2>3, <2>9 DEF FindForLogout, Serving, Steps
  <2>10. CASE CheckCurrentPassword(h)
    <3>1. ASSUME account = handler[h].proof, NEW new \in Passwords,
                 handler' = [handler EXCEPT ![h].step = "save", ![h].proof = new]
          PROVE  Inv'
      <4> DEFINE w == [handler[h] EXCEPT !.step = "save", !.proof = new]
      <4>1. /\ w \in Working /\ w.step = "save" /\ w.kind = "changePassword"
            /\ w.proof = new
        BY <2>1, <2>10 DEF Working, CheckCurrentPassword, Serving
      <4>2. account \in Passwords
        BY <2>1, <2>10, <3>1 DEF CheckCurrentPassword, Serving, Errand
      <4>3. handler' = [handler EXCEPT ![h] = w]
        BY <3>1
      <4> HIDE DEF w
      <4> QED BY <1>c, <2>2, <4>1, <4>2, <4>3 DEF Errand, Refreshes
    <3> QED BY <2>4, <2>10, <3>1 DEF CheckCurrentPassword
  <2> QED BY <1>d, <2>6, <2>7, <2>8, <2>9, <2>10 DEF Look
<1>e. ASSUME NEW h \in Handlers, CheckPassword(h)
      PROVE  Inv'
  <2>1. Busy(h) /\ handler[h] \in Working /\ handler[h].step = "read" /\ handler[h].kind = "login"
    BY <1>e, BusyIsWorking DEF CheckPassword, Serving, Doing
  <2>2. hits' \in Nat /\ failed' \in Nat
    BY <1>e DEF CheckPassword, TypeOK
  <2> DEFINE w == [handler[h] EXCEPT !.step = "issue", !.token = now]
  <2>3. w \in Working /\ w.step = "issue" /\ w.kind = "login"
    BY <2>1, Signs
  <2>4. handler' = [handler EXCEPT ![h] = w] \/ handler' = [handler EXCEPT ![h] = Idle]
    BY <1>e DEF CheckPassword, Sign, Reject
  <2> HIDE DEF w
  <2> QED BY <1>c, <1>e, <2>2, <2>3, <2>4 DEF CheckPassword, Errand, Refreshes
<1>f. ASSUME NEW h \in Handlers, Create(h)
      PROVE  Inv'
  <2>1. /\ Busy(h) /\ handler[h] \in Working /\ handler[h].kind \in {"signUp", "socialLogin"}
        /\ handler[h].proof \in Passwords \cup Profiles \cup {Nobody}
    BY <1>f, BusyIsWorking DEF Create, Doing, Errands, Errand, Working
  <2> DEFINE w == [handler[h] EXCEPT !.step = "issue", !.token = now]
  <2>2. w \in Working /\ w.step = "issue" /\ w.kind = handler[h].kind
    BY <2>1, Signs
  <2>3. \/ /\ handler' = [handler EXCEPT ![h] = w]
           /\ account = Nobody /\ account' = handler[h].proof
        \/ handler' = [handler EXCEPT ![h] = Idle] /\ account' = account
    BY <1>f DEF Create, Sign, Reject
  <2> HIDE DEF w
  <2>4. account \in Passwords => account' \in Passwords
    BY <2>3, MethodAssumption
  <2>5. ErrandAfter(w) /\ ~Refreshes(w) /\ ~Refreshes(Idle)
    BY <2>1, <2>2 DEF ErrandAfter, Refreshes
  <2>6. UNCHANGED <<now, stored, cookie, hits, failed, over, disturbed>>
    BY <1>f DEF Create
  <2> QED BY <2>1, <2>2, <2>3, <2>4, <2>5, <2>6, OneMoves DEF TypeOK, SessionInv
<1>g. ASSUME NEW h \in Handlers, Issue(h)
      PROVE  Inv'
  <2>1. /\ Busy(h) /\ handler[h] \in Working /\ handler[h].step = "issue"
        /\ handler[h].token \in Cookies /\ Errand(handler[h])
    BY <1>g, BusyIsWorking DEF Issue, Doing, Errands, Working
  <2> DEFINE step == IF handler[h].kind = "login" THEN "reset" ELSE "answer"
             w == [handler[h] EXCEPT !.step = step]
  <2>2. step \in {"reset", "answer"} /\ step \in Steps
    BY DEF Steps
  <2>3. handler' = [handler EXCEPT ![h] = w]
    BY <1>g DEF Issue, Proceed
  <2> HIDE DEF step
  <2>4. w \in Working /\ w.step \in {"reset", "answer"} /\ w.kind = handler[h].kind
        /\ w.proof = handler[h].proof
    BY <2>1, <2>2, Goes
  <2> HIDE DEF w
  <2>5. ErrandAfter(w)
    BY <2>1, <2>4 DEF ErrandAfter, Errand
  <2>6. over' = (over /\ handler[h].kind = "refresh")
    BY <1>g DEF Issue
  <2>7. ~over'
    BY <2>1, <2>6 DEF SessionInv, PastItsCheck, Doing
  <2>8. UNCHANGED <<now, account, cookie, hits, failed, disturbed>> /\ stored' = handler[h].token
    BY <1>g DEF Issue
  <2>9. over' \in BOOLEAN
    BY <2>6
  <2> QED BY <2>1, <2>3, <2>4, <2>5, <2>7, <2>8, <2>9, OneMoves DEF TypeOK
<1>h. ASSUME NEW h \in Handlers, Wipe(h) \/ Logout(h)
      PROVE  Inv'
  <2>1. /\ Busy(h) /\ handler[h] \in Working /\ handler[h].step \in {"wipe", "logout"}
        /\ Errand(handler[h])
    BY <1>h, BusyIsWorking DEF Wipe, Logout, Doing, Errands
  <2> DEFINE w == [handler[h] EXCEPT !.step = "answer"]
  <2>2. w \in Working /\ w.step = "answer" /\ w.kind = handler[h].kind
        /\ w.proof = handler[h].proof
    BY <2>1, Goes DEF Steps
  <2>3. handler' = [handler EXCEPT ![h] = w] \/ handler' = [handler EXCEPT ![h] = Idle]
    BY <1>h DEF Wipe, Logout, Proceed, Reject
  <2> HIDE DEF w
  <2>4. /\ stored' = NoToken /\ (over' <=> ~\E g \in Handlers : PastItsCheck(g))
        /\ over' \in BOOLEAN
        /\ UNCHANGED <<now, account, cookie, hits, failed, disturbed>>
    BY <1>h DEF Wipe, Logout, EndSession
  <2>5. ErrandAfter(w) /\ ~Refreshes(w) /\ ~Refreshes(Idle)
    BY <2>1, <2>2 DEF ErrandAfter, Errand, Refreshes
  <2> QED BY <2>2, <2>3, <2>4, <2>5, OneMoves DEF TypeOK, Cookies
<1>i. ASSUME NEW h \in Handlers, SavePassword(h)
      PROVE  Inv'
  <2>1. Busy(h) /\ handler[h].proof \in Passwords
    BY <1>i DEF SavePassword, Doing, Errands, Errand
  <2>2. /\ account' = handler[h].proof /\ handler' = [handler EXCEPT ![h] = Idle]
        /\ UNCHANGED <<now, stored, cookie, hits, failed, over, disturbed>>
    BY <1>i DEF SavePassword, Reject
  <2> QED BY <2>1, <2>2, OneMoves DEF TypeOK, SessionInv, Refreshes
<1>j. ASSUME NEW h \in Handlers, ResetLoginRateLimit(h)
      PROVE  Inv'
  <2>1. Busy(h) /\ handler[h] \in Working /\ handler[h].step = "reset" /\ Errand(handler[h])
    BY <1>j, BusyIsWorking DEF ResetLoginRateLimit, Doing, Errands
  <2> DEFINE w == [handler[h] EXCEPT !.step = "answer"]
  <2>2. w \in Working /\ w.step = "answer" /\ w.kind = handler[h].kind
        /\ w.proof = handler[h].proof
    BY <2>1, Goes DEF Steps
  <2>3. handler' = [handler EXCEPT ![h] = w]
    BY <1>j DEF ResetLoginRateLimit, Proceed
  <2> HIDE DEF w
  <2> QED BY <1>c, <1>j, <2>1, <2>2, <2>3 DEF ResetLoginRateLimit, Errand, Refreshes
<1>k. ASSUME NEW h \in Handlers, Answer(h) \/ AnswerIsLost(h)
      PROVE  Inv'
  <2>1. Busy(h) /\ handler[h] \in Working /\ handler[h].token \in Cookies
    BY <1>k, BusyIsWorking DEF Answer, AnswerIsLost, Doing, Working
  <2>2. hits' \in Nat
    BY <1>k DEF Answer, AnswerIsLost, ForgetSuccess, TypeOK
  <2>3. disturbed' \in BOOLEAN
    BY <1>k DEF Answer, AnswerIsLost
  <2>4. cookie' \in [Browsers -> Cookies]
    BY <1>k, <2>1 DEF Answer, AnswerIsLost, TypeOK
  <2>5. /\ handler' = [handler EXCEPT ![h] = Idle]
        /\ UNCHANGED <<now, account, stored, failed, over>>
    BY <1>k DEF Answer, AnswerIsLost, Reject
  <2> QED BY <2>2, <2>3, <2>4, <2>5, OneMoves DEF TypeOK, SessionInv, Refreshes
<1>l. ASSUME NEW h \in Handlers, Fails(h)
      PROVE  Inv'
  BY <1>c, <1>l DEF Fails, Reject, Refreshes, TypeOK
<1>m. CASE WindowEnds
  BY <1>m DEF WindowEnds, TypeOK, Errands, Errand, SessionInv, PastItsCheck, Doing, Busy
<1>n. CASE Crash
  <2>1. disturbed' \in BOOLEAN
    BY <1>n DEF Crash
  <2> QED BY <1>n, <2>1 DEF Crash, TypeOK, Errands, SessionInv, PastItsCheck, Doing, Busy
<1>o. CASE Tick
  BY <1>o, BoundAssumption DEF Tick, TypeOK, Tokens, Errands, Errand, SessionInv, PastItsCheck, Doing, Busy
<1>p. CASE UNCHANGED vars
  BY <1>p DEF vars, TypeOK, Errands, Errand, SessionInv, PastItsCheck, Doing, Busy
<1> QED
  BY <1>a, <1>b, <1>d, <1>e, <1>f, <1>g, <1>h, <1>i, <1>j, <1>k, <1>l, <1>m, <1>n, <1>o, <1>p
  DEF Next, Serve

LEMMA Inductive == Spec => []Inv
<1>1. Init => Inv
  <2> SUFFICES ASSUME Init
               PROVE  Inv
    OBVIOUS
  <2>1. TypeOK
    <3>1. now \in Tokens /\ stored \in Cookies
      BY BoundAssumption DEF Init, Tokens, Cookies
    <3>2. cookie \in [Browsers -> Cookies]
      BY DEF Init, Cookies
    <3>3. handler \in [Handlers -> Working \cup {Idle}]
      BY DEF Init
    <3> QED BY <3>1, <3>2, <3>3 DEF Init, TypeOK
  <2>2. Errands /\ SessionInv
    BY DEF Init, Errands, SessionInv, PastItsCheck, Doing, Busy
  <2> QED BY <2>1, <2>2 DEF Inv
<1>2. Inv /\ [Next]_vars => Inv'
  BY Step
<1> QED BY <1>1, <1>2, PTL DEF Spec

(* Every state of AuthSession is well typed.                               *)
THEOREM TypeCorrect == Spec => []TypeOK
BY Inductive, PTL DEF Inv

(* Whatever requests overlap, an ended session is brought back by          *)
(* credentials, or by a refresh that was past its check.                   *)
THEOREM EndedForGood == Spec => []EndedStaysEnded
<1>1. Inv => EndedStaysEnded
  BY DEF Inv, SessionInv, EndedStaysEnded
<1> QED BY Inductive, <1>1, PTL

(* No later sign-up or social login takes over an account.                 *)
THEOREM FirstWins == Spec => FirstSignUpWins
<1>1. ASSUME Inv, [Next]_vars, account' # account
      PROVE  \/ account = Nobody
             \/ /\ account \in Passwords /\ account' \in Passwords
                /\ \E h \in Handlers : Doing(h, "save")
  <2>1. PICK h \in Handlers : Create(h) \/ SavePassword(h)
    BY <1>1 DEF Next, vars, Ask, StartLogin, Serve, Look, CheckPassword, Issue, Wipe, Logout,
       EndSession, ResetLoginRateLimit, Answer, AnswerIsLost, Fails, WindowEnds, Crash, Tick
  <2>2. CASE Create(h)
    BY <1>1, <2>2 DEF Create
  <2>3. CASE SavePassword(h)
    BY <1>1, <2>3 DEF SavePassword, Inv, Errands, Errand, Doing
  <2> QED BY <2>1, <2>2, <2>3
<1>2. Inv /\ [Next]_vars => [KeepsItsMethod]_vars
  BY <1>1 DEF KeepsItsMethod
<1> QED BY Inductive, <1>2, PTL DEF Spec, FirstSignUpWins

-----------------------------------------------------------------------------
(* The session is held.  A request whose browser no other request shares   *)
(* is marked alone, and two that share one are not.                        *)
AloneOnes ==
  \A g, h \in Handlers :
    Busy(g) /\ Busy(h) /\ handler[g].browser = handler[h].browser /\ handler[h].alone
      => g = h

(* What a request that is alone will do to the jar of its browser b, which *)
(* holds the token tok: give it tok again, or end the session.             *)
Gentle(w, b, tok) ==
  w # Idle /\ w.browser = b /\ w.alone =>
    /\ w.step \in {"reset", "answer"} => w.token = tok
    /\ w.step = "read" /\ w.kind = "logout" => w.cookie = tok

(* A jar keeps the stored token when no request that is alone will take it *)
(* away; one that is not alone would be seen as a disturbance.             *)
Keeps(b) == cookie[b] = stored /\ \A h \in Handlers : Gentle(handler[h], b, stored)

Held ==
  \/ stored = NoToken \/ disturbed
  \/ \E b \in Browsers : Keeps(b)
  \/ \E h \in Handlers : Carries(h)

(* One request goes on, or ends, without a change of jar or stored token.  *)
SameTab(w, v) == w # Idle => w.browser = v.browser /\ w.alone = v.alone

LEMMA AloneStays ==
  ASSUME TypeOK, AloneOnes, NEW h \in Handlers, Busy(h), NEW w,
         handler' = [handler EXCEPT ![h] = w], SameTab(w, handler[h])
  PROVE  AloneOnes'
<1>1. handler'[h] = w /\ \A g \in Handlers \ {h} : handler'[g] = handler[g]
  BY DEF TypeOK
<1> QED BY <1>1 DEF AloneOnes, Busy, SameTab

LEMMA HeldStays ==
  ASSUME TypeOK, Held, NEW h \in Handlers, NEW w,
         handler' = [handler EXCEPT ![h] = w],
         stored' = stored, cookie' = cookie, disturbed => disturbed',
         stored # NoToken => \A b \in Browsers : Gentle(handler[h], b, stored) => Gentle(w, b, stored),
         Carries(h) => disturbed' \/ (w # Idle /\ w.step \in {"reset", "answer"} /\ w.token = stored)
  PROVE  Held'
<1>1. handler'[h] = w /\ \A g \in Handlers \ {h} : handler'[g] = handler[g]
  BY DEF TypeOK
<1>2. CASE stored = NoToken \/ disturbed
  BY <1>2 DEF Held
<1>3. ASSUME NEW b \in Browsers, Keeps(b), stored # NoToken
      PROVE  Held'
  <2>1. Keeps(b)'
    BY <1>1, <1>3 DEF Keeps
  <2> QED BY <2>1 DEF Held
<1>4. ASSUME NEW g \in Handlers, Carries(g)
      PROVE  Held'
  BY <1>1, <1>4 DEF Held, Carries, Busy
<1> QED BY <1>2, <1>3, <1>4 DEF Held

(* A request that arrives shares its browser with no one or marks them all.*)
LEMMA ArrivesBeside ==
  ASSUME TypeOK, NEW h \in Handlers, NEW kind \in Kinds, NEW b \in Browsers, NEW proof,
         Arrive(h, kind, b, proof)
  PROVE  /\ ~Busy(h) /\ handler'[h] = NewRequest(kind, b, proof)
         /\ \A g \in Handlers \ {h} :
              /\ handler[g] = Idle \/ handler[g].browser # b => handler'[g] = handler[g]
              /\ Busy(g) => /\ handler'[g] # Idle /\ handler'[g].browser = handler[g].browser
                            /\ handler'[g].step = handler[g].step
                            /\ handler'[g].token = handler[g].token
                            /\ handler[g].browser = b => ~handler'[g].alone
<1> DEFINE beside == {g \in Handlers : Busy(g) /\ handler[g].browser = b}
           new == NewRequest(kind, b, proof)
<1>1. /\ ~Busy(h)
      /\ handler' = [g \in Handlers |->
           IF g = h THEN new
           ELSE IF g \in beside THEN [handler[g] EXCEPT !.alone = FALSE] ELSE handler[g]]
  BY DEF Arrive, NewRequest
<1>2. \A g \in beside : handler[g] \in Working
  BY BusyIsWorking
<1>3. \A w \in Working : /\ [w EXCEPT !.alone = FALSE].browser = w.browser
                         /\ [w EXCEPT !.alone = FALSE].step = w.step
                         /\ [w EXCEPT !.alone = FALSE].token = w.token
                         /\ ~[w EXCEPT !.alone = FALSE].alone
                         /\ [w EXCEPT !.alone = FALSE] # Idle
  BY WorkingIsBusy DEF Working
<1>4. \A g \in Handlers : g \in beside <=> handler[g] # Idle /\ handler[g].browser = b
  BY DEF Busy
<1> HIDE DEF beside, new
<1> QED BY <1>1, <1>2, <1>3, <1>4 DEF Busy, new

LEMMA HeldByArrival ==
  ASSUME TypeOK, AloneOnes, Held, NEW h \in Handlers, NEW kind \in Kinds, NEW b \in Browsers,
         NEW proof, Arrive(h, kind, b, proof), UNCHANGED <<stored, cookie, disturbed>>
  PROVE  AloneOnes' /\ Held'
<1>1. /\ ~Busy(h) /\ handler'[h] = NewRequest(kind, b, proof)
      /\ \A g \in Handlers \ {h} :
           /\ handler[g] = Idle \/ handler[g].browser # b => handler'[g] = handler[g]
           /\ Busy(g) => /\ handler'[g] # Idle /\ handler'[g].browser = handler[g].browser
                         /\ handler'[g].step = handler[g].step
                         /\ handler'[g].token = handler[g].token
                         /\ handler[g].browser = b => ~handler'[g].alone
  BY ArrivesBeside
<1>2. /\ handler'[h].step = "read" /\ handler'[h].browser = b
      /\ handler'[h].kind = "logout" => handler'[h].cookie = cookie[b]
      /\ handler'[h].alone => \A g \in Handlers : Busy(g) => handler[g].browser # b
  <2> DEFINE beside == {g \in Handlers : Busy(g) /\ handler[g].browser = b}
  <2>1. /\ handler'[h].step = "read" /\ handler'[h].browser = b /\ handler'[h].kind = kind
        /\ handler'[h].cookie = IF kind \in {"refresh", "logout"} THEN cookie[b] ELSE NoToken
        /\ handler'[h].alone = (beside = {})
    BY <1>1 DEF NewRequest
  <2>2. beside = {} => \A g \in Handlers : Busy(g) => handler[g].browser # b
    OBVIOUS
  <2> HIDE DEF beside
  <2> QED BY <2>1, <2>2
<1>3. AloneOnes'
  <2> SUFFICES ASSUME NEW f \in Handlers, NEW g \in Handlers, handler'[f] # Idle,
                      handler'[g] # Idle, handler'[f].browser = handler'[g].browser,
                      handler'[g].alone
               PROVE  f = g
    BY DEF AloneOnes, Busy
  <2>1. CASE f = h /\ g # h
    BY <1>1, <1>2, <2>1 DEF Busy
  <2>2. CASE g = h /\ f # h
    BY <1>1, <1>2, <2>2 DEF Busy
  <2>3. CASE f # h /\ g # h
    BY <1>1, <2>3 DEF AloneOnes, Busy
  <2> QED BY <2>1, <2>2, <2>3
<1>4. ASSUME NEW c \in Browsers, Keeps(c)
      PROVE  Keeps(c)'
  <2>1. \A g \in Handlers : Gentle(handler'[g], c, stored)
    BY <1>1, <1>2, <1>4 DEF Keeps, Gentle, Busy
  <2> QED BY <1>4, <2>1 DEF Keeps
<1>5. ASSUME NEW g \in Handlers, Carries(g)
      PROVE  handler'[g] # Idle /\ handler'[g].step \in {"reset", "answer"} /\ handler'[g].token = stored
  <2>1. g # h /\ Busy(g)
    BY <1>1, <1>5 DEF Carries
  <2> QED BY <1>1, <1>5, <2>1 DEF Carries
<1>6. Held'
  BY <1>4, <1>5 DEF Held, Carries, Busy
<1> QED BY <1>3, <1>6

(* What a step of a request keeps of it.                                   *)
LEMMA GoesOn ==
  ASSUME TypeOK, NEW w \in Working, NEW step \in Steps
  PROVE  /\ SameTab([w EXCEPT !.step = step], w)
         /\ [w EXCEPT !.step = step].step = step
         /\ [w EXCEPT !.step = step].token = w.token
         /\ SameTab([w EXCEPT !.step = "issue", !.token = now], w)
         /\ [w EXCEPT !.step = "issue", !.token = now].step = "issue"
         /\ SameTab(Idle, w)
BY DEF Working, SameTab

LEMMA HeldStep ==
  ASSUME Inv, AloneOnes, Held, [Next]_vars
  PROVE  AloneOnes' /\ Held'
<1> USE DEF Inv
(* A request that answers later, or never, and one that does not answer.   *)
<1>a. ASSUME NEW h \in Handlers, Busy(h), NEW w, handler' = [handler EXCEPT ![h] = w],
             SameTab(w, handler[h]), handler[h].step \notin {"reset", "answer"},
             w # Idle => w.step \notin {"reset", "answer", "read"},
             stored' = stored, cookie' = cookie, disturbed' = disturbed
      PROVE  AloneOnes' /\ Held'
  BY <1>a, AloneStays, HeldStays DEF Carries, Gentle
<1>b. ASSUME NEW h \in Handlers, NEW b \in Browsers, Ask(h, b) \/ StartLogin(h, b)
      PROVE  AloneOnes' /\ Held'
  <2>1. UNCHANGED <<stored, cookie, disturbed>>
    BY <1>b DEF Ask, StartLogin
  <2>2. CASE handler' = handler
    BY <2>1, <2>2 DEF AloneOnes, Held, Keeps, Carries, Busy
  <2>3. CASE \E kind \in Kinds, p \in Passwords \cup Profiles \cup {Nobody} : Arrive(h, kind, b, p)
    BY <2>1, <2>3, HeldByArrival
  <2>4. \/ handler' = handler
        \/ \E kind \in Kinds, p \in Passwords \cup Profiles \cup {Nobody} : Arrive(h, kind, b, p)
    BY <1>b DEF Ask, StartLogin, StartSignUp, StartSocialLogin, StartRefresh, StartLogout,
       StartChangePassword, Kinds
  <2> QED BY <2>2, <2>3, <2>4
<1>c. ASSUME NEW h \in Handlers, Look(h) \/ CheckPassword(h) \/ Create(h)
      PROVE  AloneOnes' /\ Held'
  <2>1. /\ Busy(h) /\ handler[h] \in Working /\ handler[h].step \in {"read", "create"}
        /\ UNCHANGED <<stored, cookie, disturbed>>
    BY <1>c, BusyIsWorking DEF Look, FindForSignUp, FindForSocialLogin, CheckToken,
       FindForLogout, CheckCurrentPassword, CheckPassword, Create, Serving, Doing
  <2>2. ASSUME NEW step \in Steps, step \notin {"read", "reset", "answer"}, Proceed(h, step)
        PROVE  AloneOnes' /\ Held'
    <3>1. SameTab([handler[h] EXCEPT !.step = step], handler[h])
          /\ [handler[h] EXCEPT !.step = step].step = step
      BY <2>1, GoesOn
    <3> QED BY <1>a, <2>1, <2>2, <3>1 DEF Proceed
  <2>3. ASSUME Sign(h)
        PROVE  AloneOnes' /\ Held'
    <3> DEFINE w == [handler[h] EXCEPT !.step = "issue", !.token = now]
    <3>1. SameTab(w, handler[h]) /\ w.step = "issue"
      BY <2>1, GoesOn DEF Steps
    <3>2. handler' = [handler EXCEPT ![h] = w]
      BY <2>3 DEF Sign
    <3> HIDE DEF w
    <3> QED BY <1>a, <2>1, <3>1, <3>2
  <2>4. ASSUME Reject(h)
        PROVE  AloneOnes' /\ Held'
    BY <1>a, <2>1, <2>4 DEF Reject, SameTab
  <2>5. CASE FindForSignUp(h)
    BY <2>2, <2>4, <2>5 DEF FindForSignUp, Steps
  <2>6. CASE FindForSocialLogin(h)
    BY <2>2, <2>3, <2>4, <2>6 DEF FindForSocialLogin, Steps
  <2>7. CASE CheckToken(h)
    BY <2>2, <2>3, <2>4, <2>7 DEF CheckToken, Steps
(* A logout that finds another token stored than its own is not alone in a *)
(* jar that holds the stored one.                                          *)
  <2>8. CASE FindForLogout(h)
    <3>1. CASE handler[h].cookie \in {NoToken} \cup (Cookies \ {stored})
      <4> DEFINE w == [handler[h] EXCEPT !.step = "answer"]
      <4>1. SameTab(w, handler[h]) /\ w.step = "answer"
        BY <2>1, GoesOn DEF Steps
      <4>2. handler' = [handler EXCEPT ![h] = w]
        BY <2>8, <3>1 DEF FindForLogout, Proceed
      <4> HIDE DEF w
      <4>3. handler[h].step = "read" /\ handler[h].kind = "logout"
        BY <2>8 DEF FindForLogout, Serving, Doing
      <4>4. stored # NoToken => \A b \in Browsers : Gentle(handler[h], b, stored) => Gentle(w, b, stored)
        BY <2>1, <3>1, <4>1, <4>3 DEF Gentle, SameTab, Busy
      <4>5. ~Carries(h)
        BY <4>3 DEF Carries
      <4> QED BY <2>1, <4>1, <4>2, <4>4, <4>5, AloneStays, HeldStays
    <3>2. CASE ~(handler[h].cookie \in {NoToken} \cup (Cookies \ {stored}))
      BY <2>2, <2>8, <3>2 DEF FindForLogout, Steps
    <3> QED BY <3>1, <3>2
  <2>9. CASE CheckCurrentPassword(h)
    <3>1. ASSUME NEW new, handler' = [handler EXCEPT ![h].step = "save", ![h].proof = new]
          PROVE  AloneOnes' /\ Held'
      <4> DEFINE w == [handler[h] EXCEPT !.step = "save", !.proof = new]
      <4>1. SameTab(w, handler[h]) /\ w.step = "save"
        BY <2>1 DEF Working, SameTab
      <4>2. handler' = [handler EXCEPT ![h] = w]
        BY <3>1
      <4> HIDE DEF w
      <4> QED BY <1>a, <2>1, <4>1, <4>2
    <3> QED BY <2>4, <2>9, <3>1 DEF CheckCurrentPassword
  <2>10. CASE CheckPassword(h)
    BY <2>3, <2>4, <2>10 DEF CheckPassword
  <2>11. CASE Create(h)
    BY <2>3, <2>4, <2>11 DEF Create
  <2> QED BY <1>c, <2>5, <2>6, <2>7, <2>8, <2>9, <2>10, <2>11 DEF Look
(* The token stored is carried by its own request.                         *)
<1>d. ASSUME NEW h \in Handlers, Issue(h)
      PROVE  AloneOnes' /\ Held'
  <2> DEFINE step == IF handler[h].kind = "login" THEN "reset" ELSE "answer"
             w == [handler[h] EXCEPT !.step = step]
  <2>1. Busy(h) /\ handler[h] \in Working /\ stored' = handler[h].token
        /\ handler' = [handler EXCEPT ![h] = w]
    BY <1>d, BusyIsWorking DEF Issue, Doing, Proceed
  <2>2. step \in {"reset", "answer"} /\ step \in Steps
    BY DEF Steps
  <2> HIDE DEF step
  <2>3. SameTab(w, handler[h]) /\ w.step \in {"reset", "answer"} /\ w.token = handler[h].token
        /\ w \in Working
    BY <2>1, <2>2, GoesOn, Goes
  <2> HIDE DEF w
  <2>4. handler'[h] = w /\ w # Idle
    BY <2>1, <2>3, WorkingIsBusy DEF TypeOK
  <2>5. Held'
    BY <2>1, <2>3, <2>4 DEF Held, Carries, Busy
  <2> QED BY <2>1, <2>3, <2>5, AloneStays
<1>e. ASSUME NEW h \in Handlers, Wipe(h) \/ Logout(h)
      PROVE  AloneOnes' /\ Held'
  <2> DEFINE w == [handler[h] EXCEPT !.step = "answer"]
  <2>1. Busy(h) /\ handler[h] \in Working /\ stored' = NoToken
    BY <1>e, BusyIsWorking DEF Wipe, Logout, Doing, EndSession
  <2>2. SameTab(w, handler[h]) /\ SameTab(Idle, handler[h])
    BY <2>1, GoesOn DEF Steps
  <2>3. handler' = [handler EXCEPT ![h] = w] \/ handler' = [handler EXCEPT ![h] = Idle]
    BY <1>e DEF Wipe, Logout, Proceed, Reject
  <2> HIDE DEF w
  <2> QED BY <2>1, <2>2, <2>3, AloneStays DEF Held
<1>f. ASSUME NEW h \in Handlers, SavePassword(h) \/ Fails(h)
      PROVE  AloneOnes' /\ Held'
  <2>1. /\ Busy(h) /\ handler[h].step \notin {"reset", "answer"} /\ Reject(h)
        /\ UNCHANGED <<stored, cookie, disturbed>>
    BY <1>f DEF SavePassword, Fails, Doing
  <2> QED BY <1>a, <2>1 DEF Reject, SameTab
<1>g. ASSUME NEW h \in Handlers, ResetLoginRateLimit(h)
      PROVE  AloneOnes' /\ Held'
  <2> DEFINE w == [handler[h] EXCEPT !.step = "answer"]
  <2>1. /\ Busy(h) /\ handler[h] \in Working /\ handler[h].step = "reset"
        /\ handler' = [handler EXCEPT ![h] = w] /\ UNCHANGED <<stored, cookie, disturbed>>
    BY <1>g, BusyIsWorking DEF ResetLoginRateLimit, Doing, Proceed
  <2>2. SameTab(w, handler[h]) /\ w.step = "answer" /\ w.token = handler[h].token /\ w \in Working
    BY <2>1, GoesOn, Goes DEF Steps
  <2> HIDE DEF w
  <2>3. \A b \in Browsers : Gentle(handler[h], b, stored) => Gentle(w, b, stored)
    BY <2>1, <2>2 DEF Gentle, SameTab, Busy
  <2>4. Carries(h) => w # Idle /\ w.step \in {"reset", "answer"} /\ w.token = stored
    BY <2>2, WorkingIsBusy DEF Carries
  <2> QED BY <2>1, <2>2, <2>3, <2>4, AloneStays, HeldStays
(* An answer gives the jar the stored token, or leaves it to others, or    *)
(* takes it away from a jar that it was not alone with.                    *)
<1>h. ASSUME NEW h \in Handlers, Answer(h)
      PROVE  AloneOnes' /\ Held'
  <2> DEFINE own == handler[h].browser
             tok == handler[h].token
  <2>1. /\ Busy(h) /\ handler[h] \in Working /\ handler[h].step = "answer"
        /\ handler' = [handler EXCEPT ![h] = Idle] /\ stored' = stored
        /\ cookie' = [cookie EXCEPT ![own] = tok]
        /\ disturbed' <=> disturbed \/ Overtaken(h)
    BY <1>h, BusyIsWorking DEF Answer, Doing, Reject
  <2>2. own \in Browsers /\ handler'[h] = Idle /\ \A g \in Handlers \ {h} : handler'[g] = handler[g]
    BY <2>1 DEF Working, TypeOK
  <2>3. cookie'[own] = tok /\ \A b \in Browsers \ {own} : cookie'[b] = cookie[b]
    BY <2>1, <2>2 DEF TypeOK
  <2> HIDE DEF own, tok
  <2>4. AloneOnes'
    BY <2>1, AloneStays DEF SameTab
  <2>5. CASE stored = NoToken \/ disturbed
    <3>1. stored' = NoToken \/ disturbed'
      BY <1>h, <2>1, <2>5 DEF Answer
    <3> QED BY <2>4, <3>1 DEF Held
  <2>6. CASE tok = stored
    <3>1. \A g \in Handlers \ {h} : Busy(g) /\ handler[g].browser = own => ~handler[g].alone
      <4>1. Busy(h)
        BY <2>1
      <4> QED BY <4>1 DEF AloneOnes, own
    <3>2. \A g \in Handlers : Gentle(handler'[g], own, stored)
      BY <2>2, <3>1 DEF Gentle, Busy
    <3> QED BY <2>1, <2>2, <2>3, <2>4, <2>6, <3>2 DEF Held, Keeps
  <2>7. ASSUME NEW g \in Handlers, Carries(g), g # h
        PROVE  Held'
    <3>1. handler'[g] = handler[g] /\ stored' = stored
      BY <2>1, <2>2, <2>7
    <3>2. Carries(g)'
      BY <2>7, <3>1 DEF Carries, Busy
    <3> QED BY <3>2 DEF Held
  <2>8. ASSUME NEW b \in Browsers, Keeps(b), tok # stored, stored # NoToken
        PROVE  Held'
    <3>1. CASE b = own
      <4>1. ~handler[h].alone
        BY <2>1, <2>8, <3>1 DEF Keeps, Gentle, Busy, own, tok
      <4>2. Overtaken(h)
        BY <2>8, <3>1, <4>1 DEF Overtaken, Keeps, own, tok
      <4> QED BY <2>1, <4>2 DEF Held
    <3>2. CASE b # own
      <4>1. \A g \in Handlers : Gentle(handler'[g], b, stored)
        BY <2>2, <2>8 DEF Keeps, Gentle
      <4> QED BY <2>1, <2>3, <2>8, <3>2, <4>1 DEF Held, Keeps
    <3> QED BY <3>1, <3>2
  <2>9. Carries(h) => tok = stored
    BY DEF Carries, tok
  <2> QED BY <2>4, <2>5, <2>6, <2>7, <2>8, <2>9 DEF Held
<1>i. ASSUME NEW h \in Handlers, AnswerIsLost(h)
      PROVE  AloneOnes' /\ Held'
  <2>1. /\ Busy(h) /\ handler' = [handler EXCEPT ![h] = Idle]
        /\ stored' = stored /\ cookie' = cookie
        /\ disturbed' <=> disturbed \/ Carries(h)
    BY <1>i DEF AnswerIsLost, Doing, Reject
  <2> QED BY <2>1, AloneStays, HeldStays DEF SameTab, Gentle
<1>j. CASE Crash
  <2>1. /\ \A h \in Handlers : handler'[h] = Idle
        /\ stored' = stored /\ cookie' = cookie
        /\ disturbed' <=> disturbed \/ \E h \in Handlers : Carries(h)
    BY <1>j DEF Crash
  <2>2. AloneOnes'
    BY <2>1 DEF AloneOnes, Busy
  <2>3. \A b \in Browsers : Keeps(b) => Keeps(b)'
    BY <2>1 DEF Keeps, Gentle
  <2> QED BY <2>1, <2>2, <2>3 DEF Held
<1>k. CASE WindowEnds \/ Tick \/ UNCHANGED vars
  <2>1. UNCHANGED <<stored, cookie, handler, disturbed>>
    BY <1>k DEF WindowEnds, Tick, vars
  <2> QED BY <2>1 DEF AloneOnes, Held, Keeps, Carries, Busy
<1> QED
  BY <1>b, <1>c, <1>d, <1>e, <1>f, <1>g, <1>h, <1>i, <1>j, <1>k DEF Next, Serve

(* While a session is stored, some jar holds its token or is about to be   *)
(* given it, unless an answer was lost or overtaken: a refresh, a login or *)
(* a logout that is alone with its jar never leaves a session to nobody,   *)
(* whatever the other browsers do.                                         *)
THEOREM SessionHeld == Spec => []SessionIsHeld
<1>1. Init => AloneOnes /\ Held
  BY DEF Init, AloneOnes, Busy, Held
<1>2. Inv /\ AloneOnes /\ Held /\ [Next]_vars => (AloneOnes /\ Held)'
  BY HeldStep
<1>3. Held => SessionIsHeld
  BY DEF Held, Keeps, SessionIsHeld
<1> QED BY Inductive, <1>1, <1>2, <1>3, PTL DEF Spec

-----------------------------------------------------------------------------
(* The limiter.  Every wrong password and every login in flight has an     *)
(* attempt that is still counted, except for those that were in flight     *)
(* when the count was cleared.                                             *)
Logins == {h \in Handlers : Busy(h) /\ handler[h].kind = "login"}

Counted == IF hits <= MAX_FAILED_LOGIN_ATTEMPTS THEN hits ELSE MAX_FAILED_LOGIN_ATTEMPTS

AttemptsAreCounted == failed + Cardinality(Logins) <= Counted + Cardinality(Handlers)

LEMMA LoginsAreFew ==
  /\ IsFiniteSet(Logins) /\ Cardinality(Logins) \in Nat
  /\ Cardinality(Handlers) \in Nat /\ Cardinality(Logins) <= Cardinality(Handlers)
BY HandlerAssumption, FS_Subset, FS_CardinalityType DEF Logins

(* How the logins in flight change when only h does.                       *)
LEMMA LoginsChange ==
  ASSUME NEW h \in Handlers, h \in Logins' => h \notin Logins,
         \A g \in Handlers \ {h} : g \in Logins' <=> g \in Logins
  PROVE  /\ Cardinality(Logins') \in Nat
         /\ h \in Logins => Cardinality(Logins') = Cardinality(Logins) - 1
         /\ h \notin Logins /\ h \notin Logins' => Cardinality(Logins') = Cardinality(Logins)
         /\ h \in Logins' => Cardinality(Logins') = Cardinality(Logins) + 1
<1>1. Logins \subseteq Handlers /\ Logins' \subseteq Handlers
  BY DEF Logins
<1>2. IsFiniteSet(Logins) /\ Cardinality(Logins) \in Nat
  BY LoginsAreFew
<1>3. CASE h \in Logins
  <2>1. Logins' = Logins \ {h}
    BY <1>1, <1>3
  <2>2. Cardinality(Logins') = Cardinality(Logins) - 1 /\ IsFiniteSet(Logins')
    BY <1>2, <1>3, <2>1, FS_RemoveElement
  <2> QED BY <1>3, <2>2, FS_CardinalityType
<1>4. CASE h \in Logins'
  <2>1. Logins' = Logins \cup {h} /\ h \notin Logins
    BY <1>1, <1>4
  <2> QED BY <1>2, <1>4, <2>1, FS_AddElement
<1>5. CASE h \notin Logins /\ h \notin Logins'
  <2>1. Logins' = Logins
    BY <1>1, <1>5
  <2> QED BY <1>2, <1>5, <2>1
<1> QED BY <1>3, <1>4, <1>5

(* A request that goes on keeps its kind, and leaves every count.          *)
LEMMA LoginGoesOn ==
  ASSUME \A g \in Handlers : g \in Logins' <=> g \in Logins
  PROVE  Logins' = Logins
BY DEF Logins

LEMMA CountedType ==
  ASSUME TypeOK
  PROVE  Counted \in Nat /\ Counted <= MAX_FAILED_LOGIN_ATTEMPTS
BY BoundAssumption DEF TypeOK, Counted

LEMMA LimitStep ==
  ASSUME Inv, Inv', AttemptsAreCounted, [Next]_vars
  PROVE  AttemptsAreCounted'
<1> DEFINE cards == Cardinality(Logins)
           after == Cardinality(Logins')
           all == Cardinality(Handlers)
<1>1. cards \in Nat /\ all \in Nat /\ cards <= all
  BY LoginsAreFew
<1>2. Counted \in Nat /\ failed \in Nat /\ hits \in Nat /\ MAX_FAILED_LOGIN_ATTEMPTS \in Nat
  BY CountedType, BoundAssumption DEF Inv, TypeOK
<1>3. failed + cards <= Counted + all
  BY DEF AttemptsAreCounted
<1>4. after <= all /\ after \in Nat
  <2>1. Logins' \subseteq Handlers
    BY DEF Logins
  <2> QED BY <2>1, HandlerAssumption, FS_Subset, FS_CardinalityType
<1>5. failed' + after <= Counted' + all => AttemptsAreCounted'
  BY DEF AttemptsAreCounted
<1>a. ASSUME NEW h \in Handlers, NEW b \in Browsers, Ask(h, b)
      PROVE  AttemptsAreCounted'
  <2>1. PICK kind \in Kinds \ {"login"}, proof \in Passwords \cup Profiles \cup {Nobody} :
             Arrive(h, kind, b, proof)
    BY <1>a DEF Ask, StartSignUp, StartSocialLogin, StartRefresh, StartLogout,
       StartChangePassword, Kinds
  <2>2. /\ ~Busy(h) /\ handler'[h] = NewRequest(kind, b, proof)
        /\ \A g \in Handlers \ {h} : /\ handler'[g] # Idle <=> handler[g] # Idle
                                     /\ Busy(g) => handler'[g].kind = handler[g].kind
    BY <2>1, Arrives DEF Inv
  <2>5. handler'[h].kind # "login"
    BY <2>1, <2>2 DEF NewRequest
  <2>6. \A g \in Handlers : g \in Logins' <=> g \in Logins
    BY <2>2, <2>5 DEF Logins, Busy
  <2>3. Logins' = Logins
    BY <2>6, LoginGoesOn
  <2>4. hits' = hits /\ failed' = failed
    BY <1>a DEF Ask
  <2> QED BY <2>3, <2>4 DEF AttemptsAreCounted, Counted
<1>b. ASSUME NEW h \in Handlers, NEW b \in Browsers, StartLogin(h, b)
      PROVE  AttemptsAreCounted'
  <2>1. hits' = hits + 1 /\ failed' = failed
    BY <1>b DEF StartLogin
  <2>2. CASE hits' <= MAX_FAILED_LOGIN_ATTEMPTS
    <3>1. PICK p \in Passwords : Arrive(h, "login", b, p)
      BY <1>b, <2>2 DEF StartLogin
    <3>6. /\ ~Busy(h) /\ handler'[h] = NewRequest("login", b, p) /\ handler'[h] \in Working
          /\ \A g \in Handlers \ {h} : /\ handler'[g] # Idle <=> handler[g] # Idle
                                       /\ Busy(g) => handler'[g].kind = handler[g].kind
      BY <3>1, Arrives DEF Inv, Kinds
    <3>2. h \notin Logins /\ \A g \in Handlers \ {h} : g \in Logins' <=> g \in Logins
      BY <3>6 DEF Logins, Busy
    <3>3. h \in Logins'
      BY <3>6, WorkingIsBusy DEF Logins, Busy, NewRequest
    <3>4. after = cards + 1
      BY <3>2, <3>3, LoginsChange
    <3>5. Counted' = Counted + 1
      BY <1>2, <2>1, <2>2 DEF Counted
    <3> HIDE DEF cards, after, all
    <3> QED BY <1>1, <1>2, <1>3, <1>5, <2>1, <3>4, <3>5
  <2>3. CASE ~(hits' <= MAX_FAILED_LOGIN_ATTEMPTS)
    <3>1. Logins' = Logins
      BY <1>b, <2>3 DEF StartLogin, Logins, Busy
    <3>2. Counted' = MAX_FAILED_LOGIN_ATTEMPTS /\ Counted <= MAX_FAILED_LOGIN_ATTEMPTS
      BY <1>2, <2>1, <2>3 DEF Counted
    <3>3. after = cards
      BY <3>1
    <3> HIDE DEF cards, after, all
    <3> QED BY <1>1, <1>2, <1>3, <1>5, <2>1, <3>2, <3>3
  <2> QED BY <2>2, <2>3
(* The count is cleared, and the wrong passwords with it.                  *)
<1>c. ASSUME hits' = 0, failed' = 0
      PROVE  AttemptsAreCounted'
  <2>1. Counted' = 0
    BY <1>2, <1>c DEF Counted
  <2> HIDE DEF after, all
  <2> QED BY <1>1, <1>4, <1>5, <1>c, <2>1
(* A request of any kind goes on.                                          *)
<1>d. ASSUME NEW h \in Handlers, NEW w \in Working, Busy(h), w.kind = handler[h].kind,
             handler' = [handler EXCEPT ![h] = w], hits' = hits, failed' = failed
      PROVE  AttemptsAreCounted'
  <2>1. \A g \in Handlers : g \in Logins' <=> g \in Logins
    BY <1>d, WorkingIsBusy DEF Inv, TypeOK, Logins, Busy
  <2>2. Logins' = Logins
    BY <2>1, LoginGoesOn
  <2> QED BY <1>d, <2>2 DEF AttemptsAreCounted, Counted
(* A request ends: an attempt that fails stays counted, one that is taken  *)
(* back was a login.                                                       *)
<1>e. ASSUME NEW h \in Handlers, Reject(h), Busy(h),
             \/ hits' = hits /\ failed' = failed
             \/ hits' = hits /\ failed' = failed + 1 /\ handler[h].kind = "login"
             \/ hits' = hits - 1 /\ hits > 0 /\ failed' = failed /\ handler[h].kind = "login"
      PROVE  AttemptsAreCounted'
  <2>1. handler' = [handler EXCEPT ![h] = Idle]
    BY <1>e DEF Reject
  <2>2. h \notin Logins' /\ \A g \in Handlers \ {h} : g \in Logins' <=> g \in Logins
    BY <2>1 DEF Inv, TypeOK, Logins, Busy
  <2>3. handler[h].kind = "login" => h \in Logins
    BY <1>e DEF Logins
  <2>4. /\ h \in Logins => after = cards - 1
        /\ h \notin Logins => after = cards
    BY <2>2, LoginsChange
  <2>5. /\ hits' = hits => Counted' = Counted
        /\ hits' = hits - 1 /\ hits > 0 => Counted' >= Counted - 1 /\ Counted' \in Nat
    BY <1>2 DEF Counted
  <2> HIDE DEF cards, after, all
  <2> QED BY <1>1, <1>2, <1>3, <1>5, <1>e, <2>3, <2>4, <2>5
<1>f. ASSUME NEW h \in Handlers, Serve(h)
      PROVE  AttemptsAreCounted'
  <2>1. Busy(h) /\ handler[h] \in Working
    <3>1. Busy(h)
      BY <1>f DEF Serve, Look, FindForSignUp, FindForSocialLogin, CheckToken, FindForLogout,
         CheckCurrentPassword, CheckPassword, Create, Issue, Wipe, Logout, SavePassword,
         ResetLoginRateLimit, Answer, AnswerIsLost, Fails, Serving, Doing
    <3> QED BY <3>1, BusyIsWorking DEF Inv
  <2>2. ASSUME NEW step \in Steps, Proceed(h, step), hits' = hits, failed' = failed
        PROVE  AttemptsAreCounted'
    BY <1>d, <2>1, <2>2, Goes DEF Proceed
  <2>3. ASSUME Sign(h), hits' = hits, failed' = failed
        PROVE  AttemptsAreCounted'
    BY <1>d, <2>1, <2>3, Signs DEF Sign, Inv
  <2>4. CASE Look(h)
    <3>1. hits' = hits /\ failed' = failed
      BY <2>4 DEF Look
    <3>2. CASE FindForSignUp(h) \/ FindForSocialLogin(h) \/ CheckToken(h) \/ FindForLogout(h)
      BY <1>e, <2>1, <2>2, <2>3, <3>1, <3>2 DEF FindForSignUp, FindForSocialLogin, CheckToken,
         FindForLogout, Steps
    <3>3. CASE CheckCurrentPassword(h)
      <4>1. ASSUME NEW new \in Passwords,
                   handler' = [handler EXCEPT ![h].step = "save", ![h].proof = new]
            PROVE  AttemptsAreCounted'
        <5> DEFINE w == [handler[h] EXCEPT !.step = "save", !.proof = new]
        <5>1. w \in Working /\ w.kind = handler[h].kind
          BY <2>1 DEF Working
        <5>2. handler' = [handler EXCEPT ![h] = w]
          BY <4>1
        <5> HIDE DEF w
        <5> QED BY <1>d, <2>1, <3>1, <5>1, <5>2
      <4> QED BY <1>e, <2>1, <3>1, <3>3, <4>1 DEF CheckCurrentPassword
    <3> QED BY <2>4, <3>2, <3>3 DEF Look
  <2>5. CASE CheckPassword(h)
    BY <1>e, <2>1, <2>3, <2>5 DEF CheckPassword, Serving
  <2>6. CASE Create(h) \/ Issue(h)
    BY <1>e, <2>1, <2>2, <2>3, <2>6 DEF Create, Issue, Steps
  <2>7. CASE Wipe(h) \/ Logout(h) \/ SavePassword(h) \/ Fails(h)
    BY <1>e, <2>1, <2>2, <2>7 DEF Wipe, Logout, EndSession, SavePassword, Fails, Steps
  <2>8. CASE ResetLoginRateLimit(h)
    BY <1>c, <2>8 DEF ResetLoginRateLimit
  <2>9. CASE Answer(h) \/ AnswerIsLost(h)
    BY <1>e, <2>1, <2>9 DEF Answer, AnswerIsLost, ForgetSuccess
  <2> QED BY <1>f, <2>4, <2>5, <2>6, <2>7, <2>8, <2>9 DEF Serve
<1>g. CASE WindowEnds \/ Crash
  BY <1>c, <1>g DEF WindowEnds, Crash
<1>h. CASE Tick \/ UNCHANGED vars
  BY <1>h DEF Tick, vars, AttemptsAreCounted, Counted, Logins, Busy
<1> QED BY <1>a, <1>b, <1>f, <1>g, <1>h DEF Next

(* Whatever logins overlap, wrong passwords in a row stay limited.         *)
THEOREM LimitedFailures == Spec => []FailuresAreLimited
<1>1. Init => AttemptsAreCounted
  <2> SUFFICES ASSUME Init
               PROVE  AttemptsAreCounted
    OBVIOUS
  <2>1. Logins = {}
    BY DEF Init, Logins, Busy
  <2>2. Counted = 0
    BY BoundAssumption DEF Init, Counted
  <2> QED BY <2>1, <2>2, LoginsAreFew, FS_EmptySet DEF Init, AttemptsAreCounted
<1>2. Inv /\ Inv' /\ AttemptsAreCounted /\ [Next]_vars => AttemptsAreCounted'
  BY LimitStep
<1>3. Inv /\ AttemptsAreCounted => FailuresAreLimited
  <2> SUFFICES ASSUME Inv, AttemptsAreCounted
               PROVE  FailuresAreLimited
    OBVIOUS
  <2>1. failed \in Nat /\ Counted \in Nat /\ Counted <= MAX_FAILED_LOGIN_ATTEMPTS
    BY CountedType DEF Inv, TypeOK
  <2> QED BY <2>1, BoundAssumption, LoginsAreFew DEF AttemptsAreCounted, FailuresAreLimited
<1> QED BY Inductive, <1>1, <1>2, <1>3, PTL DEF Spec

-----------------------------------------------------------------------------
(* EmailVerification.  Behind every verified token, and so behind every    *)
(* sign-up in flight and every account, stands a code typed in time.       *)
Code(p) == [purpose |-> "challenge", who |-> p.who, code |-> p.code, at |-> p.sent]
Proved(w, m) == \E p \in typed : p.who = w /\ p.at <= m /\ m < p.at + VerifiedLife

EntryInv ==
  /\ EmailTypeOK
  /\ \A t \in issued : t.at <= clock
  /\ \A p \in typed : Code(p) \in issued /\ p.sent <= p.at /\ p.at < p.sent + CodeLife
  /\ \A t \in issued : t.purpose = "verified" => \E p \in typed : p.who = t.who /\ p.at = t.at
  /\ \A s \in signing : Proved(s.who, s.at)
  /\ \A w \in Identities : joined[w] # Never => Proved(w, joined[w])

(* What a confirmed code was worth stays so whatever is typed later.       *)
LEMMA MoreTyped ==
  ASSUME EntryInv, typed \subseteq typed', issued \subseteq issued'
  PROVE  /\ \A w \in Identities, m \in Times : Proved(w, m) => Proved(w, m)'
         /\ \A p \in typed : Code(p) \in issued'
BY DEF EntryInv, Proved, Code

LEMMA EmailTypeStep ==
  ASSUME EmailTypeOK, [EmailNext]_emailVars
  PROVE  EmailTypeOK'
<1> USE DEF EmailTypeOK
<1>1. \A kind \in {"send", "confirm"}, w \in Identities :
        Admitted(kind, w) =>
          attempts' \in [{"send", "confirm"} \X Identities ->
                           [count : Nat, since : Times \cup {Never}]]
  <2>1. ASSUME NEW kind \in {"send", "confirm"}, NEW w \in Identities, Admitted(kind, w)
        PROVE  attempts' \in [{"send", "confirm"} \X Identities ->
                           [count : Nat, since : Times \cup {Never}]]
    <3> DEFINE new == [count |-> Current(kind, w).count + 1, since |-> Current(kind, w).since]
    <3>1. new \in [count : Nat, since : Times \cup {Never}]
      BY DEF Current
    <3>2. attempts' = [attempts EXCEPT ![<<kind, w>>] = new]
      BY <2>1 DEF Admitted
    <3> HIDE DEF new
    <3> QED BY <3>1, <3>2
  <2> QED BY <2>1
<1>2. ASSUME NEW w \in Identities, SendEmailVerification(w)
      PROVE  EmailTypeOK'
  <2>1. issued' \subseteq Token
    BY <1>2 DEF SendEmailVerification, Challenge, Token
  <2> QED BY <1>1, <1>2, <2>1 DEF SendEmailVerification
<1>3. ASSUME NEW w \in Identities, ConfirmEmailVerification(w)
      PROVE  EmailTypeOK'
  <2>1. tries' \in [Identities \X Times -> Nat]
    BY <1>3 DEF ConfirmEmailVerification
  <2>2. issued' \subseteq Token
    BY <1>3 DEF ConfirmEmailVerification, Verified, Token
  <2>3. typed' \subseteq [who : Identities, code : Codes, sent : Times, at : Times]
    BY <1>3, CodeAssumption DEF ConfirmEmailVerification, Token
  <2> QED BY <1>1, <1>3, <2>1, <2>2, <2>3 DEF ConfirmEmailVerification
<1>4. ASSUME NEW w \in Identities, CheckSignUp(w)
      PROVE  EmailTypeOK'
  BY <1>4 DEF CheckSignUp
<1>5. ASSUME NEW s \in signing, CreateUser(s)
      PROVE  EmailTypeOK'
  BY <1>5 DEF CreateUser
<1>6. CASE Reboot
  BY <1>6 DEF Reboot, Unused
<1>7. CASE TimePasses
  BY <1>7, TimeAssumption DEF TimePasses, Times
<1> QED BY <1>2, <1>3, <1>4, <1>5, <1>6, <1>7 DEF EmailNext, emailVars

LEMMA EntryStep ==
  ASSUME EntryInv, [EmailNext]_emailVars
  PROVE  EntryInv'
<1>1. EmailTypeOK'
  BY EmailTypeStep DEF EntryInv
<1>2. ASSUME NEW w \in Identities, SendEmailVerification(w)
      PROVE  EntryInv'
  <2>1. /\ UNCHANGED <<clock, joined, signing, typed>> /\ issued \subseteq issued'
        /\ \A t \in issued' : t \in issued \/ (t.purpose = "challenge" /\ t.at = clock)
    <3>1. UNCHANGED <<clock, joined, signing, typed>>
      BY <1>2 DEF SendEmailVerification
    <3>2. CASE UNCHANGED issued
      BY <3>1, <3>2
    <3>3. ASSUME NEW code \in Codes, issued' = issued \cup {Challenge(w, code)}
          PROVE  /\ issued \subseteq issued'
                 /\ \A t \in issued' : t \in issued \/ (t.purpose = "challenge" /\ t.at = clock)
      BY <3>3 DEF Challenge
    <3> QED BY <1>2, <3>1, <3>2, <3>3 DEF SendEmailVerification
  <2>2. \A t \in issued' : t.at <= clock'
    BY <2>1 DEF EntryInv, EmailTypeOK, Times
  <2> QED BY <1>1, <2>1, <2>2 DEF EntryInv, Proved, Code
<1>3. ASSUME NEW w \in Identities, ConfirmEmailVerification(w)
      PROVE  EntryInv'
  <2>1. CASE UNCHANGED <<issued, typed>>
    BY <1>1, <1>3, <2>1 DEF ConfirmEmailVerification, EntryInv, Proved, Code
  <2>2. ASSUME NEW t \in issued, Valid(t, "challenge", w), t.code # NoCode,
               typed' = typed \cup {[who |-> t.who, code |-> t.code, sent |-> t.at, at |-> clock]},
               issued' = issued \cup {Verified(w)}
        PROVE  EntryInv'
    <3> DEFINE p == [who |-> t.who, code |-> t.code, sent |-> t.at, at |-> clock]
    <3>1. p \in typed' /\ p.who = w /\ p.at = clock /\ p.sent <= p.at /\ p.at < p.sent + CodeLife
      BY <2>2 DEF Valid, EntryInv
    <3>2. Code(p) \in issued
      BY <2>2 DEF Valid, Code, EntryInv, EmailTypeOK, Token
    <3>3. UNCHANGED <<clock, joined, signing>>
      BY <1>3 DEF ConfirmEmailVerification
    <3>4. Verified(w).who = w /\ Verified(w).at = clock
      BY DEF Verified
    <3>5. \A t1 \in issued' : t1.at <= clock'
      BY <2>2, <3>3, <3>4 DEF EntryInv, EmailTypeOK, Times
    <3>6. \A q \in typed' : Code(q) \in issued' /\ q.sent <= q.at /\ q.at < q.sent + CodeLife
      <4> HIDE DEF p
      <4>1. typed' = typed \cup {p}
        BY <2>2 DEF p
      <4> QED BY <2>2, <3>1, <3>2, <4>1 DEF EntryInv, Code
    <3>7. \A t1 \in issued' : t1.purpose = "verified" =>
            \E q \in typed' : q.who = t1.who /\ q.at = t1.at
      BY <2>2, <3>1, <3>4 DEF EntryInv
    <3>8. \A v \in Identities, m \in Times : Proved(v, m) => Proved(v, m)'
      BY <2>2, MoreTyped
    <3>9. /\ \A s \in signing' : Proved(s.who, s.at)'
          /\ \A v \in Identities : joined'[v] # Never => Proved(v, joined[v])'
      BY <3>3, <3>8 DEF EntryInv, EmailTypeOK
    <3> QED BY <1>1, <3>5, <3>6, <3>7, <3>9 DEF EntryInv
  <2> QED BY <1>3, <2>1, <2>2 DEF ConfirmEmailVerification
<1>4. ASSUME NEW w \in Identities, CheckSignUp(w)
      PROVE  EntryInv'
  <2>1. PICK t \in issued : Valid(t, "verified", w)
    BY <1>4 DEF CheckSignUp
  <2>2. Proved(w, clock)
    BY <2>1 DEF Valid, EntryInv, EmailTypeOK, Times, Token, Proved
  <2>3. /\ UNCHANGED <<clock, joined, issued, typed>>
        /\ signing' = signing \cup {[who |-> w, at |-> clock]}
    BY <1>4 DEF CheckSignUp
  <2> QED BY <1>1, <2>2, <2>3 DEF EntryInv, Proved, Code
<1>5. ASSUME NEW s \in signing, CreateUser(s)
      PROVE  EntryInv'
  <2>1. UNCHANGED <<clock, issued, typed>> /\ signing' \subseteq signing
    BY <1>5 DEF CreateUser
  <2>2. \A w \in Identities : joined'[w] = joined[w] \/ (w = s.who /\ joined'[w] = s.at)
    <3>1. CASE joined[s.who] = Never
      BY <1>5, <3>1 DEF CreateUser, EntryInv, EmailTypeOK
    <3>2. CASE joined[s.who] # Never
      BY <1>5, <3>2 DEF CreateUser
    <3> QED BY <3>1, <3>2
  <2> QED BY <1>1, <2>1, <2>2 DEF EntryInv, Proved, Code
<1>6. CASE Reboot
  BY <1>1, <1>6 DEF Reboot, EntryInv, Proved, Code
<1>7. CASE TimePasses
  <2>1. \A t \in issued' : t.at <= clock'
    BY <1>7 DEF TimePasses, EntryInv, EmailTypeOK, Times, Token
  <2> QED BY <1>1, <1>7, <2>1 DEF TimePasses, EntryInv, Proved, Code
<1>8. CASE UNCHANGED emailVars
  BY <1>1, <1>8 DEF emailVars, EntryInv, Proved, Code
<1> QED BY <1>2, <1>3, <1>4, <1>5, <1>6, <1>7, <1>8 DEF EmailNext

(* A password account exists for an email and a role only if the code      *)
(* mailed to it for that role was typed in time, and used in time.         *)
THEOREM SignUpsAreProved == EmailSpec => []SignUpIsProved
<1>1. EmailInit => EntryInv
  BY TimeAssumption DEF EmailInit, EntryInv, EmailTypeOK, Times, Unused, Never
<1>2. EntryInv /\ [EmailNext]_emailVars => EntryInv'
  BY EntryStep
<1>3. EntryInv => SignUpIsProved
  BY DEF EntryInv, SignUpIsProved, Proved, Code
<1> QED BY <1>1, <1>2, <1>3, PTL DEF EmailSpec

-----------------------------------------------------------------------------
(* While a code lives its email has at most two windows: one that opened   *)
(* before it was sent, all of whose answers count in the window, and one   *)
(* that opened later, which outlives it.  A restart grants another.        *)
Fresh == (1 + reboots) * Limit["confirm"]
Guesses(w, m) ==
  LET a == attempts[<<"confirm", w>>]
      n == tries[<<w, m>>]
  IN  /\ n <= (2 + reboots) * Limit["confirm"]
      /\ clock < m => n = 0
      /\ clock < m + CodeLife =>
           n <= IF a.count = 0 THEN Fresh
                ELSE IF a.since >= m THEN Fresh + a.count ELSE a.count
GuessInv ==
  /\ EmailTypeOK
  /\ \A w \in Identities : attempts[<<"confirm", w>>].count <= Limit["confirm"]
  /\ \A w \in Identities, m \in Times : Guesses(w, m)

LEMMA Allowances ==
  ASSUME NEW l \in Nat, NEW r \in Nat
  PROVE  /\ (1 + r) * l \in Nat /\ (2 + r) * l \in Nat
         /\ (2 + r) * l = (1 + r) * l + l /\ l <= (1 + r) * l
         /\ (1 + (r + 1)) * l = (2 + r) * l /\ (2 + (r + 1)) * l = (2 + r) * l + l
OBVIOUS

LEMMA GuessStep ==
  ASSUME GuessInv, [EmailNext]_emailVars
  PROVE  GuessInv'
<1> DEFINE l == Limit["confirm"]
           a(w) == attempts[<<"confirm", w>>]
<1>1. EmailTypeOK' /\ EmailTypeOK
  BY EmailTypeStep DEF GuessInv
<1>2. /\ l \in Nat /\ reboots \in Nat /\ clock \in Nat /\ CodeLife \in Nat /\ Window \in Nat
      /\ CodeLife <= Window
      /\ \A w \in Identities : a(w).count \in Nat /\ a(w).since \in Nat /\ a(w).count <= l
      /\ \A w \in Identities, m \in Times : tries[<<w, m>>] \in Nat /\ m \in Nat
  BY TimeAssumption, AllowanceAssumption DEF GuessInv, EmailTypeOK, Times, Never
<1>3. /\ Fresh \in Nat /\ (2 + reboots) * l = Fresh + l /\ l <= Fresh
      /\ (1 + (reboots + 1)) * l = Fresh + l /\ (2 + (reboots + 1)) * l = Fresh + l + l
  <2>1. Fresh = (1 + reboots) * l
    BY DEF Fresh
  <2> HIDE DEF l
  <2>2. /\ (1 + reboots) * l \in Nat
        /\ (2 + reboots) * l = (1 + reboots) * l + l /\ l <= (1 + reboots) * l
        /\ (1 + (reboots + 1)) * l = (2 + reboots) * l
        /\ (2 + (reboots + 1)) * l = (2 + reboots) * l + l
    BY <1>2, Allowances
  <2> QED BY <1>2, <2>1, <2>2
<1>4. ASSUME NEW w \in Identities, SendEmailVerification(w)
      PROVE  GuessInv'
  <2>1. \A v \in Identities : a(v)' = a(v)
    BY <1>1, <1>4 DEF SendEmailVerification, Admitted, EmailTypeOK
  <2>2. UNCHANGED <<clock, tries, reboots>>
    BY <1>4 DEF SendEmailVerification
  <2> QED BY <1>1, <2>1, <2>2 DEF GuessInv, Guesses, Fresh
<1>5. ASSUME NEW w \in Identities, ConfirmEmailVerification(w)
      PROVE  GuessInv'
  <2>1. UNCHANGED <<clock, reboots>> /\ Fresh' = Fresh
    BY <1>5 DEF ConfirmEmailVerification, Fresh
  <2>2. \A v \in Identities, m \in Times :
          tries'[<<v, m>>] = IF v = w /\ m <= clock /\ clock < m + CodeLife
                             THEN tries[<<v, m>>] + 1 ELSE tries[<<v, m>>]
    BY <1>5 DEF ConfirmEmailVerification, Alive
  <2>3. \A v \in Identities \ {w} : a(v)' = a(v)
    BY <1>1, <1>5 DEF ConfirmEmailVerification, Admitted, EmailTypeOK
  <2>4. /\ a(w)'.count = Current("confirm", w).count + 1
        /\ a(w)'.since = Current("confirm", w).since
        /\ Current("confirm", w).count < l
    BY <1>1, <1>5 DEF ConfirmEmailVerification, Admitted, EmailTypeOK
  <2>5. \/ (a(w).count = 0 \/ clock >= a(w).since + Window) /\ a(w)'.count = 1 /\ a(w)'.since = clock
        \/ /\ a(w).count # 0 /\ ~(clock >= a(w).since + Window)
           /\ a(w)'.count = a(w).count + 1 /\ a(w)'.since = a(w).since
    BY <2>4 DEF Current
  <2>6. a(w)'.count <= l
    BY <1>2, <2>4 DEF Current
  <2>7. \A v \in Identities, m \in Times : Guesses(v, m)'
    <3>1. ASSUME NEW v \in Identities, NEW m \in Times
          PROVE  Guesses(v, m)'
      <4>1. Guesses(v, m)
        BY DEF GuessInv
      <4>2. CASE v # w
        BY <2>1, <2>2, <2>3, <4>1, <4>2 DEF Guesses
      <4>3. CASE v = w
        <5> DEFINE n == tries[<<w, m>>]
                   n1 == tries'[<<w, m>>]
                   b == a(w)'
        <5>1. /\ n <= Fresh + l /\ (clock < m => n = 0)
              /\ clock < m + CodeLife =>
                   n <= IF a(w).count = 0 THEN Fresh
                        ELSE IF a(w).since >= m THEN Fresh + a(w).count ELSE a(w).count
          BY <1>3, <4>1, <4>3 DEF Guesses
        <5>2. n1 = IF m <= clock /\ clock < m + CodeLife THEN n + 1 ELSE n
          BY <2>2
        <5>3. /\ n1 <= Fresh + l /\ (clock < m => n1 = 0)
              /\ clock < m + CodeLife =>
                   n1 <= IF b.count = 0 THEN Fresh
                         ELSE IF b.since >= m THEN Fresh + b.count ELSE b.count
          <6> HIDE DEF n, n1, b, a, l
          <6>1. n \in Nat /\ m \in Nat
            BY <1>2 DEF n
          <6>2. b.count <= l /\ b.count \in Nat
            BY <1>2, <2>5, <2>6 DEF b
          <6> QED BY <1>2, <1>3, <2>5, <5>1, <5>2, <6>1, <6>2 DEF b
        <5> QED BY <1>3, <2>1, <4>3, <5>3 DEF Guesses
      <4> QED BY <4>2, <4>3
    <3> QED BY <3>1
  <2> QED BY <1>1, <1>2, <2>3, <2>6, <2>7 DEF GuessInv
<1>6. ASSUME UNCHANGED <<clock, attempts, tries, reboots>>
      PROVE  GuessInv'
  BY <1>1, <1>6 DEF GuessInv, Guesses, Fresh
<1>7. CASE Reboot
  <2>1. UNCHANGED <<clock, tries>> /\ reboots' = reboots + 1 /\ Fresh' = Fresh + l
    BY <1>3, <1>7 DEF Reboot, Fresh
  <2>2. \A w \in Identities : a(w)'.count = 0
    BY <1>1, <1>7 DEF Reboot, EmailTypeOK, Unused
  <2>3. \A w \in Identities, m \in Times : Guesses(w, m)'
    <3>1. ASSUME NEW w \in Identities, NEW m \in Times
          PROVE  /\ tries[<<w, m>>] <= Fresh + l + l /\ (clock < m => tries[<<w, m>>] = 0)
                 /\ clock < m + CodeLife => tries[<<w, m>>] <= Fresh + l
      <4>1. Guesses(w, m)
        BY DEF GuessInv
      <4> QED BY <1>2, <1>3, <4>1 DEF Guesses
    <3>2. (2 + reboots') * l = Fresh + l + l
      BY <1>3, <2>1
    <3>3. ASSUME NEW w \in Identities, NEW m \in Times
          PROVE  Guesses(w, m)'
      BY <2>1, <2>2, <3>1, <3>2 DEF Guesses
    <3> QED BY <3>3
  <2> QED BY <1>1, <1>2, <2>2, <2>3 DEF GuessInv
<1>8. CASE TimePasses
  <2>1. UNCHANGED <<attempts, tries, reboots>> /\ clock' = clock + 1 /\ Fresh' = Fresh
    BY <1>8 DEF TimePasses, Fresh
  <2>2. \A w \in Identities, m \in Times : Guesses(w, m)'
    <3>1. ASSUME NEW w \in Identities, NEW m \in Times
          PROVE  Guesses(w, m)'
      <4>1. Guesses(w, m)
        BY DEF GuessInv
      <4>2. m \in Nat
        BY <1>2
      <4> QED BY <1>2, <2>1, <4>1, <4>2 DEF Guesses
    <3> QED BY <3>1
  <2> QED BY <1>1, <2>1, <2>2 DEF GuessInv
<1> QED BY <1>4, <1>5, <1>6, <1>7, <1>8
        DEF EmailNext, CheckSignUp, CreateUser, emailVars

(* However the windows of the limiter lie, at most two of them, and one    *)
(* for each restart, can be spent on guessing at one code.                 *)
THEOREM FewGuesses == EmailSpec => []GuessesAreFew
<1>1. EmailInit => GuessInv
  <2> SUFFICES ASSUME EmailInit PROVE GuessInv
    OBVIOUS
  <2>1. EmailTypeOK
    BY TimeAssumption DEF EmailInit, EmailTypeOK, Times, Unused, Never
  <2>2. \A w \in Identities : attempts[<<"confirm", w>>].count = 0
    BY DEF EmailInit, Unused
  <2>3. Fresh \in Nat /\ (2 + reboots) * Limit["confirm"] \in Nat /\ Limit["confirm"] \in Nat
    BY AllowanceAssumption, Allowances DEF EmailInit, Fresh
  <2>4. \A w \in Identities, m \in Times : tries[<<w, m>>] = 0
    BY DEF EmailInit
  <2> QED BY <2>1, <2>2, <2>3, <2>4 DEF GuessInv, Guesses
<1>2. GuessInv /\ [EmailNext]_emailVars => GuessInv'
  BY GuessStep
<1>3. GuessInv => GuessesAreFew
  BY DEF GuessInv, Guesses, GuessesAreFew
<1> QED BY <1>1, <1>2, <1>3, PTL DEF EmailSpec

-----------------------------------------------------------------------------
(* SocialLogin, for any tabs, choices and number of starts.                *)
SocialInv ==
  /\ SocialTypeOK
  /\ \A t \in Tabs : visit[t] # Home => visit[t].start \in DOMAIN asked
  /\ \A t \in Tabs : At(t, "exchange") => visit[t].choice = asked[visit[t].start]
  /\ \A t \in Tabs : At(t, "provider") => jar = visit[t].start \/ visit[t].start \in crossed
  /\ \A login \in entered : login[1] \in DOMAIN asked /\ login[2] = asked[login[1]]
  /\ OnlyCrossedIsRefused

LEMMA VisitType ==
  ASSUME SocialTypeOK, NEW t \in Tabs, visit[t] # Home
  PROVE  /\ visit[t] \in Away /\ visit[t].start \in Starts /\ visit[t].choice \in Choices
         /\ visit \in [Tabs -> Away \cup {Home}]
BY DEF SocialTypeOK, Away

LEMMA Moved ==
  ASSUME NEW v \in Away, NEW place \in {"provider", "exchange", "answer"}, NEW c \in Choices
  PROVE  /\ [v EXCEPT !.at = place] \in Away
         /\ [v EXCEPT !.at = place].start = v.start
         /\ [v EXCEPT !.at = place].at = place
         /\ [v EXCEPT !.at = place, !.choice = c] \in Away
         /\ [v EXCEPT !.at = place, !.choice = c].start = v.start
         /\ [v EXCEPT !.at = place, !.choice = c].choice = c
         /\ [v EXCEPT !.at = place, !.choice = c].at = place
BY DEF Away

LEMMA AwayIsNotHome == \A v \in Away : v # Home /\ v.at # "home"
BY DEF Away, Home

LEMMA Crossing ==
  ASSUME SocialInv, NEW t \in Tabs
  PROVE  /\ AwayBeside(t) \subseteq Starts
         /\ \A u \in Tabs \ {t} : At(u, "provider") => visit[u].start \in AwayBeside(t)
<1>1. \A u \in Tabs : At(u, "provider") => visit[u].start \in Starts
  BY VisitType DEF SocialInv, At
<1> QED BY <1>1 DEF AwayBeside

LEMMA SocialStep ==
  ASSUME SocialInv, [SocialNext]_socialVars
  PROVE  SocialInv'
<1> USE DEF SocialInv
<1>1. ASSUME NEW t \in Tabs, NEW c \in Choices, StartSocial(t, c)
      PROVE  SocialInv'
  <2> DEFINE n == Len(asked) + 1
             v == [at |-> "provider", start |-> n, choice |-> c]
  <2>1. /\ n \in Starts /\ Len(asked) \in Nat /\ asked' = Append(asked, c) /\ jar' = n
        /\ visit' = [visit EXCEPT ![t] = v] /\ v \in Away
        /\ crossed' = crossed \cup AwayBeside(t) /\ UNCHANGED <<entered, refused>>
    BY <1>1, StartAssumption DEF StartSocial, Starts, Away, Stored, SocialTypeOK
  <2>2. /\ asked' \in Seq(Choices) /\ Len(asked') = n /\ n <= MaxStarts
        /\ DOMAIN asked \subseteq DOMAIN asked' /\ n \in DOMAIN asked'
        /\ \A m \in DOMAIN asked : asked'[m] = asked[m]
    BY <2>1 DEF SocialTypeOK, Starts
  <2>3. SocialTypeOK'
    <3>1. /\ visit' \in [Tabs -> Away \cup {Home}] /\ jar' \in 0..Len(asked')
          /\ entered' \subseteq Starts \X Choices /\ refused' \subseteq Starts
      BY <2>1, <2>2 DEF SocialTypeOK
    <3>2. crossed' \subseteq Starts
      BY <2>1, Crossing DEF SocialTypeOK
    <3> QED BY <2>2, <3>1, <3>2 DEF SocialTypeOK
  <2>4. visit'[t] = v /\ \A u \in Tabs \ {t} : visit'[u] = visit[u]
    BY <2>1 DEF SocialTypeOK
  <2>5. \A u \in Tabs : visit'[u] # Home => visit'[u].start \in DOMAIN asked'
    BY <2>2, <2>4
  <2>6. \A u \in Tabs : At(u, "exchange")' => u # t /\ At(u, "exchange")
    BY <2>4 DEF At
  <2>7. \A u \in Tabs : At(u, "exchange")' => visit'[u].choice = asked'[visit'[u].start]
    <3>1. ASSUME NEW u \in Tabs, At(u, "exchange")'
          PROVE  visit'[u].choice = asked'[visit'[u].start]
      BY <2>2, <2>4, <2>6, <3>1 DEF At
    <3> QED BY <3>1
  <2>8. \A u \in Tabs : At(u, "provider")' => jar' = visit'[u].start \/ visit'[u].start \in crossed'
    BY <2>1, <2>4, Crossing DEF At
  <2>9. \A login \in entered' : login[1] \in DOMAIN asked' /\ login[2] = asked'[login[1]]
    BY <2>1, <2>2
  <2>10. OnlyCrossedIsRefused'
    BY <2>1 DEF OnlyCrossedIsRefused
  <2> QED BY <2>3, <2>5, <2>7, <2>8, <2>9, <2>10
<1>2. ASSUME NEW t \in Tabs, Accept(t)
      PROVE  SocialInv'
  <2>1. /\ visit[t] # Home /\ jar = visit[t].start /\ jar \in DOMAIN asked
        /\ asked[jar] \in Choices
    BY <1>2 DEF Accept, At, SameState, SocialTypeOK
  <2> DEFINE w == [visit[t] EXCEPT !.at = "exchange", !.choice = asked[jar]]
  <2>2. visit' = [visit EXCEPT ![t] = w]
    BY <1>2 DEF Accept
  <2>3. w \in Away /\ w.start = visit[t].start /\ w.choice = asked[jar] /\ w.at = "exchange"
    <3>1. visit[t] \in Away
      BY <2>1, VisitType
    <3>2. \A c \in Choices :
            LET u == [visit[t] EXCEPT !.at = "exchange", !.choice = c]
            IN  u \in Away /\ u.start = visit[t].start /\ u.choice = c /\ u.at = "exchange"
      BY <3>1 DEF Away
    <3> QED BY <2>1, <3>2
  <2> HIDE DEF w
  <2>4. SocialTypeOK'
    BY <1>2, <2>2, <2>3 DEF SocialTypeOK, Accept
  <2>5. visit'[t] = w /\ \A u \in Tabs \ {t} : visit'[u] = visit[u]
    BY <2>2 DEF SocialTypeOK
  <2>6. UNCHANGED <<jar, asked, entered, refused, crossed>>
    BY <1>2 DEF Accept
  <2>7. \A u \in Tabs : visit'[u] # Home => visit'[u].start \in DOMAIN asked
    BY <2>1, <2>3, <2>5
  <2>8. \A u \in Tabs : At(u, "exchange")' => visit'[u].choice = asked[visit'[u].start]
    BY <2>1, <2>3, <2>5 DEF At
  <2>9. \A u \in Tabs : At(u, "provider")' => At(u, "provider") /\ visit'[u] = visit[u]
    BY <2>3, <2>5 DEF At
  <2> QED BY <2>4, <2>6, <2>7, <2>8, <2>9 DEF OnlyCrossedIsRefused
<1>3. ASSUME NEW t \in Tabs, Refuse(t)
      PROVE  SocialInv'
  <2> DEFINE w == [visit[t] EXCEPT !.at = "answer"]
  <2>1. /\ visit[t] # Home /\ visit[t].start \in Starts
        /\ visit' = [visit EXCEPT ![t] = w]
        /\ refused' = refused \cup {visit[t].start}
    BY <1>3, VisitType DEF Refuse, At
  <2>11. w \in Away /\ w.start = visit[t].start /\ w.at = "answer"
    BY <2>1, VisitType, Moved
  <2> HIDE DEF w
  <2>2. visit'[t] = w /\ \A u \in Tabs \ {t} : visit'[u] = visit[u]
    BY <2>1 DEF SocialTypeOK
  <2>3. SocialTypeOK'
    BY <1>3, <2>1, <2>11 DEF SocialTypeOK, Refuse
  <2>4. visit[t].start \in crossed
    <3>1. jar # visit[t].start
      BY <1>3, <2>1, StartAssumption DEF Refuse, SameState, NoState, Starts
    <3> QED BY <1>3, <3>1 DEF Refuse
  <2>5. OnlyCrossedIsRefused'
    BY <1>3, <2>1, <2>4 DEF OnlyCrossedIsRefused, Refuse
  <2> QED BY <1>3, <2>1, <2>11, <2>2, <2>3, <2>5 DEF Refuse, At
<1>4. ASSUME NEW t \in Tabs, Exchange(t)
      PROVE  SocialInv'
  <2> DEFINE w == [visit[t] EXCEPT !.at = "answer"]
  <2>1. /\ visit[t] # Home /\ visit[t].start \in Starts /\ visit[t].choice \in Choices
        /\ visit' = [visit EXCEPT ![t] = w]
        /\ visit[t].choice = asked[visit[t].start] /\ visit[t].start \in DOMAIN asked
    BY <1>4, VisitType DEF Exchange, At
  <2>11. w \in Away /\ w.start = visit[t].start /\ w.at = "answer"
    BY <2>1, VisitType, Moved
  <2> HIDE DEF w
  <2>2. visit'[t] = w /\ \A u \in Tabs \ {t} : visit'[u] = visit[u]
    BY <2>1 DEF SocialTypeOK
  <2>3. entered' \subseteq entered \cup {<<visit[t].start, visit[t].choice>>}
    BY <1>4 DEF Exchange
  <2>4. SocialTypeOK'
    BY <1>4, <2>1, <2>11, <2>3 DEF SocialTypeOK, Exchange
  <2>5. \A login \in entered' : login[1] \in DOMAIN asked /\ login[2] = asked[login[1]]
    BY <2>1, <2>3
  <2> QED BY <1>4, <2>1, <2>11, <2>2, <2>4, <2>5 DEF Exchange, At, OnlyCrossedIsRefused
<1>5. ASSUME NEW t \in Tabs, AnswerCallback(t)
      PROVE  SocialInv'
  <2>1. visit'[t] = Home /\ \A u \in Tabs \ {t} : visit'[u] = visit[u]
    BY <1>5 DEF AnswerCallback, SocialTypeOK
  <2>2. SocialTypeOK'
    BY <1>5, Crossing DEF AnswerCallback, SocialTypeOK, NoState
  <2>3. \A u \in Tabs : At(u, "provider")' => visit'[u].start \in crossed'
    BY <1>5, <2>1, Crossing DEF AnswerCallback, At
  <2> QED BY <1>5, <2>1, <2>2, <2>3 DEF AnswerCallback, At, OnlyCrossedIsRefused
<1>6. ASSUME NEW t \in Tabs, LeaveSocial(t)
      PROVE  SocialInv'
  <2>1. visit'[t] = Home /\ \A u \in Tabs \ {t} : visit'[u] = visit[u]
    BY <1>6 DEF LeaveSocial, SocialTypeOK
  <2>2. SocialTypeOK'
    BY <1>6 DEF LeaveSocial, SocialTypeOK
  <2> QED BY <1>6, <2>1, <2>2 DEF LeaveSocial, At, OnlyCrossedIsRefused
<1>7. CASE StateExpires
  <2> DEFINE beside == {visit[u].start : u \in {v \in Tabs : At(v, "provider")}}
  <2>11. \A u \in Tabs : At(u, "provider") => visit[u].start \in Starts
    BY VisitType DEF At
  <2>12. crossed' = crossed \cup beside
    BY <1>7 DEF StateExpires
  <2>1. crossed' \subseteq Starts /\ crossed \subseteq crossed'
        /\ \A u \in Tabs : At(u, "provider") => visit[u].start \in crossed'
    BY <2>11, <2>12 DEF SocialTypeOK
  <2>2. SocialTypeOK'
    BY <1>7, <2>1 DEF StateExpires, SocialTypeOK, NoState
  <2> QED BY <1>7, <2>1, <2>2 DEF StateExpires, At, OnlyCrossedIsRefused
<1>8. CASE UNCHANGED socialVars
  BY <1>8 DEF socialVars, SocialTypeOK, At, OnlyCrossedIsRefused
<1> QED BY <1>1, <1>2, <1>3, <1>4, <1>5, <1>6, <1>7, <1>8 DEF SocialNext

LEMMA SocialAlways == SocialSpec => []SocialInv
<1>1. SocialInit => SocialInv
  BY StartAssumption DEF SocialInit, SocialInv, SocialTypeOK, At, Home, NoState, OnlyCrossedIsRefused
<1>2. SocialInv /\ [SocialNext]_socialVars => SocialInv'
  BY SocialStep
<1> QED BY <1>1, <1>2, PTL DEF SocialSpec

(* Tabs share the cookie of the state, never each other's choice.          *)
THEOREM ChoicesAreKept == SocialSpec => []ChoiceIsKept
<1>1. SocialInv => ChoiceIsKept
  BY DEF SocialInv, ChoiceIsKept
<1> QED BY SocialAlways, <1>1, PTL

(* Only what another tab did, or ten minutes, can refuse a state.          *)
THEOREM OnlyCrossingRefuses == SocialSpec => []OnlyCrossedIsRefused
<1>1. SocialInv => OnlyCrossedIsRefused
  BY DEF SocialInv
<1> QED BY SocialAlways, <1>1, PTL
=============================================================================
