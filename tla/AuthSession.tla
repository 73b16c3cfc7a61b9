----------------------------- MODULE AuthSession -----------------------------
(***************************************************************************)
(* The account of one email and role, and its session: the one refresh     *)
(* token the user row stores, the cookie jars of the browsers that hold    *)
(* it, the requests in flight and the answers under way.  The tabs of a    *)
(* browser share its jar, so several requests may carry the same cookie    *)
(* and their answers may arrive in any order or be lost.                   *)
(*                                                                         *)
(* A refresh token is a JWT of the user and the second it was signed in:   *)
(* two that are signed in the same second are the same string, so a token  *)
(* is that second.                                                         *)
(*                                                                         *)
(* In front of login stands a count of attempts, in the memory of the one  *)
(* server.                                                                 *)
(*                                                                         *)
(* failed, over, disturbed and the field alone of a handler are history:   *)
(* no guard reads them.  CreateAnyway, SkipFailed, RefreshOn and           *)
(* KeepSession are plausible bugs; nothing uses them.                      *)
(***************************************************************************)
EXTENDS Integers, FiniteSets

CONSTANTS
  Browsers, Handlers,
  Passwords,
  Profiles,                   \* social identities with the email of the account
  Nobody,                     \* no account yet
  MAX_FAILED_LOGIN_ATTEMPTS,
  MaxTime                     \* bound: seconds in which tokens are signed

ASSUME HandlerAssumption == IsFiniteSet(Handlers)
ASSUME BoundAssumption == MAX_FAILED_LOGIN_ATTEMPTS \in Nat /\ MaxTime \in Nat \ {0}
ASSUME MethodAssumption == Passwords \cap Profiles = {} /\ Nobody \notin Passwords \cup Profiles

VARIABLES
  now,
  account,    \* how one signs in: Nobody, the password, or the social profile
  stored,     \* the token whose hash the row stores
  cookie,     \* the refresh cookie of each browser
  handler,
  hits,       \* attempts counted by loginRateLimit
  failed,     \* wrong answers since the last success or the start of the window
  over,       \* the session was ended when no refresh was past its check
  disturbed   \* an answer was lost, or overtook that of an overlapping request

vars == <<now, account, stored, cookie, handler, hits, failed, over, disturbed>>

NoToken == 0
Tokens == 1..MaxTime

Cookies == Tokens \cup {NoToken}

Idle == [step |-> "idle"]
Kinds == {"signUp", "socialLogin", "login", "refresh", "logout", "changePassword"}
Working == [step : {"read", "create", "issue", "wipe", "logout", "save", "reset", "answer"},
            kind : Kinds, browser : Browsers, proof : Passwords \cup Profiles \cup {Nobody},
            cookie : Cookies,   \* the cookie it came with, if it is used
            token : Cookies,    \* what its answer puts in the jar
            alone : BOOLEAN]    \* no request of its browser overlaps it

TypeOK ==
  /\ now \in Tokens
  /\ account \in Passwords \cup Profiles \cup {Nobody}
  /\ stored \in Cookies
  /\ cookie \in [Browsers -> Cookies]
  /\ handler \in [Handlers -> Working \cup {Idle}]
  /\ hits \in Nat /\ failed \in Nat
  /\ over \in BOOLEAN /\ disturbed \in BOOLEAN

Init ==
  /\ now = 1
  /\ account = Nobody /\ stored = NoToken
  /\ cookie = [b \in Browsers |-> NoToken]
  /\ handler = [h \in Handlers |-> Idle]
  /\ hits = 0 /\ failed = 0
  /\ over = TRUE /\ disturbed = FALSE

-----------------------------------------------------------------------------
Busy(h) == handler[h] # Idle
Doing(h, step) == Busy(h) /\ handler[h].step = step
Serving(h, kind) == Doing(h, "read") /\ handler[h].kind = kind

Proceed(h, step) == handler' = [handler EXCEPT ![h].step = step]
Reject(h) == handler' = [handler EXCEPT ![h] = Idle]

(* A request of browser b, with the password or the profile it proves.     *)
Arrive(h, kind, b, proof) ==
  LET beside == {g \in Handlers : Busy(g) /\ handler[g].browser = b}
      new == [step |-> "read", kind |-> kind, browser |-> b, proof |-> proof,
              cookie |-> IF kind \in {"refresh", "logout"} THEN cookie[b] ELSE NoToken,
              token |-> NoToken, alone |-> beside = {}]
  IN  /\ ~Busy(h)
      /\ handler' = [g \in Handlers |->
           IF g = h THEN new
           ELSE IF g \in beside THEN [handler[g] EXCEPT !.alone = FALSE] ELSE handler[g]]

(* issueTokens signs first; the write of the hash is awaited.              *)
Sign(h) == handler' = [handler EXCEPT ![h].step = "issue", ![h].token = now]

Issue(h) ==
  /\ Doing(h, "issue")
  /\ stored' = handler[h].token
  /\ over' = (over /\ handler[h].kind = "refresh")
  /\ Proceed(h, IF handler[h].kind = "login" THEN "reset" ELSE "answer")
  /\ UNCHANGED <<now, account, cookie, hits, failed, disturbed>>

-----------------------------------------------------------------------------
(* signUp, for whom the email has been verified, and socialLogin: both     *)
(* look for the account, and create it under the unique email and role.    *)
StartSignUp(h, b) ==
  \E p \in Passwords : Arrive(h, "signUp", b, p)

StartSocialLogin(h, b) ==
  \E p \in Profiles : Arrive(h, "socialLogin", b, p)

FindForSignUp(h) ==
  /\ Serving(h, "signUp")
  /\ IF account = Nobody THEN Proceed(h, "create") ELSE Reject(h)

FindForSocialLogin(h) ==
  /\ Serving(h, "socialLogin")
  /\ \/ account = handler[h].proof /\ Sign(h)
     \/ account = Nobody /\ Proceed(h, "create")
     \/ account \notin {Nobody, handler[h].proof} /\ Reject(h)

CreateAnyway(h) ==
  /\ Doing(h, "create")
  /\ account' = handler[h].proof
  /\ Sign(h)
  /\ UNCHANGED <<now, stored, cookie, hits, failed, over, disturbed>>

Create(h) ==
  /\ Doing(h, "create")
  /\ \/ account = Nobody /\ account' = handler[h].proof /\ Sign(h)
     \/ account # Nobody /\ UNCHANGED account /\ Reject(h)   \* P2002: 409
  /\ UNCHANGED <<now, stored, cookie, hits, failed, over, disturbed>>

-----------------------------------------------------------------------------
(* login.  loginRateLimit counts every attempt before it is served.        *)
StartLogin(h, b) ==
  /\ ~Busy(h) /\ hits < MAX_FAILED_LOGIN_ATTEMPTS + Cardinality(Handlers)
  /\ hits' = hits + 1
  /\ IF hits' <= MAX_FAILED_LOGIN_ATTEMPTS
     THEN \E p \in Passwords : Arrive(h, "login", b, p)
     ELSE UNCHANGED handler
  /\ UNCHANGED <<now, account, stored, cookie, failed, over, disturbed>>

SkipFailed(h) ==
  /\ Serving(h, "login")
  /\ IF account = handler[h].proof
     THEN Sign(h) /\ UNCHANGED <<hits, failed>>
     ELSE Reject(h) /\ hits' = hits - 1 /\ failed' = failed + 1
  /\ UNCHANGED <<now, account, stored, cookie, over, disturbed>>

CheckPassword(h) ==
  /\ Serving(h, "login")
  /\ IF account = handler[h].proof
     THEN Sign(h) /\ UNCHANGED failed
     ELSE Reject(h) /\ failed' = failed + 1
  /\ UNCHANGED <<now, account, stored, cookie, hits, over, disturbed>>

(* A login that succeeds clears the count...                               *)
ResetLoginRateLimit(h) ==
  /\ Doing(h, "reset")
  /\ hits' = 0 /\ failed' = 0
  /\ Proceed(h, "answer")
  /\ UNCHANGED <<now, account, stored, cookie, over, disturbed>>

(* The 30 minutes are over.                                                *)
WindowEnds ==
  /\ hits > 0
  /\ hits' = 0 /\ failed' = 0
  /\ UNCHANGED <<now, account, stored, cookie, handler, over, disturbed>>

-----------------------------------------------------------------------------
(* refresh: the token is replaced if it is the one stored; if another is   *)
(* stored, the session is wiped as a whole.                                *)
StartRefresh(h, b) == cookie[b] # NoToken /\ Arrive(h, "refresh", b, Nobody)

RefreshOn(h) ==
  /\ Serving(h, "refresh")
  /\ \/ stored = NoToken /\ Sign(h)
     \/ stored \notin {NoToken, handler[h].cookie} /\ Proceed(h, "wipe")
     \/ stored = handler[h].cookie /\ Sign(h)

CheckToken(h) ==
  /\ Serving(h, "refresh")
  /\ \/ stored = NoToken /\ Reject(h)
     \/ stored \notin {NoToken, handler[h].cookie} /\ Proceed(h, "wipe")
     \/ stored = handler[h].cookie /\ Sign(h)

PastItsCheck(g) == Doing(g, "issue") /\ handler[g].kind = "refresh"

EndSession ==
  /\ stored' = NoToken
  /\ over' = ~\E g \in Handlers : PastItsCheck(g)
  /\ UNCHANGED <<now, account, cookie, hits, failed, disturbed>>

Wipe(h) == Doing(h, "wipe") /\ EndSession /\ Reject(h)

(* logout ends the session if its cookie is the stored token, and empties  *)
(* the jar in any case.                                                    *)
StartLogout(h, b) == Arrive(h, "logout", b, Nobody)

FindForLogout(h) ==
  /\ Serving(h, "logout")
  /\ Proceed(h, IF handler[h].cookie \in {NoToken} \cup (Cookies \ {stored})
                THEN "answer" ELSE "logout")

KeepSession(h) ==
  /\ Doing(h, "logout") /\ Proceed(h, "answer")
  /\ UNCHANGED <<now, account, stored, cookie, hits, failed, over, disturbed>>

Logout(h) == Doing(h, "logout") /\ EndSession /\ Proceed(h, "answer")

(* changePassword leaves the session as it is.                             *)
StartChangePassword(h, b) ==
  \E p \in Passwords : Arrive(h, "changePassword", b, p)

CheckCurrentPassword(h) ==
  /\ Serving(h, "changePassword")
  /\ IF account = handler[h].proof
     THEN \E new \in Passwords \ {account} :
            handler' = [handler EXCEPT ![h].step = "save", ![h].proof = new]
     ELSE Reject(h)

SavePassword(h) ==
  /\ Doing(h, "save")
  /\ account' = handler[h].proof
  /\ Reject(h)
  /\ UNCHANGED <<now, stored, cookie, hits, failed, over, disturbed>>

-----------------------------------------------------------------------------
(* ... and once it is answered, the limiter takes back its own attempt.    *)
ForgetSuccess(h) ==
  hits' = IF handler[h].kind = "login" /\ hits > 0 THEN hits - 1 ELSE hits

Carries(h) == Busy(h) /\ handler[h].step \in {"reset", "answer"} /\ handler[h].token = stored

(* setAuthCookies, clearAuthCookies: the answer reaches the browser.       *)
Overtaken(h) ==
  /\ ~handler[h].alone
  /\ stored # NoToken
  /\ cookie[handler[h].browser] = stored /\ handler[h].token # stored

Answer(h) ==
  /\ Doing(h, "answer")
  /\ cookie' = [cookie EXCEPT ![handler[h].browser] = handler[h].token]
  /\ disturbed' = (disturbed \/ Overtaken(h))
  /\ ForgetSuccess(h)
  /\ Reject(h)
  /\ UNCHANGED <<now, account, stored, failed, over>>

AnswerIsLost(h) ==
  /\ Doing(h, "answer")
  /\ disturbed' = (disturbed \/ Carries(h))
  /\ ForgetSuccess(h)
  /\ Reject(h)
  /\ UNCHANGED <<now, account, stored, cookie, failed, over>>

(* The database fails: an error is answered, and sets no cookie.           *)
Fails(h) ==
  /\ Busy(h) /\ handler[h].step \notin {"reset", "answer"}
  /\ Reject(h)
  /\ UNCHANGED <<now, account, stored, cookie, hits, failed, over, disturbed>>

(* The server process ends and is started again.                           *)
Crash ==
  /\ \E h \in Handlers : Busy(h)
  /\ handler' = [h \in Handlers |-> Idle]
  /\ hits' = 0 /\ failed' = 0
  /\ disturbed' = (disturbed \/ \E h \in Handlers : Carries(h))
  /\ UNCHANGED <<now, account, stored, cookie, over>>

Tick ==
  /\ now < MaxTime
  /\ now' = now + 1
  /\ UNCHANGED <<account, stored, cookie, handler, hits, failed, over, disturbed>>

-----------------------------------------------------------------------------
(* The steps that only change the request they serve.                      *)
Ask(h, b) ==
  /\ \/ StartSignUp(h, b)
     \/ StartSocialLogin(h, b)
     \/ StartRefresh(h, b)
     \/ StartLogout(h, b)
     \/ StartChangePassword(h, b)
  /\ UNCHANGED <<now, account, stored, cookie, hits, failed, over, disturbed>>

Look(h) ==
  /\ \/ FindForSignUp(h)
     \/ FindForSocialLogin(h)
     \/ CheckToken(h)
     \/ FindForLogout(h)
     \/ CheckCurrentPassword(h)
  /\ UNCHANGED <<now, account, stored, cookie, hits, failed, over, disturbed>>

Serve(h) ==
  \/ Look(h)
  \/ CheckPassword(h)
  \/ Create(h)
  \/ Issue(h)
  \/ Wipe(h)
  \/ Logout(h)
  \/ SavePassword(h)
  \/ ResetLoginRateLimit(h)
  \/ Answer(h)
  \/ AnswerIsLost(h)
  \/ Fails(h)

Next ==
  \/ \E h \in Handlers :
       \/ \E b \in Browsers : Ask(h, b) \/ StartLogin(h, b)
       \/ Serve(h)
  \/ WindowEnds
  \/ Crash
  \/ Tick

Spec == Init /\ [][Next]_vars
=============================================================================
