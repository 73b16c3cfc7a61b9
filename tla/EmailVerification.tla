-------------------------- MODULE EmailVerification --------------------------
(***************************************************************************)
(* How a sign-up proves that its email is its own.  The server keeps       *)
(* nothing: it mails a code and hands out a signed challenge token with    *)
(* its hash; who types the code gets a signed verified token, and signs up *)
(* with it.  Both expire.  What it does keep, in the memory of the one     *)
(* process, is how often each email has asked and answered in the last     *)
(* ten minutes.                                                            *)
(*                                                                         *)
(* typed, tries and reboots are history: no guard but that of a bound      *)
(* reads them.                                                             *)
(* OfAnyPurpose and OneMoreTry are plausible bugs; nothing uses them.      *)
(***************************************************************************)
EXTENDS Integers, FiniteSets

CONSTANTS
  Identities,    \* an email with a role: the two are always compared together
  Codes,
  NoCode,
  CodeLife,      \* EMAIL_CODE_EXPIRES_IN
  VerifiedLife,  \* EMAIL_VERIFIED_EXPIRES_IN
  Window,        \* TEN_MINUTES_MS
  Limit,         \* requests of each kind in a window
  MaxClock,      \* bound: the last moment
  MaxSignUps,    \* bound: sign-ups in flight
  MaxReboots     \* bound: restarts of the server

ASSUME CodeAssumption == NoCode \notin Codes
ASSUME TimeAssumption ==
  /\ MaxClock \in Nat \ {0} /\ MaxReboots \in Nat /\ MaxSignUps \in Nat
  /\ CodeLife \in Nat /\ VerifiedLife \in Nat
  /\ Window \in Nat /\ CodeLife <= Window
ASSUME AllowanceAssumption == Limit \in [{"send", "confirm"} -> Nat]

VARIABLES
  clock,
  joined,      \* when the token of the sign-up that made the account was checked
  issued,      \* the signed tokens handed out
  attempts,    \* the windows of the two limiters
  signing,     \* sign-ups past their checks: the password is being hashed
  typed,       \* which code was typed, and when
  tries,       \* answers served while a code sent at that time was valid
  reboots

emailVars == <<clock, joined, issued, attempts, signing, typed, tries, reboots>>

Times == 1..MaxClock
Never == 0
Token == [purpose : {"challenge", "verified"}, who : Identities,
          code : Codes \cup {NoCode}, at : Times]
Unused == [count |-> 0, since |-> Never]

EmailTypeOK ==
  /\ clock \in Times
  /\ joined \in [Identities -> Times \cup {Never}]
  /\ issued \subseteq Token
  /\ attempts \in [{"send", "confirm"} \X Identities ->
                     [count : Nat, since : Times \cup {Never}]]
  /\ signing \subseteq [who : Identities, at : Times]
  /\ typed \subseteq [who : Identities, code : Codes, sent : Times, at : Times]
  /\ tries \in [Identities \X Times -> Nat]
  /\ reboots \in Nat

EmailInit ==
  /\ clock = 1
  /\ joined = [w \in Identities |-> Never]
  /\ issued = {} /\ signing = {} /\ typed = {}
  /\ attempts = [k \in {"send", "confirm"} \X Identities |-> Unused]
  /\ tries = [m \in Identities \X Times |-> 0]
  /\ reboots = 0

-----------------------------------------------------------------------------
(* express-rate-limit: a window opens with its first request and is over   *)
(* ten minutes later.  Beyond the limit a request is answered 429 and      *)
(* changes nothing.                                                        *)
Current(kind, w) ==
  LET a == attempts[<<kind, w>>]
  IN  IF a.count = 0 \/ clock >= a.since + Window
      THEN [count |-> 0, since |-> clock] ELSE a

OneMoreTry(kind, w) ==
  /\ Current(kind, w).count <= Limit[kind]
  /\ attempts' = [attempts EXCEPT ![<<kind, w>>] =
                    [count |-> Current(kind, w).count + 1, since |-> Current(kind, w).since]]

Admitted(kind, w) ==
  /\ Current(kind, w).count < Limit[kind]
  /\ attempts' = [attempts EXCEPT ![<<kind, w>>] =
                    [count |-> Current(kind, w).count + 1, since |-> Current(kind, w).since]]

(* verifyEmailToken, and the comparison with the email and role asked for. *)
OfAnyPurpose(t, purpose, w) ==
  t.who = w /\ clock < t.at + (IF t.purpose = "challenge" THEN CodeLife ELSE VerifiedLife)

Valid(t, purpose, w) ==
  /\ t.purpose = purpose /\ t.who = w
  /\ clock < t.at + (IF purpose = "challenge" THEN CodeLife ELSE VerifiedLife)

Challenge(w, code) == [purpose |-> "challenge", who |-> w, code |-> code, at |-> clock]
Verified(w) == [purpose |-> "verified", who |-> w, code |-> NoCode, at |-> clock]

(* sendEmailVerification: the challenge is handed out once the mail has    *)
(* been accepted.  An email that has an account is refused.                *)
SendEmailVerification(w) ==
  /\ Admitted("send", w)
  /\ \/ UNCHANGED issued    \* 409, or the mail is refused: 503
     \/ /\ joined[w] = Never
        /\ \E code \in Codes : issued' = issued \cup {Challenge(w, code)}
  /\ UNCHANGED <<clock, joined, signing, typed, tries, reboots>>

(* confirmEmailVerification, with any token and any code.                  *)
Alive(m, w) == m[1] = w /\ m[2] <= clock /\ clock < m[2] + CodeLife

ConfirmEmailVerification(w) ==
  /\ Admitted("confirm", w)
  /\ tries' = [m \in Identities \X Times |-> IF Alive(m, w) THEN tries[m] + 1 ELSE tries[m]]
  /\ \/ UNCHANGED <<issued, typed>>     \* another code, an invalid token: 400
     \/ \E t \in issued :
          /\ Valid(t, "challenge", w) /\ t.code # NoCode
          /\ typed' = typed \cup {[who |-> t.who, code |-> t.code, sent |-> t.at, at |-> clock]}
          /\ issued' = issued \cup {Verified(w)}
  /\ UNCHANGED <<clock, joined, signing, reboots>>

(* signUp up to the hash of the password, which is awaited, and from it.   *)
CheckSignUp(w) ==
  /\ Cardinality(signing) < MaxSignUps
  /\ joined[w] = Never
  /\ \E t \in issued : Valid(t, "verified", w)
  /\ signing' = signing \cup {[who |-> w, at |-> clock]}
  /\ UNCHANGED <<clock, joined, issued, attempts, typed, tries, reboots>>

CreateUser(s) ==
  /\ s \in signing
  /\ signing' = signing \ {s}
  /\ joined' = IF joined[s.who] = Never THEN [joined EXCEPT ![s.who] = s.at]
               ELSE joined    \* P2002: 409
  /\ UNCHANGED <<clock, issued, attempts, typed, tries, reboots>>

(* The process ends and is started again: the counts start at zero.        *)
Reboot ==
  /\ attempts' = [k \in DOMAIN attempts |-> Unused]
  /\ reboots < MaxReboots
  /\ reboots' = reboots + 1
  /\ signing' = {}
  /\ UNCHANGED <<clock, joined, issued, typed, tries>>

TimePasses ==
  /\ clock < MaxClock
  /\ clock' = clock + 1
  /\ UNCHANGED <<joined, issued, attempts, signing, typed, tries, reboots>>

EmailNext ==
  \/ \E w \in Identities :
       \/ SendEmailVerification(w)
       \/ ConfirmEmailVerification(w)
       \/ CheckSignUp(w)
  \/ \E s \in signing : CreateUser(s)
  \/ Reboot
  \/ TimePasses

EmailSpec == EmailInit /\ [][EmailNext]_emailVars

-----------------------------------------------------------------------------
(* Nobody joins with a password but who typed the code mailed to that very *)
(* email for that very role, in time, and came back with it in time.       *)
SignUpIsProved ==
  \A w \in Identities : joined[w] # Never =>
    \E p \in typed :
      /\ p.who = w /\ [purpose |-> "challenge", who |-> w, code |-> p.code, at |-> p.sent] \in issued
      /\ p.sent <= p.at /\ p.at < p.sent + CodeLife
      /\ p.at <= joined[w] /\ joined[w] < p.at + VerifiedLife

(* The server does not know how often a code was guessed at; the limiter   *)
(* alone bounds it.  While a code is valid its email is given two windows  *)
(* of answers, however they lie, and one more for each restart.            *)
GuessesAreFew ==
  \A w \in Identities, sent \in Times :
    tries[<<w, sent>>] <= (2 + reboots) * Limit["confirm"]
=============================================================================
