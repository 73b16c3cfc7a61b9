------------------------ MODULE AuthSessionProperties ------------------------
(***************************************************************************)
(* What is expected of AuthSession, whatever tabs, browsers, answers and   *)
(* crashes overlap.                                                        *)
(***************************************************************************)
EXTENDS AuthSession

(* No session is left behind: while one is stored, some browser holds its  *)
(* token or is about to be given it, unless that answer was lost or        *)
(* another request of the same browser overlapped and won the jar.         *)
SessionIsHeld ==
  \/ stored = NoToken \/ disturbed
  \/ \E b \in Browsers : cookie[b] = stored
  \/ \E h \in Handlers : Carries(h)

(* A session that a logout or a wipe has ended comes back with credentials *)
(* only; a cookie brings it back only in a refresh that had passed its     *)
(* check before the end.                                                   *)
EndedStaysEnded == over => stored = NoToken

(* Of a sign-up and a social login of the same email that overlap, the     *)
(* first decides how the account is entered: no later one takes it over,   *)
(* and nothing but a change of password changes it.                        *)
KeepsItsMethod ==
  account' # account =>
    account = Nobody \/ (account \in Passwords /\ account' \in Passwords
                           /\ \E h \in Handlers : Doing(h, "save"))

FirstSignUpWins == [][KeepsItsMethod]_vars

(* Wrong passwords in a row: at most the limit, and one more for each      *)
(* request that was in flight when the count was cleared.                  *)
FailuresAreLimited == failed <= MAX_FAILED_LOGIN_ATTEMPTS + Cardinality(Handlers)
=============================================================================
