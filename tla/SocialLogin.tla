---------------------------- MODULE SocialLogin ----------------------------
(***************************************************************************)
(* The way of a browser through a social login: the server stores a state, *)
(* with the role asked for, in a cookie that all tabs share, the provider  *)
(* sends the tab back with the state of its start, and the answer to that  *)
(* callback clears the cookie whatever its result.                         *)
(*                                                                         *)
(* entered, refused and crossed are history: no guard reads them.          *)
(* AnyState and KeepFirst are plausible bugs; nothing uses them.           *)
(***************************************************************************)
EXTENDS Integers, Sequences

CONSTANTS
  Tabs,
  Choices,     \* the role and the page to return to, as asked for at the start
  MaxStarts    \* bound: logins started

ASSUME StartAssumption == MaxStarts \in Nat

VARIABLES
  jar,        \* the start whose state the cookie holds
  asked,      \* what each login was started with; their states are random and differ
  visit,      \* where each tab is
  entered,    \* logins that took place, and with which choice
  refused,    \* starts that ended in STATE_MISMATCH
  crossed     \* starts away while another tab started or was answered, or too long

socialVars == <<jar, asked, visit, entered, refused, crossed>>

Starts == 1..MaxStarts
NoState == 0
Home == [at |-> "home"]
Away == [at : {"provider", "exchange", "answer"}, start : Starts, choice : Choices]

SocialTypeOK ==
  /\ asked \in Seq(Choices) /\ Len(asked) <= MaxStarts
  /\ jar \in 0..Len(asked)
  /\ visit \in [Tabs -> Away \cup {Home}]
  /\ entered \subseteq Starts \X Choices
  /\ refused \subseteq Starts /\ crossed \subseteq Starts

SocialInit ==
  /\ jar = NoState /\ asked = <<>>
  /\ visit = [t \in Tabs |-> Home]
  /\ entered = {} /\ refused = {} /\ crossed = {}

At(t, place) == visit[t] # Home /\ visit[t].at = place
AwayBeside(t) == {visit[u].start : u \in {v \in Tabs \ {t} : At(v, "provider")}}

-----------------------------------------------------------------------------
(* The cookie of a start replaces the one of an earlier start.             *)
KeepFirst(n) == IF jar = NoState THEN n ELSE jar
Stored(n) == n

(* startSocialLogin; a tab may leave the provider and start again.         *)
StartSocial(t, c) ==
  LET n == Len(asked) + 1 IN
  /\ n <= MaxStarts
  /\ visit[t] = Home \/ At(t, "provider")
  /\ jar' = Stored(n)
  /\ asked' = Append(asked, c)
  /\ visit' = [visit EXCEPT ![t] = [at |-> "provider", start |-> n, choice |-> c]]
  /\ crossed' = crossed \cup AwayBeside(t)
  /\ UNCHANGED <<entered, refused>>

(* socialLoginCallback: the state in the address must be the cookie's; the *)
(* role and the page are taken from the cookie.                            *)
AnyState(t) == jar # NoState
SameState(t) == jar # NoState /\ jar = visit[t].start

Accept(t) ==
  /\ At(t, "provider") /\ SameState(t)
  /\ visit' = [visit EXCEPT ![t].at = "exchange", ![t].choice = asked[jar]]
  /\ UNCHANGED <<jar, asked, entered, refused, crossed>>

Refuse(t) ==
  /\ At(t, "provider") /\ ~SameState(t)
  /\ visit' = [visit EXCEPT ![t].at = "answer"]
  /\ refused' = refused \cup {visit[t].start}
  /\ UNCHANGED <<jar, asked, entered, crossed>>

(* passport exchanges the code for a profile, and socialLogin finds or     *)
(* makes the account; or the user has declined, or one of the two fails.   *)
Exchange(t) ==
  /\ At(t, "exchange")
  /\ visit' = [visit EXCEPT ![t].at = "answer"]
  /\ \/ entered' = entered \cup {<<visit[t].start, visit[t].choice>>}
     \/ UNCHANGED entered
  /\ UNCHANGED <<jar, asked, refused, crossed>>

(* Every answer to a callback clears the cookie, be it of another start.   *)
AnswerCallback(t) ==
  /\ At(t, "answer")
  /\ jar' = NoState
  /\ visit' = [visit EXCEPT ![t] = Home]
  /\ crossed' = crossed \cup AwayBeside(t)
  /\ UNCHANGED <<asked, entered, refused>>

(* The tab is closed, the answer is lost or the server ends.               *)
LeaveSocial(t) ==
  /\ visit[t] # Home
  /\ visit' = [visit EXCEPT ![t] = Home]
  /\ UNCHANGED <<jar, asked, entered, refused, crossed>>

(* The cookie is ten minutes old.                                          *)
StateExpires ==
  /\ jar # NoState
  /\ jar' = NoState
  /\ crossed' = crossed \cup {visit[t].start : t \in {u \in Tabs : At(u, "provider")}}
  /\ UNCHANGED <<asked, visit, entered, refused>>

SocialNext ==
  \/ \E t \in Tabs :
       \/ \E c \in Choices : StartSocial(t, c)
       \/ Accept(t)
       \/ Refuse(t)
       \/ Exchange(t)
       \/ AnswerCallback(t)
       \/ LeaveSocial(t)
  \/ StateExpires

SocialSpec == SocialInit /\ [][SocialNext]_socialVars

-----------------------------------------------------------------------------
(* A tab enters with the role, and returns to the page, that it was sent   *)
(* out with itself: tabs share the cookie and never each other's choice.   *)
ChoiceIsKept == \A login \in entered : login[2] = asked[login[1]]

(* A login is refused for its state only if another tab started one or was *)
(* answered while it was away, or it was away for ten minutes: neither a   *)
(* lost answer nor a login given up before stands in its way.              *)
OnlyCrossedIsRefused == refused \subseteq crossed
=============================================================================
