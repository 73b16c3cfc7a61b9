---------------------------- MODULE MCAuthSession ----------------------------
(***************************************************************************)
(* Two browsers, one of which may have two tabs, and one social identity;  *)
(* the same with wrong passwords, in a single second, since a failed login *)
(* touches no token.                                                       *)
(* The verification of emails and the way through a social login keep      *)
(* their state with the client and share none with the session.  Of all    *)
(* these, one moves.                                                       *)
(***************************************************************************)
EXTENDS AuthSessionProperties, EmailVerification, SocialLogin, TLC

VARIABLE part

allVars == <<vars, emailVars, socialVars, part>>

MCLimit == [kind \in {"send", "confirm"} |-> 1]

MCInit ==
  /\ Init /\ EmailInit /\ SocialInit
  /\ part \in {"session", "failures", "email", "social"}

MCNext ==
  /\ \/ part = "session" /\ Next /\ failed' = 0 /\ UNCHANGED <<emailVars, socialVars>>
     \/ part = "failures" /\ Next /\ now' = now /\ UNCHANGED <<emailVars, socialVars>>
     \/ part = "email" /\ EmailNext /\ UNCHANGED <<vars, socialVars>>
     \/ part = "social" /\ SocialNext /\ UNCHANGED <<vars, emailVars>>
  /\ UNCHANGED part

MCSpec == MCInit /\ [][MCNext]_allVars

Symmetry == Permutations(Handlers) \cup Permutations(Browsers) \cup Permutations(Passwords)
=============================================================================
