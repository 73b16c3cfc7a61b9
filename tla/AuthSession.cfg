SPECIFICATION MCSpec
CONSTANTS
  Browsers = {b1, b2}
  Handlers = {h1, h2}
  Passwords = {p1, p2}
  Profiles = {kakao}
  Nobody = nobody
  MAX_FAILED_LOGIN_ATTEMPTS = 1
  MaxTime = 2
  Identities = {e1, e2}
  Codes = {c1}
  NoCode = nocode
  CodeLife = 2
  VerifiedLife = 2
  Window = 2
  Limit <- MCLimit
  MaxClock = 3
  MaxReboots = 1
  MaxSignUps = 1
  Tabs = {t1, t2}
  Choices = {r1, r2}
  MaxStarts = 3
SYMMETRY Symmetry
INVARIANTS
  SessionIsHeld
  EndedStaysEnded
  FailuresAreLimited
  SignUpIsProved
  GuessesAreFew
  ChoiceIsKept
  OnlyCrossedIsRefused
PROPERTIES
  FirstSignUpWins
CHECK_DEADLOCK FALSE
