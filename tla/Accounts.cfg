SPECIFICATION Spec
CONSTANTS
  e1 = e1
  Accounts = {a1}
  Emails = {e1, e2}
  Committees = {m1}
  Staff = {p1, p2}
  Requests = {r1, r2}
  FirstEmail <- OneEmail
  MaxSessions = 2
  MaxChallenges = 2
  MaxPasskeys = 2
  ChallengeLife = 1
  IdleLife = 2
  AbsoluteLife = 3
  RecentWindow = 1
  MaxTime = 2
  None = None
INVARIANTS
  TypeOK
  AccountRowsAgree
  ProvenOnce
PROPERTIES
  RevokedIsFinal
SYMMETRY Swaps
CHECK_DEADLOCK FALSE
