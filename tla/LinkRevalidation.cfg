SPECIFICATION Spec
CONSTANTS
  Challenges = {c1,c2}
  Identities = {i1}
  Signer = i1
  Callbacks = {b1}
  ChallengeLife = 2
  TokenLife = 1
  Skew = 0
  None = None
  MaxTime = 2
  MaxRev = 1
  Accounts = {a1}
  Owner <- OneOwner
  Requests = {r1}
  RequestLimit = 2
  AckTries = 2
INVARIANTS
  FreshAfterRevalidation
CHECK_DEADLOCK FALSE
