SPECIFICATION Spec
CONSTANTS
  Challenges = {c1}
  Identities = {i1,i2}
  Signer = i2
  Callbacks = {b1}
  ChallengeLife = 2
  TokenLife = 1
  Skew = 0
  None = None
  MaxTime = 2
  MaxRev = 1
  Accounts = {a1}
  Owner <- OneOwner
  Requests = {r1,r2}
  RequestLimit = 2
  AckTries = 2
INVARIANTS
  TypeOK
  LinkProof
  AckedIsDurable
  OfferedOnlyInTime
PROPERTIES
  KeepsLinkPromise
SYMMETRY LinkSymmetry
CHECK_DEADLOCK FALSE
