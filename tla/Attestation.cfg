SPECIFICATION Spec
CONSTANTS
  issuer = issuer
  other = other
  q1 = q1
  q2 = q2
  q3 = q3
  p1 = p1
  p2 = p2
  Callers = {issuer, other}
  MintLimit <- Limits
  MaxTime = 2
  None = None
  Attestations = {a1, a2}
  Requests = {q1, q2, q3}
  Owner <- TwoOwners
  MaxValidity = 1
INVARIANTS
  TypeOK
  RecordsAgree
  Succession
  LapsedIsLast
  MovesTold
  StatusAgrees
PROPERTIES
  RevokedForGood
CHECK_DEADLOCK FALSE
SYMMETRY Swaps
