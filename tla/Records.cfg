SPECIFICATION Spec
CONSTANTS
  worker = worker
  other = other
  Callers = {worker, other}
  MintLimit <- Limits
  MaxTime = 1
  None = None
  Refs = {r1}
  Members = {m1}
  Decisions = {"approved"}
  Expiry = 1
  MaxVersion = 8
INVARIANTS
  TypeOK
  CommitTogether
  AnswersTruthful
  DatabaseAgrees
PROPERTIES
  DecidesUnconflicted
CHECK_DEADLOCK FALSE
