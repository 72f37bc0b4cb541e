SPECIFICATION OutboxSpec
CONSTANTS
  w1 = w1
  w2 = w2
  e1 = e1
  e2 = e2
  i1 = i1
  Workers <- MCWorkers
  Refs <- MCWorkers
  RefOf <- MCRefOf
  Events <- MCEvents
  Identities = {i1}
  TargetOf <- MCTargetOf
  NoOwner = NoOwner
  LeaseDuration = 2
  MaxAttempts = 2
  BaseBackoff = 1
  MaxBackoff = 2
  MaxLag = 1
  AttemptCap = 3
INVARIANTS
  OutboxTypeOK
  AttemptLedger
  SuccessIsLast
  OverrunOnlyByExpiry
PROPERTIES
  SettledForever
  OverlapOnlyByRevival
