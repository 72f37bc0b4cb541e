SPECIFICATION Spec
CONSTANTS
  Workers = {w1,w2}
  Events = {e1}
  Refs = {w1,w2}
  RefOf <- OwnRefOf
  i1 = i1
  Identities = {i1}
  TargetOf <- OneTarget
  NoOwner = NoOwner
  NoTx = NoTx
  LeaseDuration = 2
  MaxAttempts = 2
  BaseBackoff = 1
  MaxBackoff = 1
  MaxLag = 0
  AttemptCap = 3
  WriteTimeout = 2
  Faults = {}
  CrashBound = 0
  MaxWrites = 2
  MaxHeight = 2
PROPERTIES
  NoBlindResubmission
