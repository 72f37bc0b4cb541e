SPECIFICATION Spec
CONSTANTS
  Workers = {w1}
  Events = {e1}
  Refs = {w1}
  RefOf <- OwnRefOf
  i1 = i1
  Identities = {i1}
  TargetOf <- OneTarget
  NoOwner = NoOwner
  NoTx = NoTx
  LeaseDuration = 3
  MaxAttempts = 3
  BaseBackoff = 1
  MaxBackoff = 1
  MaxLag = 0
  AttemptCap = 4
  WriteTimeout = 1
  Faults = {"read_fails", "write_unknown"}
  CrashBound = 0
  MaxWrites = 3
  MaxHeight = 1
INVARIANTS
  AtMostOneWrite
