SPECIFICATION Spec
CONSTANTS
  Workers = {w1,w2}
  Events = {e1}
  Refs = {w1,w2}
  RefOf <- OwnRefOf
  i1 = i1
  Identities = {i1}
  TargetOf <- OneTarget
  NoOwner = NoOwner
  NoTx = NoTx
  LeaseDuration = 2
  MaxAttempts = 3
  BaseBackoff = 1
  MaxBackoff = 1
  MaxLag = 0
  AttemptCap = 3
  WriteTimeout = 2
  Faults = {"crash", "slow", "read_fails", "write_unknown", "reorg"}
  CrashBound = 9
  MaxWrites = 2
  MaxHeight = 2
INVARIANTS
  TypeOK
  TablesAgree
  ConstraintsHold
  SecondWriteExplained
PROPERTIES
  TriggersAccept
  FencedWrites
  KnownTxKept
  KeepsPromise
  UsesOutbox
SYMMETRY WorkerSymmetry
