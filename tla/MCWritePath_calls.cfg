SPECIFICATION Spec
CONSTANTS
  Clients = {c1, c2, c3}
  NoThread = NoThread
  Ops = {"put", "putsync", "flush", "range", "close"}
  BatchCount = 2
  MaxGroup = 2
  WriteBufferSize = 1
  kL0_CompactionTrigger = 1
  kL0_SlowdownWritesTrigger = 1
  kL0_StopWritesTrigger = 2
  MaxOps = 3
  MaxFaults = 1
  MaxSamples = 1
  MaxRounds = 1
  MaxDeeper = 1
SYMMETRY ClientSymmetry
INVARIANTS
  OneLogger
  VisibleIsAcked
  SyncedIsDurable
  TypeOK
  AckedIsRecoverable
  NoLostWakeup
  ManualAlive
