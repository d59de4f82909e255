SPECIFICATION Spec
CONSTANTS
  Clients = {c1, c2, c3}
  NoThread = NoThread
  Ops = {"put", "flush"}
  BatchCount = 1
  MaxGroup = 2
  WriteBufferSize = 4
  kL0_CompactionTrigger = 4
  kL0_SlowdownWritesTrigger = 8
  kL0_StopWritesTrigger = 12
  MaxOps = 4
  MaxFaults = 0
  MaxSamples = 0
  MaxRounds = 0
  MaxDeeper = 0
SYMMETRY ClientSymmetry
INVARIANTS
  FlushCompactsMemTable
