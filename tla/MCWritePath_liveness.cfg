SPECIFICATION Spec
CONSTANTS
  Clients = {c1, c2}
  NoThread = NoThread
  Ops = {"put", "flush", "range", "close"}
  BatchCount = 1
  MaxGroup = 2
  WriteBufferSize = 0
  kL0_CompactionTrigger = 1
  kL0_SlowdownWritesTrigger = 1
  kL0_StopWritesTrigger = 1
  MaxOps = 3
  MaxFaults = 1
  MaxSamples = 1
  MaxRounds = 1
  MaxDeeper = 0
PROPERTIES
  EveryCallReturns
