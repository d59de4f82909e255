SPECIFICATION TablesSpec
CONSTANTS
  MaxKey = 3
  kNumLevels = 3
  kMaxMemCompactLevel = 2
  ManualRanges <- NullRange
  FlushDuring = {"automatic"}
  MaxWrites = 3
  MaxDeletes = 1
  MaxSnapshots = 1
  Faults = FALSE
  AllKeys <- BlockKeys
  RestartInterval = 2
  MaxBlockDamage = 1
  TableKeys = {1, 2, 3, 4}
  AddedKeys = {1, 3}
  BlockSizes = {1, 9}
  kBlockTrailerSize = 1
  kFilterBase = 5
  BitsPerKey = 10
  Probes <- TableProbes
  MaxTableEntries = 3
  MaxTableFaults = 1
  IterKeys = {1, 2}
  IterChildren = {1, 2}
  IterEntries = 3
  IterBlock = 2
  MaxIterWrites = 1
  MaxIterDamage = 1
INVARIANTS
  TableFinds
PROPERTIES
  ImplementsStore
  BlockIsCursor
  IsCursor
CHECK_DEADLOCK FALSE
