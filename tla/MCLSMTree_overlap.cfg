SPECIFICATION Spec
CONSTANTS
  MaxKey = 3
  kNumLevels = 4
  kMaxMemCompactLevel = 2
  ManualRanges <- NullRange
  FlushDuring = {"automatic", "manual"}
  MaxWrites = 4
  MaxDeletes = 0
  MaxSnapshots = 0
  Faults = FALSE
INVARIANTS
  LevelsDisjoint
CHECK_DEADLOCK FALSE
