SPECIFICATION TreeSpec
CONSTANTS
  MaxKey = 3
  kNumLevels = 4
  kMaxMemCompactLevel = 2
  ManualRanges <- AllRanges
  FlushDuring = {"automatic"}
  MaxWrites = 4
  MaxDeletes = 0
  MaxSnapshots = 0
  Faults = TRUE
INVARIANTS
  TypeOK
  NewerAbove
  LevelsDisjoint
  ReadsCorrect
CHECK_DEADLOCK FALSE
