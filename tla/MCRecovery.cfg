SPECIFICATION RecoverySpec
CONSTANTS
  ReuseLogs = FALSE
  PowerFails = TRUE
  Faults = {"manifest"}
  MaxWrites = 2
  MaxEdits = 4
  MaxFiles = 8
  MaxCrashes = 2
  MaxFaults = 1
  MaxIterators = 1
  FoundFiles <- DamagedDirs
  MaxNumber = 10
  RepairFaults = {"archive", "copy", "build", "openLog", "stat", "finish", "rename", "descriptor", "install", "crash"}
  MaxRepairFaults = 12
  MaxRepairs = 1
  kBlockSize = 6
  kHeaderSize = 2
  Lengths = {0, 3, 4, 9}
  InitialOffsets = {0, 5, 7}
  Damages = {"cut", "reopen", "fail", "flip", "zero", "ioerror"}
  MaxRecords = 3
  MaxDamage = 1
INVARIANTS
  TypeOK
  UsedFilesExist
  SequencesGrow
  OpenSucceeds
  
  OnlyWholeRecords
  TornTailIsQuiet
  LossIsLocal
  NothingReadableIsLost
  RepairIsComplete
CHECK_DEADLOCK FALSE
