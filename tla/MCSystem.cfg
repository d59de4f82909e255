SPECIFICATION SystemSpec
CONSTANTS
  f1 = f1
  f2 = f2
  u1 = u1
  u2 = u2
  u3 = u3
  Keys = {f1, f2}
  Slots = {1, 2, 3, 4}
  Hash <- FileHash
  Capacity = 1
  MinLength = 1
  NoKey = NoKey
  Threads = {t1, t2}
  MaxMmaps = 1
  MaxFds = 1
  MaxOpens = 4
  UserKeys = {1, 2}
  kMaxHeight = 2
  MaxEntries = 3
  Nodes = {n1, n2, n3, n4}
  Null = Null
  CrashIn = {"ctor", "idle", "listless"}
  MaxCrashes = 1
  Users = {u1, u2, u3}
  ProcessOf <- UserProcess
  MaxInodes = 2
  MaxExits = 1
  BufferSize = 2
  MaxBytes = 7
  MaxFailures = 2
  Callers = {c1, c2}
  NoOne = NoOne
  MaxWork = 4
  Names = {a, b}
  States = {1, 2}
  MemHandles = {h1, h2}
  MemBlock = 2
  MaxSize = 5
  AppendNew = FALSE
INVARIANTS
  CacheCoherent
  HandlesAreGood
  LimitsRespected
  NothingSkipped
  ListMatchesCalls
  ReturnedIsDurable
  ListIsSound
  NoLockLeft
  BytesKept
  InOrderOneAtATime
  NoWorkForgotten
  StatesCounted
  ReadsAreWritten
SYMMETRY Symmetry
CHECK_DEADLOCK FALSE
