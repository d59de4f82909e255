SPECIFICATION PMSpec
CONSTANTS
  Nodes = {n1, n2, n3}
  Null = Null
  CrashIn = {"ctor"}
  MaxCrashes = 2
SYMMETRY NodeSymmetry
INVARIANTS
  ListIsSound
