SPECIFICATION PMSpec
CONSTANTS
  Nodes = {n1, n2, n3}
  Null = Null
  CrashIn = {"add", "delete"}
  MaxCrashes = 1
SYMMETRY NodeSymmetry
INVARIANTS
  ListIsSound
