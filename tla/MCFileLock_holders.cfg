SPECIFICATION FLSpec
CONSTANTS
  u1 = u1
  u2 = u2
  u3 = u3
  Users = {u1, u2, u3}
  ProcessOf <- UserProcess
  MaxInodes = 2
  MaxExits = 1
INVARIANTS
  OneHolder
CHECK_DEADLOCK FALSE
