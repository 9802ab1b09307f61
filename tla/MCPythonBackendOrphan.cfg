CONSTANTS
  Calls = {c1, c2}
  MaxSpawns = 2
  Faults = {"slow_start"}
SPECIFICATION Spec
INVARIANT NoOrphan
CHECK_DEADLOCK FALSE
