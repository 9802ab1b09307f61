CONSTANTS
  Calls = {c1, c2, c3}
  MaxSpawns = 2
  Faults = {"crash", "slow_start", "torn_line", "no_spawn"}
SPECIFICATION HostSpec
INVARIANTS BackendsTyped AwaitedIsPending ProcessInUse AudioAsAsked
PROPERTY EveryCallReturns
CHECK_DEADLOCK FALSE
