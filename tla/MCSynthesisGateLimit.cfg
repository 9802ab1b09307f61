CONSTANTS
  Requests = {r1, r2, r3}
  MaxConcurrent = 1
  MaxHops = 3
SPECIFICATION Spec
INVARIANT ConcurrencyLimit
CHECK_DEADLOCK FALSE
