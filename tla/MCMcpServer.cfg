CONSTANTS
  Requests = {1, 2, 3}
  Agents = {"a1", "a2"}
  Policy <- SmallPolicy
  MaxRequests = 2
  MaxStreams = 1
  MaxStarts = 2
  MaxLate = 2
  Streams = {"s1", "s2"}
  Sessions = {"a", "b"}
  MaxPosition = 2
  MinPlayed = 1
  Interval = 1
  MaxRollback = 1
  Rollback = TRUE
  Calls = {1, 2, 3}
  Policies <- AgentPolicies
  Asked <- SomeRequests
  External = {"openai"}
  Minute = 1
  EndTime = 2
  Threads = {1, 2}
  Prefixed = TRUE
  CacheSecrets = TRUE
  Ttl = 1
  Lives = {0, 1}
  MaxValues = 2
  MaxCalls = 3
  SecretEndTime = 2
  Runs = {1, 2}
  Ids = {"p", "q"}
  MaxTime = 1
  MaxCpu = 1
  Cores = 2
  SandboxEndTime = 2
SPECIFICATION HostSpec
INVARIANTS WellTyped StopsAreHeard RecordsAgree LimitsKept
PROPERTY EveryCallAnswered
CHECK_DEADLOCK FALSE
