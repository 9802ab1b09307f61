CONSTANTS
  j1 = j1
  j2 = j2
  j3 = j3
  NoJob = NoJob
  Jobs <- ThreeJobs
  Workers = {w1, w2}
  Levels = 2
  Prio <- Priorities
  MaxConcurrent = 1
  MaxRetries = 2
  Floor <- MinActive
  Setups <- OneJob
SPECIFICATION Spec
PROPERTY CancelHonoured
CHECK_DEADLOCK FALSE
