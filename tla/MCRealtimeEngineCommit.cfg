CONSTANTS
  s1 = s1
  s2 = s2
  r1 = r1
  r2 = r2
  r3 = r3
  now = now
  Direct = Direct
  None = None
  Sessions = {s1, s2}
  Requests <- Texts
  Of <- Session
  Prio <- Priority
  Chunks <- Counts
  ChunkLen <- Lengths
  Size = 2
  Setups <- OneRequest
SPECIFICATION Spec
PROPERTY CommittedStays
