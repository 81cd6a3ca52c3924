SPECIFICATION Spec
CONSTANTS
  Host = {h1, h2}
  MaxRuns = 2
  MaxEvents = 0
  Times = 1
  Active = 2
  PauseAfter = 2
  Batch = 1
  MaxActs = 0
  MaxFaults = 1
  Null = Null
CHECK_DEADLOCK FALSE
INVARIANT OneAtATime
