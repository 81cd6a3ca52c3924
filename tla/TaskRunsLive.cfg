SPECIFICATION FairSpec
CONSTANTS
  Host = {h1}
  MaxRuns = 2
  MaxEvents = 2
  Times = 1
  Active = 2
  PauseAfter = 2
  Batch = 1
  MaxActs = 1
  MaxFaults = 1
  Null = Null
CHECK_DEADLOCK FALSE
PROPERTIES RunEnds UpdateIsHandled
