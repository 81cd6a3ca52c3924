SPECIFICATION Spec
CONSTANTS
  Host = {h1}
  MaxRuns = 3
  MaxEvents = 1
  Times = 2
  Active = 2
  PauseAfter = 2
  Batch = 1
  MaxActs = 1
  MaxFaults = 1
  Null = Null
CHECK_DEADLOCK FALSE
INVARIANTS AgentsTakeTurns EventsAreOwed
PROPERTY CountIsTrue
