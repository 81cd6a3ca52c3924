SPECIFICATION FairSpec
CONSTANTS
  Host = {h1, h2}
  Entry = {e1}
  Poll = {p1}
  Null = Null
  MaxAttempts = 2
  MaxFaults = 1
  MaxBreaks = 0
CHECK_DEADLOCK FALSE
PROPERTY NotifyIsHeard
