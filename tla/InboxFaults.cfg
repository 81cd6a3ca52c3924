SPECIFICATION FairSpec
CONSTANTS
  Host = {h1}
  Entry = {e1}
  Poll = {p1, p2}
  Null = Null
  MaxAttempts = 2
  MaxFaults = 2
  MaxBreaks = 0
CHECK_DEADLOCK FALSE
INVARIANTS RefsCounted StillListening
PROPERTIES LandedIsReceived PollIsAnswered
