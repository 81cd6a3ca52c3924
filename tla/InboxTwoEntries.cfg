SPECIFICATION Spec
CONSTANTS
  Host = {h1}
  Entry = {e1, e2}
  Poll = {p1, p2}
  Null = Null
  MaxAttempts = 2
  MaxFaults = 2
  MaxBreaks = 1
SYMMETRY Symmetric
CHECK_DEADLOCK FALSE
INVARIANTS TypeOK RefsCounted StillListening
PROPERTY ImplementsMailbox
