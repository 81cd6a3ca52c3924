SPECIFICATION Spec
CONSTANTS
  Host = {h1, h2}
  Entry = {e1, e2}
  Poll = {p1}
  Null = Null
  MaxAttempts = 2
  MaxFaults = 0
  MaxBreaks = 1
SYMMETRY Symmetric
CHECK_DEADLOCK FALSE
INVARIANT NoLostWake
PROPERTIES NotifyIsHeard ImplementsMailbox
