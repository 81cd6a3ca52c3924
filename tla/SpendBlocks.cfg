SPECIFICATION Spec
CONSTANTS
  Session = {s1}
  Meter = {m1}
  Tunnel = {t1}
  MaxInFlight = 2
  MaxOutstanding = 2
  MaxCalls = 2
  Ceiling = 1
  Outside = {}
  Null = Null
CHECK_DEADLOCK FALSE
INVARIANTS SpendBlocks
