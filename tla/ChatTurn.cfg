SPECIFICATION Spec
CONSTANTS
  Turn = {t1, t2}
  Null = Null
  MaxFaults = 1
SYMMETRY Symmetric
CHECK_DEADLOCK FALSE
INVARIANTS StopFollows NoSilentEnd ProxyHasOwner
