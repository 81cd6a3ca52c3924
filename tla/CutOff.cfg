SPECIFICATION Spec
CONSTANTS
  Turn = {t1, t2}
  Null = Null
  MaxFaults = 0
SYMMETRY Symmetric
CHECK_DEADLOCK FALSE
INVARIANT CutOffIsTerminated
