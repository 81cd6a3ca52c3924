SPECIFICATION Spec
CONSTANTS
  Blob = {b1}
  Holder = {h1}
  Sweeper = {s1}
  Client = {c1, c2}
  Null = Null
  LockLoss = FALSE
  MaxFaults = 1
SYMMETRY Symmetric
INVARIANT LossNeedsTwoSweeps
ACTION_CONSTRAINT PromptReads
