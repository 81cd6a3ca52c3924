SPECIFICATION Spec
CONSTANTS
  Blob = {b1}
  Holder = {h1}
  Sweeper = {s1, s2}
  Client = {c1}
  Null = Null
  LockLoss = TRUE
  MaxFaults = 1
SYMMETRY Symmetric
INVARIANT PromisedIsKept
