SPECIFICATION FairSpec
CONSTANTS
  Blob = {b1}
  Holder = {h1, h2}
  Sweeper = {s1}
  Client = {c1, c2}
  Null = Null
  LockLoss = TRUE
  MaxFaults = 1
INVARIANTS PromisedIsKept ReadFinds
PROPERTIES LastCopyIsDue DuplicateGoes GarbageGoes
