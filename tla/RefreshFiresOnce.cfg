SPECIFICATION Spec
CONSTANTS
  Host = {h1}
  Reader = {r1, r2}
  Tokens = 5
  MaxFaults = 0
  Null = Null
SYMMETRY Symmetric
INVARIANT FiresOnce
