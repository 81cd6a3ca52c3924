SPECIFICATION FairSpec
CONSTANTS
  Host = {h1}
  Reader = {r1, r2}
  Tokens = 4
  MaxFaults = 1
  Null = Null
INVARIANTS OneResolver RowWorks
PROPERTIES ReadEnds MarkHeals
