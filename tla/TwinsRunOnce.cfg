SPECIFICATION TogetherSpec
CONSTANTS
  Id = {d1, d2}
  Key = {k1}
  Owner = {o1}
  Null = Null
  Undo = 1
  Ttl = 4
  Stranded = 2
  Gates = {g1}
  Tabs = {t1, t2}
  Shapes <- Unattended
  MaxTime = 2
INVARIANT TwinsRunOnce
