SPECIFICATION FairSpec
CONSTANTS
  Id = {d1}
  Key = {k1}
  Owner = {o1}
  Null = Null
  Undo = 1
  Ttl = 2
  Stranded = 1
  Gates = {g1}
  Tabs = {t1}
  Shapes <- ChatShapes
  MaxTime = 3
PROPERTIES FlightEnds DueIsClaimed QuestionCloses
