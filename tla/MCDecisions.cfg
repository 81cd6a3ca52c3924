SPECIFICATION Spec
CONSTANTS
  Id = {d1, d2}
  Key = {k1}
  Owner = {o1, o2}
  Null = Null
  Undo = 1
  Ttl = 2
  Stranded = 1
  Gates = {g1}
  Tabs = {t1}
  Shapes <- ChatShapes
  MaxTime = 2
SYMMETRY Symmetric
INVARIANTS AtMostOnce UndoIsClean OneStanding RepeatOnlyAfterAnswer
PROPERTIES ClosedStaysClosed ImplementsAuthority
