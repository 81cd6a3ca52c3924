SPECIFICATION Spec
CONSTANTS
  Admission = {a1, a2}
  Request = {r1, r2, r3}
  Unasked = {u}
  PerHour = 2
  Cap = 3
  Null = Null
INVARIANTS RateHolds LetIsCounted ChargedOnce RefusedIsFree
