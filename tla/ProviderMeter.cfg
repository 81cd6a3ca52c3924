SPECIFICATION Spec
CONSTANTS
  Session = {s1, s2}
  Meter = {m1, m2}
  Tunnel = {t1, t2}
  MaxInFlight = 1
  MaxOutstanding = 1
  MaxCalls = 2
  Ceiling = 1
  Outside = {"outage"}
  Null = Null
SYMMETRY Symmetric
INVARIANTS SlotsAreCalls CapHolds StartsBlocked
