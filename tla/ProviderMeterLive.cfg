SPECIFICATION FairSpec
CONSTANTS
  Session = {s1}
  Meter = {m1}
  Tunnel = {t1}
  MaxInFlight = 2
  MaxOutstanding = 2
  MaxCalls = 2
  Ceiling = 2
  Outside = {"suspended","fleet","spend","window","outage"}
  Null = Null
PROPERTIES BlockClears BlockArrives
