SPECIFICATION Spec
CONSTANTS
  f1 = f1
  f2 = f2
  s1 = s1
  s2 = s2
  s3 = s3
  n1 = n1
  None = None
  Missing = Missing
  NoName = NoName
  Anonymous = {}
  NoFlightID = NoFlightID
  Flights = {f1, NoFlightID}
  Sessions = {s1}
  Names = {n1}
  SessionOf <- OneSession
  NameOf <- OneName
  MaxHistory = 2
  TTL = 3
  MaxRunTicks = 1
  MaxTime = 5
  Faults = {"fetch"}
INVARIANT FreshnessVisible
