SPECIFICATION Spec
CONSTANTS
  f1 = f1
  f2 = f2
  s1 = s1
  s2 = s2
  s3 = s3
  n1 = n1
  None = None
  Missing = Missing
  NoName = NoName
  Anonymous = {s3}
  NoFlightID = NoFlightID
  Flights = {f1, f2}
  Sessions = {s1, s2, s3}
  Names = {n1}
  SessionOf <- OneSessionEach
  NameOf <- SharedName
  MaxHistory = 2
  TTL = 3
  MaxRunTicks = 1
  MaxTime = 5
  Faults = {"readSessions", "fetch", "storeSnapshot", "crash"}
PROPERTIES ImplementsTrail HistoriesOnlyGrow
