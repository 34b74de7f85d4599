SPECIFICATION Spec
CONSTANTS
  f1 = f1
  s1 = s1
  n1 = n1
  q1 = q1
  Missing = Missing
  NoName = NoName
  NoFlightID = NoFlightID
  Flights = {f1}
  Sessions = {s1}
  Names = {n1}
  Anonymous = {}
  SessionOf <- OneSession
  NameOf <- OneName
  Requests = {q1}
  MaxHistory = 1
  FlightsTTL = 5
  SessionsTTL = 5
  Interval = 2
  MaxRunTicks = 1
  MaxRequestTicks = 0
  MaxTime = 8
  SessionsFaults = {"crash"}
  FlightsFaults = {"crash"}
  ReadFaults = {"names", "snapshot"}
INVARIANTS TypeOK MarkersLeadOn MarkersExpire
PROPERTY ListsAreFresh
VIEW ReadView
