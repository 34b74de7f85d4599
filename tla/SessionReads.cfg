SPECIFICATION ReadsSpec
CONSTANTS
  s1 = s1
  s2 = s2
  n1 = n1
  n2 = n2
  v1 = v1
  Missing = Missing
  Sessions = {s1, s2}
  Names = {n1, n2}
  NameOf <- OwnName
  MaxHistory = 2
  TTL = 5
  Interval = 2
  MaxRunTicks = 2
  MaxTime = 10
  Faults = {"fetch", "readSessions", "storeSessions", "storeNames", "crash"}
  Readers = {v1}
  ReadFaults = {"sessions", "names"}
INVARIANTS ReadsTypeOK PastInOrder SuccessStoresBoth SuccessIsFresh
PROPERTIES ReplacedIsKept OfferedIsKnown
SYMMETRY Symmetry
