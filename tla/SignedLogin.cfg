SPECIFICATION Spec
CONSTANTS
  l1 = l1
  l2 = l2
  s1 = s1
  s2 = s2
  b1 = b1
  b2 = b2
  q1 = q1
  q2 = q2
  None = None
  Requests = {q1, q2}
  Links = {l1, l2}
  Sessions = {s1, s2}
  Browsers = {b1, b2}
  BrowserOf <- BrowserEach
  TicketTTL = 1
  SessionTTL = 2
  MaxRequestTicks = 2
  MaxTime = 4
  Faults = {"issue", "consume", "create", "lookup", "logout", "reply", "crash"}
INVARIANTS TypeOK OneSessionPerLink MadeInTime
PROPERTY GrantIsDue
SYMMETRY Symmetry
