SPECIFICATION GateSpec
CONSTANTS
  q1 = q1
  q2 = q2
  Missing = Missing
  Requests = {q1, q2}
  CacheTTL = 2
  MaxRequestTicks = 1
  MaxTime = 4
  Faults = {"readCache", "query", "storeCache"}
  NoOrigin = ""
  AllowedOrigins = {"https://ours.example"}
  Calls <- AllCalls
  GateFaults = {"session", "panic"}
INVARIANTS GateTypeOK AnswersCatchUp AdmittedIsDue RefusedIsDue
SYMMETRY Symmetry
