SPECIFICATION FairSpec
CONSTANTS
  j1 = j1
  j2 = j2
  j3 = j3
  Jobs = {j1, j2, j3}
  MaxRequests = 2
  Invalid = Invalid
  Number <- SomeNumbers
  Environments <- OneSecretOneSetting
  Faults = {"database", "redis", "bootstrap", "listen", "serve", "drain"}
INVARIANTS TypeOK StoresOutliveWork CleanExit SecretsMayMove
PROPERTIES SignalEndsIt JobsRunWhenAsked
