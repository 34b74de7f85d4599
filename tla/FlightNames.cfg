SPECIFICATION NamesFairSpec
CONSTANTS
  f1 = f1
  f2 = f2
  l1 = l1
  l2 = l2
  NoLivery = NoLivery
  Gone = Gone
  Flights = {f1, f2}
  Liveries = {l1, l2}
  LiveriesOf <- MayHave
  NamesFaults = {"storeLivery", "readLivery", "storeSnapshot", "expire"}
INVARIANTS NamesTypeOK NamedAfterLivery
PROPERTIES NamesStay NamedInTheEnd
