SPECIFICATION FairSpec
CONSTANTS
  Slots = {draft, prefs}
  Delayed = {prefs}
  Map = Map
  MaxChanges = 3
  MaxStops = 1
INVARIANTS TypeOK NothingOldReturns
PROPERTIES ExitStoresAll EverythingIsStored
CHECK_DEADLOCK FALSE
