SPECIFICATION FileSpec
CONSTANTS
  Values = {v1, v2, v3}
  NoValue = NoValue
  Torn = Torn
  Absent = Absent
  DiskMayFill = TRUE
INVARIANTS FileTypeOK
PROPERTIES IsAtomic ReturnedIsStored
CHECK_DEADLOCK FALSE
