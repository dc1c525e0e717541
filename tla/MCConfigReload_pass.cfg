SPECIFICATION ReloadSpec
CONSTANTS
  MaxVersion = 2
  Context = {"XY"}
  ConfigChanCap = 2
  DialFails = TRUE
INVARIANTS VersionsInv
PROPERTIES StopsOnlyForNewer 
CHECK_DEADLOCK FALSE
