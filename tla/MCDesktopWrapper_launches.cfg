SPECIFICATION FairSpec
CONSTANTS
  Platforms = {"linux", "windows", "macos"}
  MaxLaunches = 3
  MaxLooks = 2
  MaxActs = 3
INVARIANTS
  TypeOK
  NoServerLeft
PROPERTY LaunchSettles
CHECK_DEADLOCK FALSE
