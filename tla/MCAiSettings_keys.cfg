SPECIFICATION Spec
CONSTANTS
  Targets <- MCTargets
  Complete <- MCComplete
  NoTarget = "none"
  Keys <- MCKeys
  NoKey = "none"
  Platforms <- MCPlatforms
  Bodies <- MCBodies
  Handwritten <- MCHandwritten
  MaxPuts = 2
  MaxActs = 2
INVARIANTS
  TypeOK
  KeyIsCurrent
  PutDone
  CacheIsStored
