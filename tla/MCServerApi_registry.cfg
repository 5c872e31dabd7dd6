SPECIFICATION FairSpec
CONSTANTS
  i1 = i1
  i2 = i2
  c1 = c1
  c2 = c2
  r1 = r1
  r2 = r2
  Instances = {i1, i2}
  Clients = {c1, c2}
  Repos = {r1, r2}
  NoInstance = NoInstance
  Nobody = Nobody
  MaxRuns = 2
  Posix = TRUE
  AcceptErrors = FALSE
  Workloads <- WorkRegistry
PROPERTIES
  RegistrySpec
  EveryRequestAnswered
  LockComesBack
CHECK_DEADLOCK FALSE
