SPECIFICATION Spec
CONSTANTS
  p1 = p1
  p2 = p2
  t1 = t1
  t2 = t2
  t3 = t3
  Procs = {p1, p2}
  Ids = {t1, t2, t3}
  Statuses <- MCStatuses
  NoTask = NoTask
  NoMark = NoMark
  BundledRules <- MCBundled
  CustomRules <- MCCustom
  Scripts <- MCScripts
  MaxLen = 2
  Exclusive = TRUE
  Crashes = TRUE
  WriteErrors = TRUE
PROPERTY BoardSpec
CHECK_DEADLOCK FALSE
