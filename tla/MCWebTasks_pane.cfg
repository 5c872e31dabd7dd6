SPECIFICATION FairSpec
CONSTANTS
  rA = rA
  rB = rB
  t1 = t1
  t2 = t2
  Repos = {rA, rB}
  NoRepo = NoRepo
  Tasks = {t1, t2}
  NoTask = NoTask
  Home <- HomeOfTasks
  Values = {"new", "done"}
  Created = "new"
  Absent = Absent
  Slots = {1, 2}
  NoSlot = 0
  PageSize = 1
  MaxActs = 3
  MaxFailures = 1
  Starts <- SmallStarts
INVARIANT PaneShowsItsTask
CHECK_DEADLOCK FALSE
