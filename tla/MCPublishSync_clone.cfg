SPECIFICATION Spec
CONSTANTS
  v1 = v1
  v2 = v2
  TaskFiles = {"task"}
  OtherFiles = {"readme"}
  Versions = {v1, v2}
  Absent = Absent
  Markers = Markers
  MaxMoves = 4
SYMMETRY Permutable
INVARIANTS
  TypeOK
  CleanAfterPublish
  SyncedMeansShared
PROPERTIES
  EditsSurvive
  TeammatesSurvive
CHECK_DEADLOCK FALSE
