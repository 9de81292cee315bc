SPECIFICATION Spec
CONSTANTS
  Ranks = {0, 1}
  Params = {1, 2, 3}
  Size <- MixedSize
  FirstCap = 1
  Cap = 2
  Programs <- MCPrograms
  Graphs <- MCGraphs
INVARIANTS CollectivesMatch GradsAgree EverySyncFinalized NoFalseAlarm
PROPERTIES AllFinish
CHECK_DEADLOCK FALSE
