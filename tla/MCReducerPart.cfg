SPECIFICATION Spec
CONSTANTS
  Ranks = {0, 1}
  Params = {1, 2, 3}
  Size <- MixedSize
  FirstCap = 1
  Cap = 2
  Programs <- PartPasses
  Graphs <- PartGraphs
INVARIANTS NoFalseAlarm
CHECK_DEADLOCK FALSE
