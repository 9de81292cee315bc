SPECIFICATION Spec
CONSTANTS
  Ranks = {0, 1}
  Params = {1, 2, 3}
  Size <- MixedSize
  FirstCap = 1
  Cap = 2
  Programs <- NoSyncPasses
  Graphs <- NoSyncGraphs
INVARIANTS NoSyncSynchronized
CHECK_DEADLOCK FALSE
