SPECIFICATION Spec
CONSTANTS
  Nodes <- MCNodes
  None = None
  MinNodes = 2
  MaxNodes = 3
  MaxRounds = 1
  MaxFailures = 1
  MaxTimeouts = 1
INVARIANTS StateSound WorldAgrees Exclusive

PROPERTIES NothingUndone JoinsEnd
CHECK_DEADLOCK FALSE
