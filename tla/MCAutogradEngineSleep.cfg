SPECIFICATION WeaklyFairSpec
CONSTANTS
  CPU = CPU  None = None  u = u  v = v  d = d  e = e  p1 = p1  p2 = p2
  g1 = g1  g2 = g2  g3 = g3  g4 = g4  k1 = k1  k2 = k2  k3 = k3
  TaskOf <- TaskOfNode
  Root <- Roots
  SequenceNr <- Sequence
  Origin <- MCOrigin
  Users = {u}
  Devices = {d}
  Pool = {p1}
  Tasks = {g1, g2}
  Nodes <- SleepNodes
  Edges <- SleepEdges
  Needed <- SleepNodes
  Captured = {}
  Device <- SleepDevice
  MayThrow = {}
  Calls <- SleepCalls
PROPERTIES BackwardReturns
CHECK_DEADLOCK FALSE
