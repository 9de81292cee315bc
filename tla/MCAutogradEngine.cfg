SPECIFICATION Spec
CONSTANTS
  CPU = CPU  None = None  u = u  v = v  d = d  e = e  p1 = p1  p2 = p2
  g1 = g1  g2 = g2  g3 = g3  g4 = g4  k1 = k1  k2 = k2  k3 = k3
  TaskOf <- TaskOfNode
  Root <- Roots
  SequenceNr <- Sequence
  Origin <- MCOrigin
  Users = {u, v}
  Devices = {d, e}
  Pool = {p1, p2}
  Tasks <- MCTasks
  Nodes <- MCNodes
  Edges <- MCEdges
  Needed <- MCNeeded
  Captured <- MCCaptured
  Device <- MCDevice
  MayThrow = {"a", "b", "y"}
  Calls <- MCCalls
INVARIANTS OutstandingExact AllInputsAccumulated CompleteResult PoolSuffices
PROPERTIES ResultIsFinal BackwardReturns
CHECK_DEADLOCK FALSE
