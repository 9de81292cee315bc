SPECIFICATION Spec
CONSTANTS
  N = 4
  MaxEdges = 2
  MaxTopo = 3
INVARIANTS NeededIsPath DependenciesExact
