SPECIFICATION SteadySpec
CONSTANTS
  n1 = n1
  n2 = n2
  n3 = n3
  p1 = p1
  p2 = p2
  p3 = p3
  Node = {n1, n2, n3}
  Managed = {n1, n2, n3}
  Pool = {p1, p2, p3}
  PoolNodes <- NestedPoolNodes
  PoolMaxUnavailable <- NestedPoolMax
  PoolOffload = {p3}
  PodKind = {}
  NoNode = NoNode
  MaxFaults = 0
  DaemonValue = {"Idle", "Drain_Required"}
INVARIANTS MaxUnavailableRespected ConflictingNodesNotDrained
