SPECIFICATION Spec
CONSTANTS
  n1 = n1
  n2 = n2
  n3 = n3
  p1 = p1
  p2 = p2
  p3 = p3
  Node = {n1, n2}
  Managed = {n1, n2}
  Pool = {p1}
  PoolNodes <- OnePoolNodes
  PoolMaxUnavailable <- OnePoolMax
  PoolOffload = {}
  PodKind = {"sriov"}
  NoNode = NoNode
  MaxFaults = 1
  DaemonValue = {"Idle", "Drain_Required"}
INVARIANTS HandshakeInv
PROPERTIES HandshakeOrder ImplementsSlots
SYMMETRY Sym
