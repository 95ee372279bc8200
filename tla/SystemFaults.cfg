SPECIFICATION FaultsSpec
CONSTANTS
  n1 = n1
  n2 = n2
  p1 = p1
  Node = {n1, n2}
  Managed = {n1}
  Pool = {}
  PoolNodes <- NoPoolNodes
  PoolMaxUnavailable <- NoPoolNodes
  PoolOffload = {}
  PodKind = {"sriov", "other"}
  NoNode = NoNode
  MaxFaults = 1
  DaemonValue = {"Drain_Required", "Reboot_Required", "Idle"}
  MaxGeneration = 3
  MaxDrifts = 1
  MaxToggles = 0
  MaxReboots = 1
  Needs = {"none", "drain", "reboot"}
INVARIANTS RebootLimit RecordedMeansApplied
PROPERTIES CompleteOnlyWhenDrained
CHECK_DEADLOCK FALSE
