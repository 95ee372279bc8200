SPECIFICATION LiveSpec
CONSTANTS
  n1 = n1
  n2 = n2
  p1 = p1
  Node = {n1, n2}
  Managed = {n1, n2}
  Pool = {}
  PoolNodes <- NoPoolNodes
  PoolMaxUnavailable <- NoPoolNodes
  PoolOffload = {}
  PodKind = {"sriov"}
  NoNode = NoNode
  MaxFaults = 0
  DaemonValue = {"Drain_Required", "Reboot_Required", "Idle"}
  MaxGeneration = 3
  MaxDrifts = 0
  MaxToggles = 1
  MaxReboots = 1
  Needs = {"none", "drain", "reboot"}
PROPERTIES EventuallySettled EventuallyBackInService
CHECK_DEADLOCK FALSE
