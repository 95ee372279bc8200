SPECIFICATION DrainNeededSpec
CONSTANTS
  n1 = n1
  n2 = n2
  p1 = p1
  Node = {n1, n2}
  Managed = {n1, n2}
  Pool = {p1}
  PoolNodes <- WholePoolNodes
  PoolMaxUnavailable <- TwoAtOnce
  PoolOffload = {}
  PodKind = {}
  NoNode = NoNode
  MaxFaults = 1
  DaemonValue = {"Drain_Required", "Reboot_Required", "Idle"}
  MaxGeneration = 2
  MaxDrifts = 0
  MaxToggles = 0
  MaxReboots = 1
  Needs = {"none", "drain"}
  MaxConfigs = 1
INVARIANTS DrainsWithoutMco PausedIsMarked NotLeftPaused
PROPERTIES RolledOut
CHECK_DEADLOCK FALSE
