SPECIFICATION FairPolicySpec
CONSTANTS
  Node = {1, 2}
  Name = {1, 2, 3}
  Candidate <- Halves
  Existing <- SomePolicies
  NodeIfaces <- Ifaces
  NodeLabels <- Labels
  DelayMinutes = 30
  ManageSoftwareBridges = TRUE
  NoState = NoState
  MaxEvents = 2
INVARIANTS GroupsDisjoint HighestPriorityWins
PROPERTIES EventuallySynced
