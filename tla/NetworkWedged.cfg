SPECIFICATION MCSpec
CONSTANTS
  OpSpec <- MCSpecs
  Flavors <- MCFlavors
  Profiles <- MCProfiles
  EnvTls = "env"
  EnvCA = ""
  Filled <- MCFilled
  Removed <- MCRemoved
  NoConfig = NoConfig
  NoObject = NoObject
  Mcp <- MCMcp
  PoolName <- MCPoolName
  OvsConfig <- MCOvsConfig
  NoPool = NoPool
  Budgets <- NoBudget
  a = a
  b = b
  Net = {a}
  Namespace = {"op", "new"}
  OperatorNs = "op"
  Home <- OneHome
  Kind <- OneKind
  NetSpec <- TwoSpecs
  NoCR = NoCR
  NoNad = NoNad
  MaxOps = 3
  MaxFaults = 0
PROPERTIES ProvisionedWhenAvailable
CHECK_DEADLOCK FALSE
