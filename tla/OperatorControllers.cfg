SPECIFICATION MCSpec
CONSTANTS
  OpSpec <- MCSpecs
  Flavors <- MCFlavors
  Profiles <- MCProfiles
  EnvTls = "env"
  EnvCA = ""
  Filled <- MCFilled
  Removed <- MCRemoved
  NoConfig = NoConfig
  NoObject = NoObject
  Mcp <- MCMcp
  PoolName <- MCPoolName
  OvsConfig <- MCOvsConfig
  NoPool = NoPool
  Budgets <- MCBudgets
  a = a
  b = b
  Net = {a, b}
  Namespace = {"op", "app", "new"}
  OperatorNs = "op"
  Home <- TwoHomes
  Kind <- TwoKinds
  NetSpec <- FourSpecs
  NoCR = NoCR
  NoNad = NoNad
  MaxOps = 3
  MaxFaults = 1
INVARIANTS KeptByFinalizer NoOrphanWebhook NoOrphanMachineConfig
PROPERTIES NeverOverridesForeign NeverDropsForeign ControllersSettle
CHECK_DEADLOCK FALSE
