SPECIFICATION WebhookSpec
CONSTANTS
  Node = {1}
  Name = {0, 1, 2}
  Candidate <- Sent
  NodeIfaces <- Ifaces
  NodeLabels <- Labels
  Virtual = {}
  PfModel <- Models
  VfModel = {}
  DevMode = FALSE
  Pool <- Pools
  Network <- Networks
  Handler = {h1, h2}
  NoPolicy = NoPolicy
  MaxRequests = 3
SYMMETRY Handlers
INVARIANTS PoolLimits AdmittedDisjoint FlagsAnswerRequest
PROPERTIES DrainKeptDuringUpdate
CHECK_DEADLOCK FALSE
