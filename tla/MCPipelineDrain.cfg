\* The sleep that is to let the queues drain.
SPECIFICATION Spec
CONSTANTS
  NumLBs = 2
  FpsPerLB = 2
  QueueCap = 1
  NoName = "nullopt"
  IPs <- MCIPs
  Ports <- MCPorts
  Tuples <- MCTuples
  Names <- MCNames
  AppTypes <- MCAppTypes
  SniToAppType <- MCSniToAppType
  Mentions <- MCMentions
  HashOf <- MCHashOf
  Inputs <- MCInputs
  RuleSets <- MCRuleSets
INVARIANT DrainLosesNothing
