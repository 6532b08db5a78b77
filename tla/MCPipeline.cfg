\* Two load balancers of two workers (the default of the program), queues of one slot.
SPECIFICATION Spec
CONSTANTS
  NumLBs = 2
  FpsPerLB = 2
  QueueCap = 1
  NoName = "nullopt"
  IPs <- MCIPs
  Ports <- MCPorts
  Tuples <- MCTuples
  Names <- MCNames
  AppTypes <- MCAppTypes
  SniToAppType <- MCSniToAppType
  Mentions <- MCMentions
  HashOf <- MCHashOf
  Inputs <- MCInputs
  RuleSets <- MCRuleSets
INVARIANTS TypeOK NoDiscardingPush AllForwardedWritten ReportAgrees DrainedDecidesAll
           FlowAffinity UpstreamInOrder DownstreamInOrder BlockedStaysBlocked
           ScheduleIndependent RulesEnforced
PROPERTIES ImplementsFilter Termination
