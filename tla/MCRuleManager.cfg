SPECIFICATION RulesSpec
CONSTANTS
  Checkers = {c1}
  IPs <- MCIPs
  Ports <- MCPorts
  AppTypes <- MCAppTypes
  Domains <- MCDomains
  Patterns <- MCPatterns
  Bracketed = {"[x"}
  IPText <- MCIPText
  IPOf <- MCIPOf
  PortText <- MCPortText
  PortOf <- MCPortOf
  Throws = Throws
  Matches <- MCMatches
  HandWritten <- SomeFiles
  Rulings <- AnyRulings
  Queries <- MCQueries
  MaxCalls = 4
INVARIANTS
  RulesTypeOK
  SteadyRulesApply
  NoPhantomBlock
  SavedRulesComeBack
