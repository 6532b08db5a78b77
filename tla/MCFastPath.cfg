SPECIFICATION Spec
CONSTANTS
  Checkers = {fp}
  fp = fp
  IPs <- MCIPs
  Ports <- MCPorts
  AppTypes <- MCAppTypes
  Domains <- MCDomains
  Patterns <- MCPatterns
  Bracketed = {}
  IPText <- MCIPText
  IPOf <- MCIPOf
  PortText <- MCPortText
  PortOf <- MCPortOf
  Throws = Throws
  Matches <- MCMatches
  HandWritten <- NoFile
  Rulings <- MCRulings
  Queries = {}
  MaxCalls = 1
  Tuples <- MCTuples
  Names <- MCNames
  NoName = NoName
  NoPayload = NoPayload
  NoJob = NoJob
  SniToAppType <- MCSniToAppType
  Packets <- AllPackets
  MaxConnections = 2
  IdleTimeout = 0
  MaxClock = 1
  MaxPackets = 3
INVARIANTS
  TypeOK
  CountersAgree
PROPERTIES
  StopReturns
  ImplementsMemory
  ForwardsOnlyUnmatched
