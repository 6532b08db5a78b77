\* Every odd frame alone, every capture of two and three simple frames.
SPECIFICATION Spec
CONSTANTS
  NoName = "nullopt"
  IPs <- MCIPs
  Ports <- MCPorts
  Tuples <- MCTuples
  Names <- MCNames
  IPOf <- MCIPOf
  Mentions <- MCMentions
  Lower <- MCLower
  Hellos <- MCHellos
  Captures <- MCCaptures
  ArgLists <- MCArgLists
INVARIANTS TypeOK FirstNameStays OutputReadsBack ReadsStayInside HelloNameFound
PROPERTY ImplementsFilter
CHECK_DEADLOCK FALSE
