\* Servers of known applications, and rules that block an application.
SPECIFICATION Spec
CONSTANTS
  NoName = "nullopt"
  IPs <- MCIPs
  Ports <- MCPorts
  Tuples <- MCTuples
  Names <- MCNames
  IPOf <- MCIPOf
  Mentions <- MCMentions
  Lower <- MCLower
  Hellos <- MCHellos
  Captures <- AppCaptures
  ArgLists <- AppArgLists
INVARIANT SupportedAppBlocked
CHECK_DEADLOCK FALSE
