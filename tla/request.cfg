SPECIFICATION Spec
CONSTANTS
  Routes <- MCRoutes
  Texts <- MCTexts
  Addresses <- MCAddresses
  Lower <- MCLower
  Trim <- MCTrim
  Glob <- MCGlob
  ShExp <- MCShExp
  Special <- MCSpecial
  Literal <- MCLiteral
  Unmap <- MCUnmap
  IPv4 <- MCIPv4
  Resolved <- MCResolved
  Clients <- MCClients
  Servers <- MCServers
  Spelling <- MCSpelling
CHECK_DEADLOCK FALSE
INVARIANTS
  TypeOK
  Transparent
  OneAnswer
  SameWay
