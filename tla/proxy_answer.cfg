SPECIFICATION Spec
CONSTANTS
  Clients = {a}
  SocksClients = {a}
  a = a
CHECK_DEADLOCK FALSE
INVARIANT RequestsAnswered
