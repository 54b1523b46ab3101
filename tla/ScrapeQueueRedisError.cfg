\* A Redis call of the task body raises.
SPECIFICATION FairSpec
CONSTANTS
  Jobs = {j1}
  Workers = {w1}
  Clients = {}
  MaxPages = 2
  Sessions = {s1}
  NoSession = NoSession
  QueueMax = 5
  MaxMsgs = 3
  MaxFaults = 1
  RedisErrors = TRUE
  SchemaSkew = FALSE
  ClientOps = {}
PROPERTIES AcceptedConverges
CHECK_DEADLOCK FALSE
