\* Convergence of batches of up to three pages, two of them or all three chained, with one fault
\* and a client that cancels, perhaps of an API that cannot read the stored page specs.
SPECIFICATION FairSpec
CONSTANTS
  Jobs = {j1}
  Workers = {w1}
  Clients = {c1}
  MaxPages = 3
  Sessions = {s1}
  NoSession = NoSession
  QueueMax = 5
  MaxMsgs = 7
  MaxFaults = 1
  RedisErrors = FALSE
  SchemaSkew = TRUE
  ClientOps = {"cancel"}
PROPERTIES AcceptedConverges DepthDrains
CHECK_DEADLOCK FALSE
