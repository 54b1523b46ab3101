\* Crashes of workers, reaper and API, failing and slow deliveries; nobody cancels.
SPECIFICATION Spec
CONSTANTS
  Jobs = {j1}
  Workers = {w1, w2}
  Clients = {}
  MaxPages = 2
  Sessions = {s1}
  NoSession = NoSession
  QueueMax = 5
  MaxMsgs = 6
  MaxFaults = 2
  RedisErrors = FALSE
  SchemaSkew = FALSE
  ClientOps = {}
SYMMETRY Symmetric
INVARIANTS ChainInOrder PagesCovered FailedSubmitConverges
PROPERTIES PromiseSpec
CHECK_DEADLOCK FALSE
