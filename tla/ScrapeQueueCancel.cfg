\* A client cancels while the batch runs; one fault, a failing Redis call among them.
SPECIFICATION Spec
CONSTANTS
  Jobs = {j1}
  Workers = {w1, w2}
  Clients = {c1}
  MaxPages = 2
  Sessions = {s1}
  NoSession = NoSession
  QueueMax = 5
  MaxMsgs = 4
  MaxFaults = 1
  RedisErrors = TRUE
  SchemaSkew = FALSE
  ClientOps = {"cancel", "results"}
SYMMETRY Symmetric
INVARIANTS DoneCountsSlots CancelledIsFull
PROPERTIES TerminalIsFinal ResultsKept
CHECK_DEADLOCK FALSE
