\* Two jobs, two workers, a queue of one and one event stream, under fair schedules.
SPECIFICATION FairSpec
CONSTANTS
  Jobs = {j1, j2}
  Workers = {w1, w2}
  Streams = {k1}
  QueueMax = 1
  MaxPages = 2
  NoJob = NoJob
INVARIANTS CancelHonoured StreamComplete
PROPERTIES SettledStays JobsSettle StreamsEnd
CHECK_DEADLOCK FALSE
