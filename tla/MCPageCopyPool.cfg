SPECIFICATION Spec
CONSTANTS
  Workers = {w1, w2}
  Callers = {c1, c2}
  BatchSizes <- MCBatches
  CompactAt = 1
  MaxJobs = 4
INVARIANTS
  InflightExact
  RunsOnce
  IdleMeansDone
  WorkNoticed
PROPERTIES
  StopReturns
  ImplementsService
