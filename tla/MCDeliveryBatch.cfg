SPECIFICATION Spec
CONSTANTS
  Deliveries = {d1, d2}
  Workers = {w1, w2}
  Results <- MCResults
  Unsendable = {d2}
  MaxAttempts = 2
  InitialBackoff = 1
  MaxBackoff = 2
  Lease = 1
  Deadline = 1
  BatchSize = 2
  Retention = 1
  SweepBatch = 1
  MaxBatches = 2
  MaxClock = 2
  MaxReplays = 0
  MaxFaults = 1
SYMMETRY MCWorkerSymmetry
INVARIANTS
  AttemptsAccounted
PROPERTIES
  SupersededChangesNothing
