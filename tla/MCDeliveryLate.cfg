SPECIFICATION Spec
CONSTANTS
  Deliveries = {d1}
  Workers = {w1, w2}
  Results <- MCResults
  Unsendable = {}
  MaxAttempts = 1
  InitialBackoff = 1
  MaxBackoff = 2
  Lease = 1
  Deadline = 1
  BatchSize = 2
  Retention = 1
  SweepBatch = 1
  MaxBatches = 2
  MaxClock = 2
  MaxReplays = 0
  MaxFaults = 0
INVARIANTS
  EveryRequestRecorded
