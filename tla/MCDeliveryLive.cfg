SPECIFICATION TimelySpec
CONSTANTS
  Deliveries = {d1}
  Workers = {w1, w2}
  Results <- MCResults
  Unsendable = {}
  MaxAttempts = 2
  InitialBackoff = 1
  MaxBackoff = 2
  Lease = 2
  Deadline = 1
  BatchSize = 2
  Retention = 1
  SweepBatch = 1
  MaxBatches = 2
  MaxClock = 9
  MaxReplays = 0
  MaxFaults = 2
INVARIANTS
  NoDoubleSend
  EveryRequestRecorded
  LoadedBatchComplete
PROPERTIES
  EverySubmissionSettles
