SPECIFICATION Spec
CONSTANTS
  Deliveries = {d1}
  Workers = {w1, w2}
  Results <- MCResults
  Unsendable = {}
  MaxAttempts = 2
  InitialBackoff = 1
  MaxBackoff = 2
  Lease = 1
  Deadline = 1
  BatchSize = 2
  Retention = 1
  SweepBatch = 2
  MaxBatches = 2
  MaxClock = 3
  MaxReplays = 1
  MaxFaults = 1
SYMMETRY MCSymmetry
INVARIANTS
  TypeOK
  UnlinkedOnlyDelivered
  SelectionStillEligible
  RowConsistent
  OneOwner
  HistoryNumbered
  AllowanceKept
  VerdictJustified
PROPERTIES
  KeepsPromise
  DeliveredIsFinal
  SupersededChangesNothing
