SPECIFICATION Spec
CONSTANTS
  Submissions = {1, 2, 3, 4}
  EndpointOf <- MCEndpointOf
  FieldsOf <- MCFieldsOf
  Formulas = {"=sum"}
  Filters <- MCFilters
  None = None
  Limit = 2
  Maximum = 3
  MaxClock = 2
  MaxRounds = 2
CHECK_DEADLOCK FALSE
INVARIANTS
  WalkOrdered
  WalkComplete
  TimeWalkMissesOnlyTies
  PollMissesOnlyLate
  CsvReadsBack
  ExportLosesOnlyToLate
