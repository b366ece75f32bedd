SPECIFICATION Spec
CONSTANTS
  Submissions = {1, 2, 3, 4}
  EndpointOf <- MCEndpointOf
  FieldsOf <- MCFieldsOf
  Formulas = {"=sum"}
  Filters <- MCFilters
  None = None
  Limit = 1
  Maximum = 1
  MaxClock = 2
  MaxRounds = 2
CHECK_DEADLOCK FALSE
INVARIANTS
  ExportComplete
