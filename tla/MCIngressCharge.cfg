SPECIFICATION Spec
CONSTANTS
  MaxBytes = 3
  Sizes <- MCSizes
  NoLength = NoLength
CHECK_DEADLOCK FALSE
INVARIANTS
  OversizedSpendsNothing
