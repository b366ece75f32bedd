SPECIFICATION LiveSpec
CONSTANTS
  MaxBytes = 3
  Sizes <- MCSizes
  NoLength = NoLength
CHECK_DEADLOCK FALSE
INVARIANTS
  OneAnswer
  CapHolds
PROPERTIES
  RefusedAsTooLarge
  EveryRequestAnswered
