SPECIFICATION Spec
CONSTANTS
  Clocks <- AllClocks
  Periods <- SomePeriods
  Codes <- EdgeCodes
  Offsets = {0, 11, 12}
INVARIANTS
  NotFasterIfReachable
  NoStepWasted
  OffsetAgreed
