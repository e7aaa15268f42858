\* Deck, exit and barrier faults, with operator and supervisor overrides.
SPECIFICATION Spec
CONSTANTS
  Tags <- MCKnownTag
  Plates <- MCOnePlate
  NormalizePlate <- MCNormalizePlate
  Vehicles <- MCVehicles
  PositionInputs <- MCWay
  Weights <- MCWeights
  ScaleInputs <- MCSettledFrames
  EmptyScaleMaxKG = 1
  MinStableWeightKG = 4
  StableConfirmations = 2
  StableToleranceKG = 0
  AuxFaults = {"REAR_SENSOR", "EXIT_SENSOR"}
  CriticalFaults = {"REMOTE_IO"}
  Evidence = {"POSITION_CONFIRMED", "EXIT_CLEAR_CONFIRMED"}
  MaxTransactions = 1
  MaxTickets = 1
  None = None
INVARIANT PositionIsEvidenced
PROPERTY ExitHeldUntilClear
