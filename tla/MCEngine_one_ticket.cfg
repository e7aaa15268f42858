\* The I/O controller clears REMOTE_IO on every poll (runtimeio/controller.go:130).
SPECIFICATION Spec
CONSTANTS
  Tags <- MCKnownTag
  Plates <- MCOnePlate
  NormalizePlate <- MCNormalizePlate
  Vehicles <- MCVehicles
  PositionInputs <- MCCrossing
  Weights <- MCWeights
  ScaleInputs <- MCFrames
  EmptyScaleMaxKG = 1
  MinStableWeightKG = 4
  StableConfirmations = 2
  StableToleranceKG = 0
  AuxFaults = {}
  CriticalFaults = {"REMOTE_IO"}
  Evidence = {}
  MaxTransactions = 1
  MaxTickets = 2
  None = None
INVARIANT OneTicketPerTransaction
