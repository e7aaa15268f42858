SPECIFICATION FairPassSpec
CONSTANTS
  Tags <- MCOneTag
  Plates <- MCPlates
  NormalizePlate <- MCKey
  VehicleKey <- MCKey
  CycleIdentity <- MCKey
  Vehicles <- MCVehicles
  PositionInputs <- MCRoad
  Weights <- MCWeights
  ScaleInputs <- MCFrames
  Cycles <- MCCycles
  c1 = c1
  Policy <- MCPolicy
  MaxClock = 2
  EmptyScaleMaxKG = 1
  MinStableWeightKG = 4
  StableConfirmations = 1
  StableToleranceKG = 0
  AuxFaults = {}
  CriticalFaults = {"AUDIT_STORE"}
  Evidence = {}
  MaxTransactions = 2
  MaxTickets = 2
  None = None
INVARIANTS
  PassTypeOK
  ReleaseFollowsPass
  ReturnIsCalled
  TicketNeedsTwoCrossings
  AuditLossIsFinal
PROPERTIES
  CompletedPassMakesRoom
  EngineImplemented
  BooksImplemented
  WorkflowProvided
