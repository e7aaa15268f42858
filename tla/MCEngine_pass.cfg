\* Identity and crossing evidence in any order, with both identity channels and
\* the I/O link faulted, overridden and cleared.
SPECIFICATION Spec
CONSTANTS
  Tags <- MCTags
  Plates <- MCTwoPlates
  NormalizePlate <- MCNormalizePlate
  Vehicles <- MCVehicles
  PositionInputs <- MCApproach
  Weights <- MCWeights
  ScaleInputs <- MCFaultedFrames
  EmptyScaleMaxKG = 1
  MinStableWeightKG = 4
  StableConfirmations = 1
  StableToleranceKG = 0
  AuxFaults = {"RFID", "LPR"}
  CriticalFaults = {"REMOTE_IO"}
  Evidence = {"IDENTITY_CONFIRMED"}
  MaxTransactions = 2
  MaxTickets = 1
  None = None
INVARIANTS
  TypeOK
  LockoutIsSafe
  MismatchHoldsEntry
  ReleaseIsDurable
  CriticalFaultLocksOut
PROPERTIES
  EntryOntoEmptyDeck
  LockoutIsFinal
