\* Two cycles of one truck, under plates and weights that pair and that do not:
\* passes, calls, expiry scans and crashes in every order.
SPECIFICATION FairSpec
CONSTANTS
  c1 = c1
  c2 = c2
  Cycles <- MCCycles
  Plates <- MCPlates
  Tags = {}
  VehicleKey <- MCVehicleKey
  CycleIdentity <- MCCycleIdentity
  Weights = {1, 3}
  Policy <- MCPolicy
  MaxClock = 3
  None = None
INVARIANTS
  TypeOK
  CompletedPairIsValid
  OrphanIsOverdue
PROPERTIES
  LedgerSpec
  OverdueLeavesQueue
