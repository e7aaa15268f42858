\* A pass refused while the scan expires its cycle.
SPECIFICATION Spec
INVARIANT OrphanStaysOutOfQueue
CONSTANTS
  c1 = c1
  c2 = c2
  Cycles = {c1}
  Plates <- MCOnePlate
  Tags = {}
  VehicleKey <- MCVehicleKey
  CycleIdentity <- MCCycleIdentity
  Weights = {1, 3}
  Policy <- MCWindow
  MaxClock = 2
  None = None
