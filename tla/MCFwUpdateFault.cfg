SPECIFICATION Spec
CONSTANTS
  Releases = {"r0", "r1"}
  Factory = "r0"
  Bad = {}
  Tasks = {"t1"}
  Events = {"manual"}
  MaxUpdates = 2
  MaxCrashes = 1
  MaxFaults = 1
INVARIANTS
  RollbackFindsRelease
CHECK_DEADLOCK FALSE
