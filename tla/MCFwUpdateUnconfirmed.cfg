SPECIFICATION Spec
CONSTANTS
  Releases = {"r0", "r1"}
  Factory = "r0"
  Bad = {}
  Tasks = {"t1"}
  Events = {"auto", "unconfirmed"}
  MaxUpdates = 2
  MaxCrashes = 0
  MaxFaults = 0
INVARIANTS
  StartupFailureRollsBack
CHECK_DEADLOCK FALSE
