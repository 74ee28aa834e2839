SPECIFICATION Spec
CONSTANTS
  Releases = {"r0", "r1", "r2"}
  Factory = "r0"
  Bad = {"r2"}
  Tasks = {"t1", "t2"}
  Events = {"manual", "auto"}
  MaxUpdates = 2
  MaxCrashes = 1
  MaxFaults = 1
INVARIANTS
  TypeOK
  MainLoopIsWhole
  ChipMatches
  TrialFailureRollsBack
PROPERTIES
  ImplementsInstall
  ComesUp
CHECK_DEADLOCK FALSE
