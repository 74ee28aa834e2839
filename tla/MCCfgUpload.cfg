SPECIFICATION Spec
CONSTANTS
  Configs <- RemoteOrAll
  Events = {"post"}
  MaxEvents = 1
PROPERTIES
  NewCfgTakesEffect
CHECK_DEADLOCK FALSE
