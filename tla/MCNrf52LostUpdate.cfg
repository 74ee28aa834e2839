SPECIFICATION Spec
CONSTANTS
  ADV_POST_NRF52_NO_ACK_MAX_CNT = 2
  MaxCfg = 2
  MaxFaults = 0
  Events = {}
INVARIANT CachedCfgIsPassed
CHECK_DEADLOCK FALSE
