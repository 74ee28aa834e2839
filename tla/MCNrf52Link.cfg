SPECIFICATION Spec
CONSTANTS
  ADV_POST_NRF52_NO_ACK_MAX_CNT = 2
  MaxCfg = 2
  MaxFaults = 2
  Events = {"update_fw", "late", "lost", "rejected", "mute", "self_reboot"}
INVARIANTS
  TypeOK
  CfgRequiredOnlyIfUnconfigured
  WaitingIsTimed
  ResetIsTimed
  SilenceIsTimed
  ConfiguredChipHasConfig
PROPERTIES
  EventuallyConfigured
CHECK_DEADLOCK FALSE
