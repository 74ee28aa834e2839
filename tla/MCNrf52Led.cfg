SPECIFICATION Spec
CONSTANTS
  ADV_POST_NRF52_NO_ACK_MAX_CNT = 2
  MaxCfg = 2
  MaxFaults = 1
  Events = {"green_led", "green_led_state", "lost"}
PROPERTIES
  CfgRequiredIsServed
CHECK_DEADLOCK FALSE
