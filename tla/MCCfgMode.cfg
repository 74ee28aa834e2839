SPECIFICATION Spec
CONSTANTS
  Configs <- RemoteOrAll
  Events = {"get", "poll", "post", "download", "button", "connect", "eth", "adv_post", "nrf52_updated", "empty", "wps", "ap_station"}
  MaxEvents = 2
INVARIANTS
  TypeOK
  ServicesStayScheduled
PROPERTIES
  ServicesAreCurrent
  ChecksGoOn
CHECK_DEADLOCK FALSE
