SPECIFICATION Spec
CONSTANTS
  Clients = {"httpd"}
  Main = "main"
  Cfgs <- OneTargetAndMqtt
  Suspensions <- HttpAndBoth
  MaxDepth = 1
  MaxAdvs = 1
  MaxChanges = 1
  Events = {"cfg_mode", "connection", "timeout"}
INVARIANTS
  RelayingModeIsFresh
  MqttStopsWhenSuspended
  CountersBalanced
  CmdIsGoingToBeHandled
  SuspendedIsQuiet
  LocksBelongToRequest
  RelayingStaysSuspended
CHECK_DEADLOCK FALSE
