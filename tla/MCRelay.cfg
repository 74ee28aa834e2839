SPECIFICATION Spec
CONSTANTS
  Clients = {"httpd"}
  Main = "main"
  Cfgs <- OneOrNone
  Suspensions <- HttpOnly
  MaxDepth = 1
  MaxAdvs = 1
  MaxChanges = 2
  Events = {"traffic", "network", "cfg", "time"}
INVARIANTS
  TypeOK
  HttpPostHoldsLocks
  AsyncCommIsDriven
PROPERTIES
  WaitEnds
  AsyncCommEnds
