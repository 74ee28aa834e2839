SPECIFICATION Spec
CONSTANTS
  Clients = {"httpd"}
  Main = "main"
  Cfgs <- OneTarget
  Suspensions <- HttpOnly
  MaxDepth = 1
  MaxAdvs = 1
  MaxChanges = 1
  Events = {"cfg_mode"}
INVARIANTS
  NoAssertionFails
