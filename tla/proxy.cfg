SPECIFICATION Spec
CONSTANTS
  Names = {n1}
  Ports = {p1, p2}
  Entries = {e1, e2}
  Users = {u1, u2}
  None = None
  MaxProxies = 1
  MaxWork = 1
CHECK_DEADLOCK FALSE
INVARIANTS
  WorkWithinLimit
  IndexServed
PROPERTIES
  HeldUserSettles
  SessionEndFreesPorts
