SPECIFICATION Spec
CONSTANTS
  Conns = {c1, c2}
  Ids = {d1}
  Keys = {k1, k2}
  Ips = {i1, i2}
  None = None
  MaxSessions = 1
  PreauthPerIp = 1
  Timeout = 1
INVARIANTS
  
  TablesExact
PROPERTIES
  KeyNeverReplaced
  DeadPeerIsClosed
