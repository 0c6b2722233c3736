SPECIFICATION Spec
CONSTANTS
  Conns = {c1, c2}
  Streams = {s1, s2}
  Devices = {d1}
  None = None
  MaxPendingTunnels = 2
  MaxPendingPerTarget = 1
INVARIANTS
  CountersExact
  TableExact
  OpenMeansPaired
PROPERTIES
  ImplementsPairing
  HandlerEnds
