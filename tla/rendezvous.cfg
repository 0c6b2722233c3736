SPECIFICATION Spec
CONSTANTS
  Conns = {c1, c2, c3}
  Sids = {s1, s2, s3}
  None = None
  MaxSessions = 2
  MaxRegs = 2
CHECK_DEADLOCK FALSE
SYMMETRY RendezvousSymmetry
INVARIANTS
  TypeOK
  
PROPERTIES
  NoStaleForward
  CandidatesInOrder
  SeatIsKept
