SPECIFICATION Spec
CONSTANTS
  Conns = {c1, c2}
  Ids = {c1, c2}
  IdOf <- MCIdOf
  None = None
  MaxData = 1
  MaxSessions = 2
  MaxStops = 0
  Orderly = TRUE
SYMMETRY Interchangeable
INVARIANTS TypeOK CloseComesLast LiveIsTracked SameSession QuiescentAgreement
PROPERTIES IsRelay
CHECK_DEADLOCK FALSE
