SPECIFICATION FairSpec
CONSTANTS
  Conns = {c1}
  Ids = {c1}
  IdOf <- MCIdOf
  None = None
  MaxData = 1
  MaxSessions = 2
  MaxStops = 2
  Orderly = TRUE
INVARIANTS NoCrash
PROPERTIES DeathSpreads ClientIsServed DataArrives
CHECK_DEADLOCK FALSE
