SPECIFICATION Spec
CONSTANTS
  Conns = {c1}
  Ids = {c1}
  IdOf <- MCIdOf
  None = None
  MaxData = 2
  MaxSessions = 2
  MaxStops = 3
  Orderly = FALSE
INVARIANTS InOrder CrashOnlyWhenStopped
CHECK_DEADLOCK FALSE
