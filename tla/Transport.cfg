SPECIFICATION FairSpec
CONSTANTS
  Socket = {s1, s2, s3}
  None = None
  MaxFailures = 2
  MaxStops = 3
  Overlap = TRUE
INVARIANTS TypeOK AlwaysTrying OpenIsShared
PROPERTIES Reconnects ServerStops
CHECK_DEADLOCK FALSE
