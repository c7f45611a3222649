SPECIFICATION NumberedSpec
CONSTANTS
  Socket = {s1, s2, s3}
  None = None
  MaxFailures = 2
  MaxStops = 3
  Overlap = FALSE
  MaxSessions = 4
PROPERTIES IsLink
CHECK_DEADLOCK FALSE
