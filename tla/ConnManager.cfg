SPECIFICATION FairSpec
CONSTANTS
  c1 = c1
  c2 = c2
  d1 = d1
  Clients = {c1, c2}
  Server = server
  Dialers = {d1}
  At <- MCAt
  Outputs = {c1}
  Configurations <- MCConfigurations
  MaxConns = 3
  MaxFailures = 1
INVARIANTS TypeOK OneAtATime CrashOnlyAfterLoss
PROPERTIES Reconnects DialIsServed
CHECK_DEADLOCK FALSE
