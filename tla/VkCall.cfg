SPECIFICATION FairSpec
CONSTANTS
  Transports = {a, b}
  MaxJoins = 4
  MaxLosses = 1
  MaxStops = 1
  MaxWrites = 2
INVARIANTS TypeOK StreamIntact StrangersHaveLost CrashOnlyAfterLoss
PROPERTIES PairsUp
CHECK_DEADLOCK FALSE
