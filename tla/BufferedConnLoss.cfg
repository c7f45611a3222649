SPECIFICATION FairSpec
CONSTANTS
  MaxSize = 2
  Capacity = 1
  MaxBytes = 5
PROPERTIES SentInTime
CHECK_DEADLOCK FALSE
