SPECIFICATION FairSpec
CONSTANTS
  MaxSize = 2
  Capacity = 1
  MaxBytes = 5
INVARIANTS TypeOK StreamIntact
PROPERTIES BytesAreSent NobodyBlocks
CHECK_DEADLOCK FALSE
