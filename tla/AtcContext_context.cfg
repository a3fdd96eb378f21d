CONSTANTS
  IntMax = 5
  MaxHandlers = 3
  MaxAttempts = 2
  RxCap = 1
SPECIFICATION Spec
INVARIANTS TypeOK NoLostEarlyByte InitOwnership UniqueIds FirstFree StaleFindsNothing
PROPERTY SearchEnds
CHECK_DEADLOCK FALSE
