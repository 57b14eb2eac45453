SPECIFICATION LocalSpec
CONSTANTS
  Capacity = 2
  Counts = {1, 2, 4}
  MaxSent = 5
INVARIANTS BytesInOrder SleepersAreServed
CHECK_DEADLOCK FALSE
