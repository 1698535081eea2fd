SPECIFICATION Spec
CONSTANTS
  MaxSize = 1
  Capacity = 5
  Chunk = 2
  Faults = {"slow"}
CHECK_DEADLOCK FALSE
INVARIANTS ToldOpened
