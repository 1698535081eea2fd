SPECIFICATION Spec
CONSTANTS
  MaxSize = 4
  Capacity = 3
  Chunk = 2
  Faults = {"fopen"}
CHECK_DEADLOCK FALSE
PROPERTIES LocksReleased
