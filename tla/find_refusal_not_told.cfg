SPECIFICATION Spec
CONSTANTS
  MaxSize = 4
  Capacity = 3
  Chunk = 2
  Faults = {}
CHECK_DEADLOCK FALSE
PROPERTIES AnswerIsTold
