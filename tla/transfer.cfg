SPECIFICATION Spec
CONSTANTS
  MaxSize = 4
  Capacity = 5
  Chunk = 2
  Faults = {"slow", "kill", "shrink", "fopen"}
CHECK_DEADLOCK FALSE
INVARIANTS TypeOK AcceptedIsStored FetchedIsStored OpenedIsStored
PROPERTIES EndsIfItFits OpenReleasesLocks
