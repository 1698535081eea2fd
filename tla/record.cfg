SPECIFICATION Spec
CONSTANTS
  MaxValue = 3
  Faults = {"kill", "io"}
INVARIANTS TypeOK BidsAreListed FalseLinesAreNew ClosedRecordIsFinal ShownAsSent
