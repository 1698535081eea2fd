SPECIFICATION Spec
CONSTANTS
  Base = 2
  AidSize = 2
  ValueSize = 3
  TimeSize = 1
  FsizeSize = 2
  MaxFsize = 2
  WordSize = 1
  MaxTyped = 17
  MaxAid = 3
  Faults = {"cut"}
INVARIANTS ActsAsAsked ValidIsServed NoWaitForTyped ListShown
