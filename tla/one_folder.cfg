SPECIFICATION Spec
CONSTANTS
  Tape = {1}
  Slot = {1}
  Drive = {10}
  Capacity = 2
  Unit = {1, 2, 3, 4}
  Folder <- OneFolder
  Scan <- PairScan
  MaxRuns = 1
  MaxStops = 0
  MaxFaults = 0
  MaxCrashes = 0
INVARIANT NothingDropped
CHECK_DEADLOCK FALSE
