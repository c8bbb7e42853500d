SPECIFICATION Spec
CONSTANTS
  Tape = {1}
  Slot = {1}
  Drive = {10}
  Capacity = 2
  Unit = {1, 2, 3, 4}
  Folder <- Apart
  Scan <- PairScan
  MaxRuns = 2
  MaxStops = 0
  MaxFaults = 0
  MaxCrashes = 1
INVARIANT RerunCompletesTheJob
CHECK_DEADLOCK FALSE
