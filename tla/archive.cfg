SPECIFICATION FairSpec
CONSTANTS
  Tape = {1, 2, 3}
  Slot = {1, 2, 3}
  Drive = {10, 11}
  Capacity = 2
  Unit = {1, 2, 3, 4}
  Folder <- Apart
  Scan <- TwoScans
  MaxRuns = 2
  MaxStops = 1
  MaxFaults = 1
  MaxCrashes = 1
INVARIANTS TypeOK CataloguedIsOnTape CompletedIsCatalogued CleanBetweenRuns
PROPERTY RunsEnd
CHECK_DEADLOCK FALSE
