SPECIFICATION Spec
CONSTANTS
  Tape = {1, 2}
  Slot = {11, 12}
  Drive = {8}
  Home <- HomeInOrder
  Row <- SequenceLater
  Request = {"r"}
  Selected <- FileAndSequence
  Task <- RestoreOnly
  Medium <- AllFine
  MaxStarts = 1
  MaxTroubles = 0
CHECK_DEADLOCK FALSE
INVARIANT CompletedIsWhole
