SPECIFICATION Spec
CONSTANTS
  Tape = {1, 2}
  Slot = {11, 12}
  Drive = {8, 9}
  Home <- HomeInOrder
  Row <- BothTapes
  Request = {"r"}
  Selected <- Everything
  Task <- RestoreOrVerify
  Medium <- SomeBad
  MaxStarts = 2
  MaxTroubles = 1
CHECK_DEADLOCK FALSE
INVARIANTS TypeOK CompletedAsPlanned MarksAreTrue NothingLeftUntold
PROPERTY FullVerifyIsTrue
