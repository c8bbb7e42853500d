SPECIFICATION FairSpec
CONSTANTS
  Job = {1, 2}
  Request <- Mixed
  Tape = {1, 2, 3}
  Slot = {11, 12, 13}
  Drive = {8, 9}
  Home <- HomeInOrder
  Unit = {"a", "b", "c"}
  Content <- UnitsOfTape
  FirstStatus <- RowOfTape
  MaxTroubles = 2
CHECK_DEADLOCK FALSE
INVARIANTS TypeOK StrayTapesReported CatalogueIsTrue
PROPERTIES WipedByRequest KeepsBatch JobsEnd
