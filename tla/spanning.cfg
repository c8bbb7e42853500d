SPECIFICATION FairPlanSpec
CONSTANTS
  Tape = {1, 2, 3}
  Capacity <- Sizes
  Source = {"A"}
  Cartridge <- Rows
  Batch <- Batches
  Hidden = {7, 8}
  Trees <- SourceTrees
INVARIANTS TypeOK NoOverflow GreedyIsolation NoNeedlessSplit PlanAddsUp GapsAreTrue
PROPERTY Terminates
CHECK_DEADLOCK FALSE
