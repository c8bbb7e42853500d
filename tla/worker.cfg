SPECIFICATION Spec
CONSTANTS
  Job = {1, 2}
  Drive = {0, 1}
  Request <- MixedRequests
  MaxRoutes = 1
  MaxRestarts = 1
  MaxDbFailures = 1
  MaxOperatorLoads = 0
INVARIANTS TypeOK ClaimsMatchJobs RowsMatchThreads
PROPERTY KeepsReservation
