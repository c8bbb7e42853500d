SPECIFICATION LiveSpec
CONSTANTS
  Job = {1, 2}
  Drive = {0, 1}
  Request <- LiveRequests
  MaxRoutes = 0
  MaxRestarts = 1
  MaxDbFailures = 0
  MaxOperatorLoads = 1
PROPERTY EveryJobEnds
