SPECIFICATION FairSpec
CONSTANTS
  Job = {1}
  Drive = {0, 1}
  Request <- FormatRequests
  MaxRoutes = 0
  MaxRestarts = 0
  MaxDbFailures = 0
  MaxOperatorLoads = 1
PROPERTY FormatLeavesQueue
