SPECIFICATION FairSpec
CONSTANTS
  Create = {1, 2, 3}
  Asks <- ThreeForms
  Silent = {2}
  Delete = {11}
  Recheck = {21}
  Databases = {"sqlite", "postgres"}
  MaxTroubles = 1
INVARIANTS TypeOK RowsHaveTheirMount NoMountLeftBehind
PROPERTIES SweepRecords NewsArrive
