SPECIFICATION FairSpec
CONSTANTS
  Replicas = {r1, r2}
  Nobody = Nobody
  Files = 2
  MaxUploads = 2
  MaxLearned = 1
  MaxRounds = 1
  MaxFaults = 1
INVARIANTS
  MigratedOnce
  OneLeader
PROPERTIES
  ReportCatchesUp
CHECK_DEADLOCK FALSE
