SPECIFICATION Spec
CONSTANTS
  Replicas = {r1, r2}
  Nobody = Nobody
  Files = 2
  MaxUploads = 2
  MaxLearned = 1
  MaxRounds = 0
  MaxFaults = 0
PROPERTY NewerReportStays
CHECK_DEADLOCK FALSE
