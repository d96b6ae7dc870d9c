SPECIFICATION Spec
CONSTANTS
  Replicas = {r1, r2}
  Nobody = Nobody
  Files = 2
  MaxUploads = 2
  MaxLearned = 1
  MaxRounds = 1
  MaxFaults = 0
INVARIANT DigestNotDoubled
CHECK_DEADLOCK FALSE
