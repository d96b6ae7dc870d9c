SPECIFICATION FairSpec
CONSTANTS
  Pids = {1, 2}
  MapSize = 2
  RingSize = 1
  MaxProcesses = 2
PROPERTY StaysWatched
CHECK_DEADLOCK FALSE
