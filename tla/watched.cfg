SPECIFICATION FairSpec
CONSTANTS
  Pids = {1, 2, 3}
  MapSize = 2
  RingSize = 1
  MaxProcesses = 2
PROPERTIES
  KeysAreAccounted
  RuntimeGetsWatched
  GoneIsForgotten
CHECK_DEADLOCK FALSE
