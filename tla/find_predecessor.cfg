SPECIFICATION Spec
CONSTANTS
  Pids = {1, 2}
  MapSize = 2
  RingSize = 1
  MaxProcesses = 3
INVARIANT NeverItsPredecessor
CHECK_DEADLOCK FALSE
