SPECIFICATION Spec
CONSTANTS
  Pids = {1, 2}
  MapSize = 2
  RingSize = 1
  MaxProcesses = 1
INVARIANT ThreadKeysRemoved
CHECK_DEADLOCK FALSE
