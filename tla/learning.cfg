SPECIFICATION Spec
CONSTANTS
  web = web
  v1 = v1
  read = read
  npmrc = npmrc
  Subjects = {web}
  Versions = {v1}
  Behaviors = {read, npmrc}
  MinObs = 3
  MinAge = 2
  Times = {1, 2, 4}
  MaxEvents = 2
  MaxGroups = 3
INVARIANTS
  LoopIsMerge
CHECK_DEADLOCK FALSE
