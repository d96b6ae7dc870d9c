SPECIFICATION FairSpec
CONSTANTS
  Cpus = {c1, c2}
  RingSize = 2
  ChannelSize = 1
  FlushAt = 2
  SpoolCap = 2
  MaxEvents = 6
INVARIANTS
  NothingUncounted
  OrderIsKept
  BacklogIsBounded
PROPERTIES
  QueueSpec
  HeldIsSent
CHECK_DEADLOCK FALSE
