SPECIFICATION FairSpec
CONSTANTS
  web = web
  job = job
  c1 = c1
  c2 = c2
  shadow = shadow
  key = key
  meta = meta
  mapped = mapped
  Services = {web, job}
  NoService = NoService
  Cgroups = {c1, c2}
  Paths = {shadow, key}
  Addrs = {meta}
  To4 <- MCTo4
  Ports = {0, 80}
  Vague = {}
  TTL = 1
  Timeout = 1
  MapSize = 3
  CgroupMapSize = 2
  ScopeChoices <- OneScope
  Attempts <- NoAttempts
  MaxStarts = 0
  Answers <- BigAnswers
PROPERTY FittingIsApplied
