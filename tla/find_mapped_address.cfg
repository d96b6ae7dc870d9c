SPECIFICATION Spec
CONSTANTS
  web = web
  job = job
  c1 = c1
  c2 = c2
  shadow = shadow
  key = key
  meta = meta
  mapped = mapped
  Services = {web, job}
  NoService = NoService
  Cgroups = {c1, c2}
  Paths = {shadow, key}
  Addrs = {meta, mapped}
  To4 <- MappedTo4
  Ports = {0, 80}
  Vague = {}
  TTL = 1
  Timeout = 1
  MapSize = 2
  CgroupMapSize = 1
  ScopeChoices <- MCScopeChoices
  Attempts <- NoAttempts
  MaxStarts = 0
  Answers <- MappedAnswers
INVARIANT VerdictsBite
