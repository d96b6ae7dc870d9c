SPECIFICATION Spec
CONSTANTS
  web = web
  job = job
  c1 = c1
  c2 = c2
  h1 = h1
  h2 = h2
  shadow = shadow
  meta = meta
  mapped = mapped
  Services = {web}
  NoService = NoService
  Cgroups = {c1}
  Paths = {shadow}
  Addrs = {meta, mapped}
  To4 <- MCTo4
  Ports = {0}
  Vague = {}
  Callers = {h1}
  RuleSets <- OnlyRead
  Gates = {TRUE}
  MaxTracked = 2
  StoreFails = FALSE
  MaxRev = 4
  MaxBoots = 1
  TTL = 2
  Timeout = 1
  MapSize = 4
  CgroupMapSize = 2
  ScopeChoices <- OneCgroup
  Attempts <- NoAttempts
  MaxStarts = 0
INVARIANT SameRevSameVerdicts
