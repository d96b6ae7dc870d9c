SPECIFICATION Spec
CONSTANTS
  web = web
  job = job
  c1 = c1
  c2 = c2
  shadow = shadow
  key = key
  meta = meta
  mapped = mapped
  Services = {web, job}
  NoService = NoService
  Cgroups = {c1, c2}
  Paths = {shadow, key}
  Addrs = {meta}
  To4 <- MCTo4
  Ports = {0, 80}
  Vague = {}
  TTL = 1
  Timeout = 1
  MapSize = 3
  CgroupMapSize = 1
  ScopeChoices <- MCScopeChoices
  Attempts <- MCAttempts
  MaxStarts = 1
  Answers <- MCAnswers
INVARIANTS
  ArmedAgree
  DenialExplained
  CleanIsApplied
PROPERTIES
  ReplacesAtomically
