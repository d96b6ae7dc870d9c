SPECIFICATION ManagerSpec
CONSTANTS
  web = web
  job = job
  c1 = c1
  h1 = h1
  h2 = h2
  shadow = shadow
  key = key
  meta = meta
  subnet = subnet
  Services = {web, job}
  NoService = NoService
  Cgroups = {c1}
  Paths = {shadow, key}
  Addrs = {meta}
  To4 <- MCTo4
  Ports = {0}
  Vague = {subnet}
  Callers = {h1, h2}
  RuleSets <- MCRuleSets
  Gates = {TRUE, FALSE}
  MaxTracked = 3
  StoreFails = TRUE
  MaxRev = 4
  MaxBoots = 1
INVARIANTS
  VerdictsAreCompiled
PROPERTIES
  RevNamesVerdicts
CHECK_DEADLOCK FALSE
