SPECIFICATION ManagerSpec
CONSTANTS
  web = web
  job = job
  c1 = c1
  h1 = h1
  h2 = h2
  shadow = shadow
  key = key
  meta = meta
  subnet = subnet
  Services = {web}
  NoService = NoService
  Cgroups = {c1}
  Paths = {shadow, key}
  Addrs = {meta}
  To4 <- MCTo4
  Ports = {0}
  Vague = {subnet}
  Callers = {h1, h2}
  RuleSets <- OneRuleSet
  Gates = {TRUE}
  MaxTracked = 3
  StoreFails = FALSE
  MaxRev = 4
  MaxBoots = 1
INVARIANT SwitchIsPersisted
CHECK_DEADLOCK FALSE
