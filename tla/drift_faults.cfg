SPECIFICATION FairSpec
CONSTANTS
  web = web
  v1 = v1
  v2 = v2
  v3 = v3
  h1 = h1
  h2 = h2
  r1 = r1
  r2 = r2
  read = read
  npmrc = npmrc
  dns = dns
  Subjects = {web}
  Versions = {v1, v2}
  NoVersion = NoVersion
  Behaviors = {read, npmrc, dns}
  HighRisk = {npmrc}
  AlwaysOn = {}
  Enforceable = {npmrc}
  BlockRule = {npmrc}
  MinObs = 2
  MinAge = 1
  Batches <- FaultyBatches
  Imports <- NoImports
  Handlers = {h1, h2}
  Replicas = {r1, r2}
  ReplicaOf <- MCReplicaOf
  Dialect = "postgres"
  FaultKinds = {"store", "timeout", "crash"}
  MaxFaults = 2
  MaxImports = 0
INVARIANTS
  AcknowledgedIsStored
  AlertedIsDrift
  PromotionIsEarned
PROPERTIES
  RequestsEnd
  BatchesAcknowledged
CHECK_DEADLOCK FALSE
