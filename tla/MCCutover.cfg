CONSTANTS
  q1 = q1
  c1 = c1
  wsl = wsl
  mac = mac
  Jobs = {1}
  Pools = {wsl, mac}
  PoolOf <- PoolOfBoth
  Ingress = ingress
  Instances = {q1, c1}
  SqlSlots = {q1}
  BrokerSlots = {c1}
  NoInstance = NoInstance
  NoJob = NoJob
  NoMessage = NoMessage
  MaxAttempts = 2
  MaxFaults = 1
  MaxRestarts = 3
  MaxReconciles = 1
SPECIFICATION FairSpec
INVARIANTS TypeOK NoLostJob JobsAccounted AttemptsAccounted
PROPERTIES NoAttemptOverLive KeepsPromise JobsSettle
CHECK_DEADLOCK FALSE
