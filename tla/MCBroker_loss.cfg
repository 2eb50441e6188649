CONSTANTS
  Jobs = {j1}
  Instances = {s1}
  wsl = wsl
  Pools = {wsl}
  PoolOf <- PoolOfAll
  MaxConcurrency <- OneAtATime
  RetainedJobs = {j1}
  NoInstance = NoInstance
  NoMessage = NoMessage
  DeliveryIds = {1, 2, 3, 4, 5}
  MaxAttempts = 1
  MaxFaults = 2
  MaxCrashes = 0
  MaxReconciles = 1
  MaxBrokerLosses = 1
SPECIFICATION Spec
INVARIANTS NoLostJob
