CONSTANTS
  Jobs = {j1}
  Instances = {s1, s2}
  wsl = wsl
  Pools = {wsl}
  PoolOf <- PoolOfAll
  MaxConcurrency <- OneAtATime
  RetainedJobs = {j1}
  NoInstance = NoInstance
  NoMessage = NoMessage
  DeliveryIds = {1, 2, 3, 4, 5}
  MaxAttempts = 2
  MaxFaults = 0
  MaxCrashes = 1
  MaxReconciles = 1
  MaxBrokerLosses = 1
SPECIFICATION Spec
INVARIANTS ReconcileRecovers
CHECK_DEADLOCK FALSE
