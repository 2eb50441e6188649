CONSTANTS
  Jobs = {j1, j2}
  Instances = {s1, s2}
  wsl = wsl
  Pools = {wsl}
  PoolOf <- PoolOfAll
  MaxConcurrency <- OneAtATime
  RetainedJobs = {}
  NoInstance = NoInstance
  NoMessage = NoMessage
  DeliveryIds = {1, 2, 3, 4, 5, 6}
  MaxAttempts = 1
  MaxFaults = 1
  MaxCrashes = 1
  MaxReconciles = 0
  MaxBrokerLosses = 0
SPECIFICATION Spec
INVARIANTS ExecutionLimits
SYMMETRY JobAndInstanceSymmetry
