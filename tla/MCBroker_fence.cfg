CONSTANTS
  Jobs = {j1}
  Instances = {s1, s2}
  wsl = wsl
  Pools = {wsl}
  PoolOf <- PoolOfAll
  MaxConcurrency <- BothAtOnce
  RetainedJobs = {j1}
  NoInstance = NoInstance
  NoMessage = NoMessage
  DeliveryIds = {1, 2, 3, 4, 5}
  MaxAttempts = 2
  MaxFaults = 1
  MaxCrashes = 1
  MaxReconciles = 0
  MaxBrokerLosses = 0
SPECIFICATION FairSpec
INVARIANTS TypeOK NoLostJob TokenHeldOnce
PROPERTIES JobsSettle KeepsPromise OnlyNewestAttemptSettles FinishedJobsDrain
