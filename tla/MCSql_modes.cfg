CONSTANTS
  Jobs = {1}
  RetainedJobs = {1}
  Instances = {w1, f1}
  Pools = {wsl, server}
  wsl = wsl
  server = server
  w1 = w1
  w2 = w2
  f1 = f1
  PoolOf <- PoolOfInstance
  Remote = {w1}
  Priority <- WslFirst
  MaxConcurrency <- OneAtATime
  Preferred = {wsl}
  Fallback = {f1}
  NoInstance = NoInstance
  NoJob = NoJob
  MayHang = {w1}
  MaxAttempts = 2
  MaxFaults = 1
  MaxDown = 1
SPECIFICATION FairSpec
INVARIANTS TypeOK
PROPERTIES KeepsPromise OnlyNewestAttemptSettles JobsSettle
