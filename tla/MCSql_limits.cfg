CONSTANTS
  Jobs = {1, 2}
  RetainedJobs = {}
  Instances = {w1, w2}
  Pools = {wsl}
  wsl = wsl
  server = server
  w1 = w1
  w2 = w2
  f1 = f1
  PoolOf <- PoolOfInstance
  Remote = {w1, w2}
  Priority <- WslFirst
  MaxConcurrency <- OneAtATime
  Preferred = {}
  Fallback = {}
  NoInstance = NoInstance
  NoJob = NoJob
  MayHang = {w1}
  MaxAttempts = 1
  MaxFaults = 1
  MaxDown = 1
SPECIFICATION Spec
INVARIANTS ExecutionLimits
