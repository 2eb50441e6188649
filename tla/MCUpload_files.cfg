CONSTANTS
  Instances = {}
  NoInstance = NoInstance
  MaxAttempts = 1
  Sessions = {u1, u2}
  NoSession = NoSession
  Requests = {r1}
  Named = {r1}
  RetainedJobs = {r1}
  AudioBytes = 2
  SmallestAudio = 0
  StorageBytes = 3
  ConcurrentUploads = 2
  NoRequest = NoRequest
  NoFile = NoFile
  MaxFaults = 2
SPECIFICATION Spec
INVARIANTS TypeOK QueuedHasInput AnsweredIsQueued StorageBound
PROPERTIES NeverReopened
SYMMETRY SessionSymmetry
CHECK_DEADLOCK FALSE
