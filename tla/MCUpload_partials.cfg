CONSTANTS
  Instances = {}
  NoInstance = NoInstance
  MaxAttempts = 1
  Sessions = {u1, u2}
  NoSession = NoSession
  Requests = {r1}
  Named = {r1}
  RetainedJobs = {r1}
  AudioBytes = 2
  SmallestAudio = 0
  StorageBytes = 4
  ConcurrentUploads = 2
  NoRequest = NoRequest
  NoFile = NoFile
  MaxFaults = 1
SPECIFICATION Spec
PROPERTIES PartialsArePrivate
CHECK_DEADLOCK FALSE
