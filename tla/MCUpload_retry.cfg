CONSTANTS
  Instances = {}
  NoInstance = NoInstance
  MaxAttempts = 1
  Sessions = {u1, u2}
  NoSession = NoSession
  Requests = {r1, r2}
  Named = {r1}
  RetainedJobs = {}
  AudioBytes = 1
  SmallestAudio = 1
  StorageBytes = 3
  ConcurrentUploads = 1
  NoRequest = NoRequest
  NoFile = NoFile
  MaxFaults = 1
SPECIFICATION FairSpec
INVARIANTS UploadBound
PROPERTIES UploadsSettle
CHECK_DEADLOCK FALSE
