\* One video, four requests of any kind, a failing call and a crash.
SPECIFICATION FairSpec
CONSTANTS
  Videos = {v1}
  Requests = {r1, r2}
  MaxRequests = 4
  NoVideo = NoVideo
  MaxRetries = 2
  MaxFaults = 1
  MaxCrashes = 1
  Faults = {"s3", "db", "kafka", "request"}
CHECK_DEADLOCK FALSE
INVARIANTS VisibleIsPlayable UploadedIsStored
PROPERTIES LifecycleSpec EventIsAnswered JobsSettle
