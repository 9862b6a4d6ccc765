\* Liveness of one session with a failing call and a crash.
SPECIFICATION FairSpec
CONSTANTS
  Keys = {k1}
  Sessions = {s1}
  Publishers = {p1}
  Sweeps = {w1}
  Retries = {r1}
  Recover = recover
  NoKey = NoKey
  NoSession = NoSession
  Attempts = 2
  MaxSegs = 1
  MaxFaults = 1
  MaxCrashes = 1
  Faults = {"db", "s3", "video", "bus", "nginx"}
  Env = {"quiet", "cap", "encoderCrash", "browser"}
CHECK_DEADLOCK FALSE
PROPERTIES LiveEnds ReplayEventually
