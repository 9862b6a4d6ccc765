\* Everything that may call finalizeVod for one session, failing calls and a crash.
SPECIFICATION Spec
CONSTANTS
  Keys = {k1}
  Sessions = {s1}
  Publishers = {p1}
  Sweeps = {w1, w2}
  Retries = {r1}
  Recover = recover
  NoKey = NoKey
  NoSession = NoSession
  Attempts = 2
  MaxSegs = 2
  MaxFaults = 2
  MaxCrashes = 1
  Faults = {"db", "s3", "video", "bus"}
  Env = {"quiet"}
CHECK_DEADLOCK FALSE
SYMMETRY Symmetry
INVARIANTS TypeOK OneFinalizer EndedHasReplay
PROPERTIES ReplayNeverShrinks LifecycleSpec
