\* Two broadcasters on one key while it is revoked and its sessions are force-ended.
SPECIFICATION Spec
CONSTANTS
  Keys = {k1}
  Sessions = {s1, s2}
  Publishers = {p1, p2}
  Sweeps = {}
  Retries = {}
  Recover = recover
  NoKey = NoKey
  NoSession = NoSession
  Attempts = 2
  MaxSegs = 0
  MaxFaults = 1
  MaxCrashes = 0
  Faults = {"nginx", "launch"}
  Env = {"revoke", "forceEnd", "browser"}
CHECK_DEADLOCK FALSE
SYMMETRY Symmetry
INVARIANT OneLivePerKey
