\* An admin and a new address, two of three requests at once, and a crash.
SPECIFICATION FairSpec
CONSTANTS
  Users = {boss, ann}
  Seeds = {boss}
  Workers = {w1, w2}
  MaxRequests = 3
  MaxCrashes = 1
CHECK_DEADLOCK FALSE
INVARIANTS AnnouncedOnce OnlyGranted
PROPERTIES StaleCacheEnds
