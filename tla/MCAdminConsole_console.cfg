\* A page and another after it, two loads and two changes in flight, one failure.
SPECIFICATION Spec
CONSTANTS
  Texts = {"text"}
  LastNo = 1
  Subs = {"sub1", "sub2"}
  Amounts = {0, 5}
  Sessions = {"s1"}
  Versions = {"edited"}
  Tags = {"tag"}
  MaxTags = 1
  None = None
  First = {"users", "videos", "user", "subscriptions", "live"}
  MaxMounts = 2
  MaxLoads = 2
  MaxCalls = 2
  MaxFaults = 1
CHECK_DEADLOCK FALSE
INVARIANTS RefundIsMeant RowsOfPage BadgeIsTrue
PROPERTIES EndedLeavesList ListSettles
