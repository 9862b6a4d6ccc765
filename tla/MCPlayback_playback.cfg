SPECIFICATION Spec
CONSTANTS
  UserTabs = {t1}
  AdminTabs = {t2}
  Users = {ann}
  Scenes <- MCScenes
  MaxPos = 1
  MaxOpens = 2
  MaxBeats = 2
  MaxFaults = 1
CHECK_DEADLOCK FALSE
INVARIANTS NothingLeaks WithinCap
PROPERTIES ProgressSaved
