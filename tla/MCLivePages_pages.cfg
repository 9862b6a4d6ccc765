SPECIFICATION Spec
CONSTANTS
  MaxStreams = 2
  MaxSockets = 2
  MaxFaults = 1
CHECK_DEADLOCK FALSE
INVARIANTS LiveHasRecorder MutedForAWhile
PROPERTIES ConnectingEnds WatcherReachesReplay LeavesForGood CountSettles
