\* Three segments of each of two encoders, a window of two, one failing call.
SPECIFICATION Spec
CONSTANTS
  MaxSeg = 3
  Window = 2
  MaxFaults = 1
CHECK_DEADLOCK FALSE
INVARIANTS IndexedIsStored FlushCatchesUp
