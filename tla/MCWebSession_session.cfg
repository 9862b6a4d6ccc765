SPECIFICATION Spec
CONSTANTS
  Users = {ann, bob}
  Calls = {c1}
  MaxNav = 3
  MaxSent = 1
  MaxFaults = 1
CHECK_DEADLOCK FALSE
INVARIANTS TokensOfOneUser ReadyMeansLoaded
PROPERTIES CallsEnd
