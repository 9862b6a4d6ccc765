\* Two replicas with two connections each, one fault: two runs of the job, two webhook requests
\* at once, or two members of the consumer group.
SPECIFICATION Spec
CONSTANTS
  Rows = {1, 2, 3}
  Subs = {s1}
  Bills = {1, 2}
  Hooks = {h1, h2}
  Consumers = {k1, k2}
  Replicas = {p1, p2}
  PoolSize = 2
  NoSub = NoSub
  NoRow = NoRow
  MaxFaults = 1
  Scenes <- Together
SYMMETRY Symmetry
CHECK_DEADLOCK FALSE
INVARIANTS TrialsWithinMembers RenewalsAnnouncedOnce ExpiredOnce
PROPERTIES OnlyStripeRevives
