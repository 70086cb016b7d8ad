SPECIFICATION Spec
CONSTANTS
  t1 = t1
  t2 = t2
  alice = 101
  Tabs <- MCTabs
  Users <- MCUsers
  Timeout = 0
  MaxTime = 2
  MaxSessions = 3
  MaxAnons = 2
  MaxCalls = 2
SYMMETRY TabSymmetry
INVARIANTS
  PluginsFollow
  OneOwner
  Linked
PROPERTIES
  NotResumed
CHECK_DEADLOCK FALSE
