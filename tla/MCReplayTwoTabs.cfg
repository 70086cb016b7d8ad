SPECIFICATION Spec
CONSTANTS
  Tab = {t1, t2}
  Call = {c1}
  Session = {s1, s2}
  Event = {e1, e2}
  MaxEvents = 2
  DrainLimit = 2
  MaxLoads = 1
  Nobody = Nobody
  NoSession = NoSession
SYMMETRY Symmetric
INVARIANTS
  DuplicatesExplained
PROPERTY
  ImplementsAtLeastOnce
