SPECIFICATION Spec
CONSTANTS
  Tab = {t1}
  Call = {c1, c2}
  Session = {s1, s2, s3}
  Event = {e1, e2, e3}
  MaxEvents = 2
  DrainLimit = 2
  MaxLoads = 1
  Nobody = Nobody
  NoSession = NoSession
SYMMETRY Symmetric
INVARIANTS
  CollisionsExplained
  Attributed
  DuplicatesExplained
