SPECIFICATION FairSpec
CONSTANTS
  t1 = t1
  t2 = t2
  Tab = {t1, t2}
  Reach <- BothIdb
  Op = {o1, o2}
  Call = {c1, c2}
  NoCall = NoCall
  IndexedDB = IndexedDB
  BatchSize = 1
  MaxClosures = 1
INVARIANTS
  TypeOK
  SingleFlight
  NoLoss
  DuplicatesExplained
  InOrder
PROPERTIES
  Delivered
  ImplementsAtLeastOnce
