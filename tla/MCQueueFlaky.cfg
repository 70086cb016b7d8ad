SPECIFICATION Spec
CONSTANTS
  t1 = t1
  t2 = t2
  Tab = {t1}
  Reach <- FlakyIdb
  Op = {o1, o2}
  Call = {c1, c2}
  NoCall = NoCall
  IndexedDB = IndexedDB
  BatchSize = 1
  MaxClosures = 0
INVARIANTS
  NoLoss
