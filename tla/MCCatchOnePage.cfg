SPECIFICATION FairSpec
CONSTANTS
  Page = {p1}
  Call = {c1, c2}
  Event = {e1, e2, e3}
  BatchSize = 2
  MaxStored = 2
  SaveOutcome <- SavesWork
  MaxClosures = 2
INVARIANTS
  BufferIsSaved
  NoSilentLoss
  DuplicatesExplained
  Bounded
PROPERTIES
  Delivered
  ImplementsAtLeastOnce
