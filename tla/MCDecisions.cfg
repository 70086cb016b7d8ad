SPECIFICATION Spec
CONSTANTS
  Published <- MCPublished
  Bundled <- MCBundled
  Fallbacks <- MCFallbacks
  NumberIn <- MCNumberIn
  Contained <- MCContained
  Window = 1
  BatchSize = 2
  MaxDays = 3
  MaxReads = 2
  MaxEvents = 1
INVARIANTS
  TypeOK
  ListenersAgree
  SubjectsExposed
  ServedWithinTwoWindows
CHECK_DEADLOCK FALSE
