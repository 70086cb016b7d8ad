SPECIFICATION Spec
CONSTANTS
  MaxLives = 2
  MaxCrumbs = 3
  MaxDepth = 2
  Floor = 1
  Default = 2
  Sizes <- Resizes
  Rates = {"some"}
  None = None
CHECK_DEADLOCK FALSE
INVARIANTS
  ScopesFollowCalls
  CrumbsAreTheLast
  Unhooked
  OneEventPerError
