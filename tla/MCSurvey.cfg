SPECIFICATION SurveySpec
CONSTANTS
  Texts <- TypedTexts
  NumberIn <- Numbers
  Contained <- TextContained
  Bundles <- AllBundles
  MaxShowings = 2
  MaxClicks = 5
  MaxInFlight = 2
INVARIANTS
  SeenIsRecorded
  SubmissionsValid
  DuplicatesExplained
  DraftSaved
CHECK_DEADLOCK FALSE
