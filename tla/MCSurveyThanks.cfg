SPECIFICATION SurveySpec
CONSTANTS
  Texts <- TypedTexts
  NumberIn <- Numbers
  Contained <- TextContained
  Bundles <- AllBundles
  MaxShowings = 1
  MaxClicks = 4
  MaxInFlight = 2
INVARIANTS
  ThanksMeansSubmitted
CHECK_DEADLOCK FALSE
