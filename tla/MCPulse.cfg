SPECIFICATION Spec
CONSTANTS
  NumberIn <- Numbers
  Contained <- TextContained
  Matches <- UrlMatches
  Score <- Hash
  Pages = {"/home", "/checkout"}
  Respondents <- Anonymous
  Versions <- Dashboard
  Traits <- Visitor
  MaxShows = 2
  MaxTicks = 3
  MaxEvents = 3
INVARIANTS
  OnlyModal
  RespondentIsCurrent
PROPERTIES
  NotReprompted
CHECK_DEADLOCK FALSE
