CONSTANTS
  Sources = {weather, news, finance}
  weather = weather
  news = news
  finance = finance
  Evicting = TRUE
  Leaving = TRUE
  Faults = TRUE
SPECIFICATION FairSpec
INVARIANTS CompletedIsComplete AnnouncedStays NothingLost
PROPERTIES CancelledIsRecorded StreamEndsUndisturbed
CHECK_DEADLOCK FALSE
