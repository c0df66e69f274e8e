CONSTANTS
  r1 = r1
  r2 = r2
  r3 = r3
  weather = weather
  None = None
  Requests = {r1, r2, r3}
  Queries = {weather}
  Leaving = TRUE
  Evicting = TRUE
  Faults = TRUE
SPECIFICATION FairSpec
INVARIANTS NoRedundantFanOut RepliesRecorded
PROPERTIES EveryCallAnswered ImplementsFlights
CHECK_DEADLOCK FALSE
