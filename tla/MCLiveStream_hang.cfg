CONSTANTS
  Sources = {weather, news, finance}
  weather = weather
  news = news
  finance = finance
  Evicting = TRUE
  Leaving = FALSE
  Faults = FALSE
  c1 = c1
  None = None
  Clients = {c1}
  Broadcasts = {weather, news, finance}
  QueueSize = 1
  ClientsLeave = FALSE
SPECIFICATION LiveFairSpec
PROPERTY StreamEnds
CHECK_DEADLOCK FALSE
