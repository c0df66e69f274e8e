CONSTANTS
  e1 = e1
  e2 = e2
  t1 = t1
  t2 = t2
  f1 = f1
  MayTarget <- MCMayTarget
  Events = {e1, e2}
  Targets = {t1, t2}
  Fetches = {f1}
  WebhookLimit = 1
  HttpLimit = 1
  Leaving = TRUE
  Evicting = TRUE
  Unreachable = TRUE
  Faults = TRUE
SPECIFICATION FairSpec
INVARIANTS StatusIsTrue RetriesVisible
PROPERTY EveryTriggerEnds
CHECK_DEADLOCK FALSE
