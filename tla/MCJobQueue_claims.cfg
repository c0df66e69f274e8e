CONSTANTS
  c1 = c1
  c2 = c2
  d1 = d1
  j1 = j1
  j2 = j2
  None = None
  Claims = {c1, c2}
  Completes = {d1}
  Jobs = {j1, j2}
  Strategies = {"skip_locked", "blocking", "nowait"}
  Faults = TRUE
SPECIFICATION FairSpec
INVARIANT OldestFirst
PROPERTIES NothingLeftBehind EveryCallAnswered ImplementsQueue
CHECK_DEADLOCK FALSE
