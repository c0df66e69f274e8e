CONSTANTS
  c1 = c1
  c2 = c2
  c3 = c3
  d1 = d1
  d2 = d2
  Clients = {c1, c2, c3}
  DocOf <- MCDocOf
  Standbys = {"replica1", "replica2"}
  Workloads <- MCWorkloads
  MaxAttempts = 2
  Pausing = TRUE
  Faults = TRUE
SPECIFICATION FairSpec
INVARIANTS ReadYourWrites PrimaryIsCurrent QuorumSurvives
PROPERTIES EveryCallAnswered AvailableWhenPartitioned
CHECK_DEADLOCK FALSE
