CONSTANTS
  r1 = r1
  r2 = r2
  r3 = r3
  k1 = k1
  k2 = k2
  alice = alice
  nobody = nobody
  None = None
  InitialBalance <- MCInitialBalance
  Requests = {r1, r2, r3}
  Keys = {k1}
  Customers = {alice, nobody}
  Accounts = {alice}
  Amounts = {2}
  Backends = {"memory", "redis"}
  Routes = {"charge", "buggy"}
  HandlersOutliveTTL = FALSE
  Faults = TRUE
SPECIFICATION FairSpec
INVARIANT SingleExecutor
PROPERTIES EveryCallAnswered StuckKeyFreed
CHECK_DEADLOCK FALSE
