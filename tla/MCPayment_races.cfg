CONSTANTS
  r1 = r1
  r2 = r2
  r3 = r3
  k1 = k1
  k2 = k2
  alice = alice
  nobody = nobody
  None = None
  InitialBalance <- MCInitialBalance
  Requests = {r1, r2, r3}
  Keys = {k1, k2}
  Customers = {alice}
  Accounts = {alice}
  Amounts = {1, 2}
  Backends = {"redis"}
  Routes = {"charge"}
  HandlersOutliveTTL = TRUE
  Faults = TRUE
SPECIFICATION Spec
INVARIANT RepliesBacked
PROPERTY ImplementsLedger
CHECK_DEADLOCK FALSE
