SPECIFICATION LedgerSpec
CONSTANTS
  r1 = r1
  r2 = r2
  r3 = r3
  d1 = d1
  d2 = d2
  NoEvent = NoEvent
  Recorders = {r1, r2, r3}
  Deliveries = {d1, d2}
  Requests <- SomeRequests
  Store = "postgres"
  MaxEvents = 4
INVARIANTS LedgerTypeOK ChainVerifies HashCommitsToHistory
PROPERTY ImplementsAppendOnly
CHECK_DEADLOCK FALSE
