SPECIFICATION TabSpec
CONSTANTS
  x1 = x1
  x2 = x2
  x3 = x3
  t1 = t1
  t2 = t2
  t3 = t3
  NoSocket = NoSocket
  Sockets <- ThreeSockets
  Txs <- ThreeTxs
  Manual <- ManualTx
  MaxBreaks = 1
  MaxHiccups = 1
  MaxSessions = 1
  MaxOverlaps = 1
  MaxRestarts = 1
INVARIANTS
  ListedIsPending
  RegisteredIsOpen
  CounterIsExact
PROPERTY
  TabReturns
CHECK_DEADLOCK FALSE
