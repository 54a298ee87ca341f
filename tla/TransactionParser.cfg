SPECIFICATION ParserSpec
CONSTANTS
  w1 = w1
  w2 = w2
  wsol = wsol
  m1 = m1
  m2 = m2
  Program = Program
  Absent = Absent
  Wallets <- TwoWallets
  Mints <- ThreeMints
  Sol = wsol
  Transactions <- SomeTransactions
  Settings <- SomeSettings
INVARIANTS
  DirectionIsTrue
  OwnTransfer
CHECK_DEADLOCK FALSE
