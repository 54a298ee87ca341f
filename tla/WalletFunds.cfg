SPECIFICATION FundsFairSpec
CONSTANTS
  a1 = a1
  a2 = a2
  m1 = m1
  wA = wA
  wB = wB
  NoDispatch = NoDispatch
  NoWallet = NoWallet
  NoBalance = NoBalance
  Asked = Asked
  Dispatches <- TwoTrades
  Manual <- OneManual
  Wallets <- TwoWallets
  WalletOfSpend <- SpendsOnTwo
  Amount <- TwoEach
  Fee = 1
  FeeBuffer = 1
  Deposit <- FiveHeld
INVARIANTS
  LockInv
  FreshCheckCovers
  NeverRefused
PROPERTIES
  NoOvertaking
  WaiterEnters
CHECK_DEADLOCK FALSE
