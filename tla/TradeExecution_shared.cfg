SPECIFICATION TradeSpec
CONSTANTS
  d1 = d1
  d2 = d2
  cA = cA
  cB = cB
  s1 = s1
  s2 = s2
  wA = wA
  NoDispatch = NoDispatch
  NoWallet = NoWallet
  Unlimited = Unlimited
  Deliveries <- TwoDeliveries
  Dispatches <- TwoByOne
  MaxActions = 1
  Conds <- TwoConds
  Sigs <- TwoSigs
  Actions <- BothTrade
  Wallets <- OneWallet
  WalletOf <- SharedWallet
  Limit <- OnceAndNoLimit
  TradeCacheMax = 1
  MaxCrashes = 1
  MaxRetired = 0
SYMMETRY Symmetry
INVARIANTS
  OneTradePerWallet
  LimitRespected
  ReportedIsRecorded
  PendingRowsAreInLedger
PROPERTIES
  KeepsPromise
CHECK_DEADLOCK FALSE
