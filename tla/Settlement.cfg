SPECIFICATION SettleFairSpec
CONSTANTS
  d1 = d1
  cA = cA
  s1 = s1
  wA = wA
  p1 = p1
  p2 = p2
  NoDispatch = NoDispatch
  NoWallet = NoWallet
  Unlimited = Unlimited
  Deliveries <- OneDelivery
  Dispatches <- OneByOne
  MaxActions = 1
  Conds <- OneCond
  Sigs <- OneSig
  Actions <- OnlyTrade
  Wallets <- OneWallet
  WalletOf <- OwnWallet
  Limit <- LimitTwo
  TradeCacheMax = 2
  MaxCrashes = 1
  MaxRetired = 0
  Passes <- TwoPasses
  PageSize = 1
INVARIANTS
  ConfirmedByChecker
  TablesAgree
PROPERTIES
  VerdictIsFinal
  PendingResolved
CHECK_DEADLOCK FALSE
