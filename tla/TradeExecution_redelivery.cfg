SPECIFICATION TradeFairSpec
CONSTANTS
  d1 = d1
  d2 = d2
  cA = cA
  cB = cB
  s1 = s1
  s2 = s2
  wA = wA
  NoDispatch = NoDispatch
  NoWallet = NoWallet
  Unlimited = Unlimited
  Deliveries <- TwoDeliveries
  Dispatches <- TwoByFive
  MaxActions = 5
  Conds <- OneCond
  Sigs <- OneSig
  Actions <- EveryAction
  Wallets <- OneWallet
  WalletOf <- OwnWallet
  Limit <- LimitTwo
  TradeCacheMax = 2
  MaxCrashes = 1
  MaxRetired = 1
INVARIANTS
  TradeInv
  AtMostOneSend
PROPERTIES
  ClaimedFinishes
CHECK_DEADLOCK FALSE
